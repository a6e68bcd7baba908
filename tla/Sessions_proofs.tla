--------------------------- MODULE Sessions_proofs ---------------------------
(***************************************************************************)
(* What a TUI may count on about its leases, for every number of TUIs and  *)
(* sessions, however their commands and messages interleave.               *)
(***************************************************************************)
EXTENDS Sessions, TLAPS

Kinds == LeaseCalls \cup HistoryCalls \cup TurnCalls \cup PersistCalls \cup Messages

\* Items that may be about no session.
Nameless == {"create", "drain", "persisted", "cancelled", "failed"}

\* The type of a TUI and of an item that know the sessions S.
TuiOf(S) ==
    {t \in [chat : S \cup {None}, leased : S \cup {None}, lost : BOOLEAN, blocked : BOOLEAN,
            retry : S \cup {None}, pending : SUBSET S, unsaved : SUBSET S, busy : BOOLEAN,
            dialogBusy : BOOLEAN, asks : {"nothing", "import", "fork"},
            subject : S \cup {None}, streaming : BOOLEAN, live : BOOLEAN,
            hero : S \cup {None}] :
        t.asks # "nothing" => t.subject \in S}
ItemOf(S) ==
    {w \in [kind : Kinds, s : S \cup {None}, others : SUBSET S, flag : BOOLEAN] :
        w.kind \in Nameless \/ w.s \in S}

\* Sessions there have been.
Met == {s \in Sessions : rows[s] # "new"}

\* Nobody refers to a session before there is one.
BaseInv ==
    /\ rows \in [Sessions -> {"new", "kept", "deleted"}]
    /\ owner \in [Sessions -> Tuis \cup {None}]
    /\ left \in [Sessions -> 0..TTL]
    /\ tui \in [Tuis -> TuiOf(Met)]
    /\ work \in [Tuis -> SUBSET ItemOf(Met)]
    /\ history \in [commands : [Tuis -> Nat], failures : Nat, slips : SUBSET Slips]

Has(p, slip) == <<p, slip>> \in history.slips

\* A lease that is running has an owner, and one that is not has an owner that is late.
ExpiryInv ==
    \A s \in Sessions : /\ left[s] > 0 => owner[s] \in Tuis
                        /\ (owner[s] # None /\ left[s] = 0) => Has(owner[s], "late")

-----------------------------------------------------------------------------
(* Items and fields.                                                       *)

\* What an item becomes is an item.
LEMMA Items ==
    ASSUME NEW S
    PROVE  /\ \A k \in Kinds, s \in S, o \in SUBSET S : Of(k, s, o) \in ItemOf(S)
           /\ \A k \in Kinds, s \in S : To(k, s) \in ItemOf(S)
           /\ \A k \in Kinds \cap Nameless, s \in S \cup {None}, o \in SUBSET S :
                 Of(k, s, o) \in ItemOf(S) /\ To(k, s) \in ItemOf(S)
           /\ \A w \in ItemOf(S), k \in Kinds : w.s \in S => Becomes(w, k) \in ItemOf(S)
           /\ \A w \in ItemOf(S), k \in Kinds, o \in SUBSET S : w.s \in S =>
                 /\ [w EXCEPT !.kind = k, !.others = o] \in ItemOf(S)
                 /\ [Becomes(w, k) EXCEPT !.others = o] \in ItemOf(S)
           /\ \A w \in ItemOf(S), b \in BOOLEAN : [w EXCEPT !.flag = b] \in ItemOf(S)
  BY DEF ItemOf, Of, To, Becomes

\* The items a bump makes stale.
LEMMA BumpedItems ==
    ASSUME NEW S, NEW W \in SUBSET ItemOf(S), NEW s
    PROVE  Bumped(W, s) \in SUBSET ItemOf(S)
  <1>1. \A w \in W : [w EXCEPT !.flag = TRUE] \in ItemOf(S)
    BY DEF ItemOf
  <1> QED BY <1>1 DEF Bumped

LEMMA CleanupItems ==
    ASSUME NEW S, NEW o \in SUBSET S
    PROVE  Cleanups(o) \in SUBSET ItemOf(S)
  <1>1. \A s \in o : To("release", s) \in ItemOf(S)
    BY Items DEF Kinds, LeaseCalls
  <1> QED BY <1>1 DEF Cleanups

LEMMA DrainItems ==
    ASSUME NEW S, NEW t \in TuiOf(S)
    PROVE  Drains(t) \in SUBSET ItemOf(S)
  <1>1. Of("drain", t.retry, t.unsaved) \in ItemOf(S)
    BY Items DEF Kinds, Nameless, PersistCalls, TuiOf
  <1> QED BY <1>1 DEF Drains

\* What the handlers make of a TUI.
LEMMA Fields ==
    ASSUME NEW S, NEW t \in TuiOf(S)
    PROVE  /\ Reset(t) \in TuiOf(S)
           /\ Drained(t) \in TuiOf(S)
           /\ NotBusy(t) \in TuiOf(S)
           /\ \A o \in SUBSET S : CleanUp(t, o) \in TuiOf(S)
           /\ \A w \in ItemOf(S) : Answered(t, w) \in TuiOf(S) /\ NotSaved(t, w) \in TuiOf(S)
  <1>1. Reset(t) \in TuiOf(S) BY DEF TuiOf, Reset
  <1>2. Drained(t) \in TuiOf(S) BY DEF TuiOf, Drained
  <1>3. NotBusy(t) \in TuiOf(S) BY DEF TuiOf, NotBusy
  <1>4. ASSUME NEW o \in SUBSET S PROVE CleanUp(t, o) \in TuiOf(S)
    <2>1. t.pending \cup o \in SUBSET S BY DEF TuiOf
    <2> QED BY <2>1 DEF TuiOf, CleanUp
  <1>5. ASSUME NEW w \in ItemOf(S) PROVE Answered(t, w) \in TuiOf(S)
    BY DEF TuiOf, ItemOf, Answered
  <1>6. ASSUME NEW w \in ItemOf(S) PROVE NotSaved(t, w) \in TuiOf(S)
    <2>1. t.unsaved \cup w.others \in SUBSET S BY DEF TuiOf, ItemOf
    <2>2. w.s \in S \cup {None} BY DEF ItemOf
    <2> DEFINE takes == t.chat \in {None, w.s}
               c == IF takes THEN w.s ELSE t.chat
               r == IF takes /\ t.leased # w.s THEN w.s ELSE t.retry
               v == t.unsaved \cup w.others
    <2>3. c \in S \cup {None} /\ r \in S \cup {None} /\ v \in SUBSET S
      BY <2>1, <2>2 DEF TuiOf
    <2>4. NotSaved(t, w) = [t EXCEPT !.unsaved = v, !.chat = c, !.retry = r, !.blocked = TRUE]
      BY DEF NotSaved
    <2> HIDE DEF c, r, v
    <2> QED BY <2>3, <2>4 DEF TuiOf
  <1> QED BY <1>1, <1>2, <1>3, <1>4, <1>5, <1>6

\* Who knows some sessions may know more.
LEMMA Larger ==
    ASSUME NEW S, NEW R, S \subseteq R
    PROVE  TuiOf(S) \subseteq TuiOf(R) /\ ItemOf(S) \subseteq ItemOf(R)
  <1>1. TuiOf(S) \subseteq TuiOf(R) BY DEF TuiOf
  <1>2. ItemOf(S) \subseteq ItemOf(R) BY DEF ItemOf
  <1> QED BY <1>1, <1>2
-----------------------------------------------------------------------------
(* The database.                                                           *)

\* What a step of p may do to the leases and the sessions there are.
DbStep(p) ==
    /\ rows' \in [Sessions -> {"new", "kept", "deleted"}]
    /\ owner' \in [Sessions -> Tuis \cup {None}]
    /\ left' \in [Sessions -> 0..TTL]
    /\ history' \in [commands : [Tuis -> Nat], failures : Nat, slips : SUBSET Slips]
    /\ history.slips \subseteq history'.slips
    /\ \A s \in Sessions :
          /\ \/ owner'[s] = owner[s] /\ left'[s] = left[s]
             \/ owner'[s] = p /\ left'[s] = TTL /\ (owner[s] \in {None, p} \/ left[s] = 0)
             \/ owner'[s] = None /\ left'[s] = 0 /\ (owner[s] = p \/ rows'[s] = "deleted")
          /\ \/ rows'[s] = rows[s]
             \/ rows[s] = "new" /\ rows'[s] = "kept"
             \/ rows[s] = "kept" /\ rows'[s] = "deleted"

Slipped(p, slip) == history'.slips = history.slips \cup {<<p, slip>>}
SameSlips == history'.slips = history.slips
HistoryType == history' \in [commands : [Tuis -> Nat], failures : Nat, slips : SUBSET Slips]

LEMMA SlipTo ==
    ASSUME BaseInv, NEW p \in Tuis, NEW slip \in {"late", "gone", "left"}, Slip(p, slip)
    PROVE  HistoryType /\ Slipped(p, slip)
  <1>1. history.slips \cup {<<p, slip>>} \in SUBSET Slips BY DEF BaseInv, Slips
  <1> QED BY <1>1 DEF BaseInv, Slip, HistoryType, Slipped

LEMMA FailsTo ==
    ASSUME BaseInv, Fails
    PROVE  HistoryType /\ SameSlips
  <1>1. history.failures - 1 \in Nat BY DEF BaseInv, Fails
  <1> QED BY <1>1 DEF BaseInv, Fails, HistoryType, SameSlips

LEMMA KeptTo ==
    ASSUME BaseInv, UNCHANGED history
    PROVE  HistoryType /\ SameSlips
  BY DEF BaseInv, HistoryType, SameSlips

LEMMA FailsUnlessTo ==
    ASSUME BaseInv, NEW ok, FailsUnless(ok)
    PROVE  HistoryType /\ SameSlips
  BY FailsTo, KeptTo DEF FailsUnless

LEMMA CommandTo ==
    ASSUME BaseInv, NEW p \in Tuis, Command(p)
    PROVE  HistoryType /\ SameSlips /\ UNCHANGED <<rows, owner, left>>
  <1>1. history.commands[p] - 1 \in Nat BY DEF BaseInv, Command
  <1>2. [history.commands EXCEPT ![p] = @ - 1] \in [Tuis -> Nat] BY <1>1 DEF BaseInv
  <1> QED BY <1>2 DEF BaseInv, Command, HistoryType, SameSlips

\* The database as it was, but for slips.
LEMMA QuietDb ==
    ASSUME BaseInv, NEW p \in Tuis, UNCHANGED <<rows, owner, left>>, HistoryType,
           history.slips \subseteq history'.slips
    PROVE  DbStep(p)
  BY DEF BaseInv, DbStep, HistoryType

LEMMA AcquireTo ==
    ASSUME BaseInv, NEW p \in Tuis, NEW s, Acquire(p, s), HistoryType,
           history.slips \subseteq history'.slips
    PROVE  /\ DbStep(p) /\ UNCHANGED rows
           /\ s \in Sessions /\ rows[s] = "kept" /\ owner'[s] = p
           /\ \A r \in Sessions : r # s => owner'[r] = owner[r]
  <1>1. s \in Sessions /\ rows[s] = "kept" /\ (owner[s] \in {None, p} \/ left[s] = 0)
    BY DEF Acquire, MayAcquire, Exist
  <1>2. TTL \in 0..TTL BY TTLAssumption
  <1>3. owner' \in [Sessions -> Tuis \cup {None}] /\ left' \in [Sessions -> 0..TTL]
    BY <1>2 DEF Acquire, BaseInv
  <1>4. \A r \in Sessions : IF r = s THEN owner'[r] = p /\ left'[r] = TTL
                            ELSE owner'[r] = owner[r] /\ left'[r] = left[r]
    BY DEF Acquire, BaseInv
  <1>5. UNCHANGED rows BY DEF Acquire
  <1>6. DbStep(p) BY <1>1, <1>3, <1>4, <1>5 DEF DbStep, BaseInv, HistoryType
  <1> QED BY <1>1, <1>4, <1>5, <1>6

LEMMA CannotAcquireTo ==
    ASSUME BaseInv, NEW p \in Tuis, NEW s, CannotAcquire(p, s)
    PROVE  DbStep(p) /\ SameSlips /\ UNCHANGED <<rows, owner, left>>
  <1>2. HistoryType /\ SameSlips BY FailsUnlessTo DEF CannotAcquire
  <1> QED BY <1>2, QuietDb DEF CannotAcquire, SameSlips

LEMMA ReleaseTo ==
    ASSUME BaseInv, NEW p \in Tuis, NEW s, Release(p, s), HistoryType,
           history.slips \subseteq history'.slips
    PROVE  /\ DbStep(p) /\ UNCHANGED rows
           /\ \A r \in Sessions : owner'[r] = IF r = s /\ owner[r] = p THEN None ELSE owner[r]
  <1>1. p # None BY NoneAssumption
  <1>2. 0 \in 0..TTL BY TTLAssumption
  <1>3. owner' \in [Sessions -> Tuis \cup {None}] /\ left' \in [Sessions -> 0..TTL]
    BY <1>2 DEF Release, BaseInv
  <1>4. \A r \in Sessions : IF r = s /\ owner[r] = p THEN owner'[r] = None /\ left'[r] = 0
                            ELSE owner'[r] = owner[r] /\ left'[r] = left[r]
    BY DEF Release, BaseInv
  <1>5. UNCHANGED rows BY DEF Release
  <1>6. DbStep(p) BY <1>3, <1>4, <1>5 DEF DbStep, BaseInv, HistoryType
  <1> QED BY <1>1, <1>4, <1>5, <1>6

LEMMA CannotReleaseTo ==
    ASSUME BaseInv, NEW p \in Tuis, CannotRelease
    PROVE  DbStep(p) /\ SameSlips /\ UNCHANGED <<rows, owner, left>>
  BY FailsTo, QuietDb DEF CannotRelease, SameSlips
-----------------------------------------------------------------------------
(* The invariant, of one TUI.                                              *)

\* Commands and messages by which History opens, forks, imports or removes a
\* session, and by which it loads one: its line, of which there is one at a time.
HKinds == {"open", "bump", "validate", "leave", "undo", "fork", "forkLease", "archive",
           "delete", "import", "opened", "openFailed", "needFork", "imported", "importFailed",
           "removed", "removeFailed"}
LKinds == {"load", "restored", "notRestored"}
ImportKinds == {"import", "imported", "importFailed"}
Leaving == {"open", "fork", "forkLease", "bump", "validate", "leave"}
Line(W) == {w \in W : w.kind \in HKinds \cup LKinds}

\* Other kinds of items that the invariant counts on.
Trying == Releasing \cup {"retry"}
Settling == LeaseCalls \cup {"lost", "released", "releaseFailed"}
Arriving == {"bound", "attached"}
Cleaning == Releasing \cup Arriving
Some(W, K, s) == \E w \in W : w.kind \in K /\ w.s = s

\* W has what the TUI's list of pending releases promises.
PendingAt(t, W) == \A s \in t.pending : Some(W, Trying, s)

\* The line Q and the fields of History that go with it.
LineAt(t, Q) ==
    /\ \A w, v \in Q : w = v
    /\ \A w \in Q :
          /\ w.kind \in HKinds => t.busy /\ (t.asks = "import" => w.kind \in ImportKinds)
          /\ w.kind \in LKinds => ~t.busy /\ t.asks = "nothing"
          /\ w.kind \in ImportKinds => t.asks = "import" /\ w.s = t.subject

OpeningAt(t, Q) == t.busy \/ t.asks # "nothing" \/ \E w \in Q : w.kind \in LKinds

\* No turn streams while History works.
TurnAt(t, Q) == /\ t.live => t.streaming
                /\ OpeningAt(t, Q) => ~t.streaming

\* The chat and its lease are of one session, of S.
Within(t, S) == {t.chat, t.leased} \subseteq S \cup {None}
ChatAt(t, slipped) == slipped \/ t.leased = None \/ t.chat \in {None, t.leased}

\* What the line leaves is the chat's session.
PriorAt(t, Q, slipped) ==
    \A w \in Q :
       /\ w.kind \in {"open", "fork", "forkLease", "bump"} => slipped \/ Within(t, w.others)
       /\ w.kind \in {"validate", "leave"} => slipped \/ Within(t, w.others \cup {w.s})
       /\ w.kind \in Leaving => \A r, q \in w.others : r = q
       /\ w.kind \in LKinds => slipped \/ Within(t, {w.s})

\* For s, p has left what its chat continues.
LeftFor(p, t, W, own, slipped, s) ==
    \A r \in {t.chat, t.leased} \ {None, s} :
        slipped \/ own[r] # p \/ Some(W, Arriving, r)
LeftAt(p, t, W, own, slipped) ==
    /\ t.asks = "import" => LeftFor(p, t, W, own, slipped, t.subject)
    /\ \A w \in Line(W) : w.kind = "opened" => LeftFor(p, t, W, own, slipped, w.s)

SwitchingAt(t, Q) ==
    t.asks = "import" \/ \E w \in Q : w.kind \in {"opened"} \cup ImportKinds

\* LeaseIsHeld, of one TUI; rw are the rows, slipped is late or gone.
HeldAt(p, t, W, own, rw, slipped) ==
    t.leased \in {s \in Sessions : rw[s] = "kept"} =>
        own[t.leased] = p \/ SwitchingAt(t, Line(W)) \/ Some(W, Settling, t.leased) \/ slipped

\* NoLeaseLeftBehind, of one TUI.
TakesItem(w, s) ==
    \/ w.s = s /\ w.kind \in {"bump", "validate", "leave", "undo", "opened"} \cup ImportKinds
    \/ s \in w.others /\ w.kind \in {"undo", "openFailed", "needFork"}
BehindAt(p, t, W, own, slipped) ==
    \A s \in Sessions : own[s] = p =>
        \/ s \in {t.chat, t.leased} \cup t.pending
        \/ t.asks = "import" /\ t.subject = s
        \/ Some(W, Cleaning, s)
        \/ \E w \in Line(W) : TakesItem(w, s)
        \/ slipped

\* What a user who waits for History may count on.
CalmAt(p, t, W, rw, own, slips) ==
    /\ LineAt(t, Line(W))
    /\ TurnAt(t, Line(W))
    /\ ChatAt(t, <<p, "left">> \in slips)
    /\ PriorAt(t, Line(W), <<p, "left">> \in slips)
    /\ LeftAt(p, t, W, own, <<p, "left">> \in slips)
    /\ HeldAt(p, t, W, own, rw, <<p, "late">> \in slips \/ <<p, "gone">> \in slips)
    /\ BehindAt(p, t, W, own, <<p, "left">> \in slips)

IInv ==
    /\ BaseInv
    /\ ExpiryInv
    /\ \A p \in Tuis : PendingAt(tui[p], work[p])
    /\ \A p \in Tuis \ Hasty : CalmAt(p, tui[p], work[p], rows, owner, history.slips)
-----------------------------------------------------------------------------
(* Items that come and go.                                                 *)

\* A bump changes nothing but the flag of a release.
Same(v, u) == v = u \/ /\ u.kind \in {"release", "compare"}
                       /\ v.kind = u.kind /\ v.s = u.s /\ v.others = u.others

\* Of the items W those of G are over, and those of N begin.
Moves(W, V, G, N) ==
    /\ \A u \in W \ G : \E v \in V : Same(v, u)
    /\ \A v \in V \ N : \E u \in W \ G : Same(v, u)
    /\ N \subseteq V

LEMMA ContinueMoves ==
    ASSUME BaseInv, NEW p \in Tuis, NEW w, NEW N, Continue(p, w, N)
    PROVE  /\ work' = [work EXCEPT ![p] = work'[p]] /\ work'[p] = (work[p] \ {w}) \cup N
           /\ Moves(work[p], work'[p], {w}, N)
  <1>1. work' = [work EXCEPT ![p] = work'[p]] /\ work'[p] = (work[p] \ {w}) \cup N
    BY DEF BaseInv, Continue
  <1> QED BY <1>1 DEF Moves, Same

LEMMA AddMoves ==
    ASSUME BaseInv, NEW p \in Tuis, NEW N, work' = [work EXCEPT ![p] = @ \cup N]
    PROVE  /\ work' = [work EXCEPT ![p] = work'[p]] /\ work'[p] = work[p] \cup N
           /\ Moves(work[p], work'[p], {}, N)
  <1>1. work' = [work EXCEPT ![p] = work'[p]] /\ work'[p] = work[p] \cup N
    BY DEF BaseInv
  <1> QED BY <1>1 DEF Moves, Same

LEMMA BumpMoves ==
    ASSUME NEW S, NEW W \in SUBSET ItemOf(S), NEW G, NEW N, NEW s
    PROVE  Moves(W, Bumped(W \ G, s) \cup N, G, N)
  <1> DEFINE f(u) == IF u.kind \in {"release", "compare"} /\ u.s = s
                     THEN [u EXCEPT !.flag = TRUE] ELSE u
  <1>1. Bumped(W \ G, s) = {f(u) : u \in W \ G} BY DEF Bumped
  <1>2. ASSUME NEW u \in W PROVE Same(f(u), u)
    BY DEF Same, ItemOf
  <1> HIDE DEF f
  <1> QED BY <1>1, <1>2 DEF Moves

LEMMA MovesLine ==
    ASSUME NEW W, NEW V, NEW G, NEW N, Moves(W, V, G, N)
    PROVE  Line(V) = (Line(W) \ G) \cup Line(N)
  <1>1. \A v, u : (Same(v, u) /\ v.kind \in HKinds \cup LKinds) => v = u
    BY DEF Same, HKinds, LKinds
  <1>2. \A v, u : (Same(v, u) /\ u.kind \in HKinds \cup LKinds) => v = u
    BY DEF Same, HKinds, LKinds
  <1> QED BY <1>1, <1>2 DEF Line, Moves

LEMMA MovesSome ==
    ASSUME NEW W, NEW V, NEW G, NEW N, Moves(W, V, G, N), NEW K, NEW s
    PROVE  /\ Some(W, K, s) => Some(V, K, s) \/ Some(G, K, s)
           /\ Some(N, K, s) => Some(V, K, s)
           /\ Some(V, K, s) => Some(W, K, s) \/ Some(N, K, s)
  <1>1. \A v, u : Same(v, u) => v.kind = u.kind /\ v.s = u.s
    BY DEF Same
  <1> QED BY <1>1 DEF Some, Moves
-----------------------------------------------------------------------------
(* Steps that leave the line of p alone.                                   *)

NoLine(S) == \A w \in S : w.kind \notin HKinds \cup LKinds
LeftNow(p) == <<p, "left">> \in history'.slips
GoneNow(p) == <<p, "late">> \in history'.slips \/ <<p, "gone">> \in history'.slips
Opens(p) == OpeningAt(tui[p], Line(work[p]))
Counts(t) == {t.chat, t.leased} \cup t.pending

\* p's lease on s is no more or less accounted for than it was.
AccountStep(p, G) ==
    \A s \in Sessions : owner'[s] = p =>
        \/ LeftNow(p)
        \/ s \in Counts(tui'[p])
        \/ Some(work'[p], Cleaning, s)
        \/ owner[s] = p /\ ~Some(G, Cleaning, s) /\ s \notin Counts(tui[p])

\* What p believes of its lease is as true as it was.
BeliefStep(p, G) ==
    LET s == tui'[p].leased
    IN (s \in Sessions /\ rows'[s] = "kept") =>
        \/ Some(work'[p], Settling, s)
        \/ owner'[s] = p
        \/ GoneNow(p)
        \/ /\ s = tui[p].leased /\ rows[s] = "kept" /\ ~Some(G, Settling, s)
           /\ owner[s] = p => owner'[s] = p

\* While History works, the chat gets no other session.
ChatStep(p, G) ==
    /\ ChatAt(tui'[p], LeftNow(p))
    /\ \/ LeftNow(p)
       \/ ~Opens(p)
       \/ /\ {tui'[p].chat, tui'[p].leased} \subseteq {tui[p].chat, tui[p].leased, None}
          /\ \A s \in Sessions : Some(G, Arriving, s) => Some(work'[p], Arriving, s)
    /\ \A s \in Sessions : owner'[s] = p =>
          owner[s] = p \/ Some(work'[p], Arriving, s) \/ LeftNow(p)

\* The fields of History stay, and no turn begins while it works.
FieldStep(p) ==
    /\ tui'[p].busy = tui[p].busy /\ tui'[p].asks = tui[p].asks
    /\ tui'[p].subject = tui[p].subject
    /\ tui'[p].streaming => tui[p].streaming \/ ~Opens(p)
    /\ tui'[p].live => tui'[p].streaming

AsideStep(p, G, N) ==
    /\ Moves(work[p], work'[p], G, N) /\ NoLine(G) /\ NoLine(N)
    /\ history.slips \subseteq history'.slips
    /\ FieldStep(p) /\ ChatStep(p, G) /\ BeliefStep(p, G) /\ AccountStep(p, G)

\* CalmAt of a TUI before and after a step.
Calm(p) == CalmAt(p, tui[p], work[p], rows, owner, history.slips)
CalmNow(p) == CalmAt(p, tui'[p], work'[p], rows', owner', history'.slips)

LEMMA AsideKeepsCalm ==
    ASSUME BaseInv, BaseInv', NEW p \in Tuis, Calm(p), NEW G, NEW N, AsideStep(p, G, N)
    PROVE  CalmNow(p)
  <1> DEFINE Q == Line(work[p])
             t == tui[p]
             u == tui'[p]
  <1>1. Line(work'[p]) = Q
    <2>1. Line(work'[p]) = (Q \ G) \cup Line(N) BY MovesLine DEF AsideStep
    <2> QED BY <2>1 DEF AsideStep, NoLine, Line
  <1>2. <<p, "left">> \in history.slips => LeftNow(p)
    BY DEF AsideStep, LeftNow
  <1>3. <<p, "late">> \in history.slips \/ <<p, "gone">> \in history.slips => GoneNow(p)
    BY DEF AsideStep, GoneNow
  <1>4. t \in TuiOf(Sessions) /\ u \in TuiOf(Sessions)
    <2>1. t \in TuiOf(Met) /\ u \in TuiOf(Met') BY DEF BaseInv
    <2>2. Met \subseteq Sessions /\ Met' \subseteq Sessions BY DEF Met
    <2> QED BY <2>1, <2>2, Larger
  <1>5. FieldStep(p) /\ ChatStep(p, G) /\ BeliefStep(p, G) /\ AccountStep(p, G)
    BY DEF AsideStep
  <1>6. LineAt(t, Q) /\ TurnAt(t, Q) /\ PriorAt(t, Q, <<p, "left">> \in history.slips)
    BY DEF Calm, CalmAt
  <1>7. LineAt(u, Q)
    BY <1>5, <1>6 DEF LineAt, FieldStep
  <1>8. TurnAt(u, Q)
    BY <1>5, <1>6 DEF TurnAt, OpeningAt, FieldStep, Opens
  <1>9. Q # {} => Opens(p)
    BY <1>6 DEF LineAt, Opens, OpeningAt, Line
  <1>10. ASSUME NEW S, Within(t, S), Q # {} PROVE LeftNow(p) \/ Within(u, S)
    BY <1>5, <1>9, <1>10 DEF ChatStep, Within
  <1>11. PriorAt(u, Q, LeftNow(p))
    BY <1>2, <1>6, <1>10 DEF PriorAt
  <1>12. ASSUME NEW s, LeftFor(p, t, work[p], owner, <<p, "left">> \in history.slips, s), Opens(p)
         PROVE  LeftFor(p, u, work'[p], owner', LeftNow(p), s)
    <2> SUFFICES ASSUME NEW r \in {u.chat, u.leased} \ {None, s}, ~LeftNow(p), owner'[r] = p
                 PROVE  Some(work'[p], Arriving, r)
      BY DEF LeftFor
    <2>1. r \in {t.chat, t.leased} BY <1>5, <1>12 DEF ChatStep
    <2>2. r \in Sessions BY <1>4 DEF TuiOf
    <2>3. owner[r] # p \/ Some(work[p], Arriving, r) BY <1>2, <1>12, <2>1 DEF LeftFor
    <2>4. CASE owner[r] # p BY <1>5, <2>2, <2>4 DEF ChatStep
    <2>5. CASE Some(work[p], Arriving, r)
      <3>1. Some(work'[p], Arriving, r) \/ Some(G, Arriving, r)
        BY <2>5, MovesSome DEF AsideStep
      <3> QED BY <1>5, <1>12, <2>2, <3>1 DEF ChatStep
    <2> QED BY <2>3, <2>4, <2>5
  <1>13. LeftAt(p, u, work'[p], owner', LeftNow(p))
    <2>1. LeftAt(p, t, work[p], owner, <<p, "left">> \in history.slips) BY DEF Calm, CalmAt
    <2>2. u.asks = "import" => LeftFor(p, u, work'[p], owner', LeftNow(p), u.subject)
      BY <1>5, <1>12, <2>1 DEF LeftAt, FieldStep, Opens, OpeningAt
    <2>3. ASSUME NEW w \in Line(work'[p]), w.kind = "opened"
          PROVE  LeftFor(p, u, work'[p], owner', LeftNow(p), w.s)
      BY <1>1, <1>9, <1>12, <2>1, <2>3 DEF LeftAt
    <2> QED BY <2>2, <2>3 DEF LeftAt
  <1>14. HeldAt(p, u, work'[p], owner', rows', GoneNow(p))
    <2>1. HeldAt(p, t, work[p], owner, rows, <<p, "late">> \in history.slips \/ <<p, "gone">> \in history.slips)
      BY DEF Calm, CalmAt
    <2>2. SwitchingAt(t, Q) <=> SwitchingAt(u, Line(work'[p]))
      BY <1>1, <1>5 DEF SwitchingAt, FieldStep
    <2>3. ASSUME Some(work[p], Settling, u.leased) 
          PROVE  Some(work'[p], Settling, u.leased) \/ Some(G, Settling, u.leased)
      BY <2>3, MovesSome DEF AsideStep
    <2> QED BY <1>3, <1>5, <2>1, <2>2, <2>3 DEF HeldAt, BeliefStep
  <1>15. BehindAt(p, u, work'[p], owner', LeftNow(p))
    <2> SUFFICES ASSUME NEW s \in Sessions, owner'[s] = p, ~LeftNow(p), s \notin Counts(u),
                        ~Some(work'[p], Cleaning, s)
                 PROVE  \/ u.asks = "import" /\ u.subject = s
                        \/ \E w \in Line(work'[p]) : TakesItem(w, s)
      BY DEF BehindAt, Counts
    <2>1. owner[s] = p /\ ~Some(G, Cleaning, s) /\ s \notin Counts(t)
      BY <1>5 DEF AccountStep
    <2>2. ~Some(work[p], Cleaning, s)
      BY <2>1, MovesSome DEF AsideStep
    <2>3. BehindAt(p, t, work[p], owner, <<p, "left">> \in history.slips) BY DEF Calm, CalmAt
    <2> QED BY <1>1, <1>2, <1>5, <2>1, <2>2, <2>3 DEF BehindAt, FieldStep, Counts
  <1> QED BY <1>1, <1>5, <1>7, <1>8, <1>11, <1>13, <1>14, <1>15 DEF CalmNow, CalmAt, ChatStep, LeftNow, GoneNow

\* A step of another TUI, or of the clock, is one that leaves p alone.
LEMMA OthersAreAside ==
    ASSUME BaseInv, ExpiryInv, NEW p \in Tuis, Calm(p), NEW q \in Tuis \ {p}, DbStep(q),
           tui'[p] = tui[p], work'[p] = work[p]
    PROVE  AsideStep(p, {}, {})
  <1>1. \A G, K, s : Some({}, K, s) = FALSE
    BY DEF Some
  <1>2. history.slips \subseteq history'.slips /\ p # q /\ p # None
    BY NoneAssumption DEF DbStep
  <1>3. \A s \in Sessions : owner'[s] = p => owner[s] = p
    BY <1>2 DEF DbStep
  <1>4. Moves(work[p], work'[p], {}, {}) /\ NoLine({})
    BY DEF Moves, Same, NoLine
  <1>5. FieldStep(p)
    BY DEF FieldStep, Calm, CalmAt, TurnAt
  <1>6. ChatStep(p, {})
    <2>1. ChatAt(tui'[p], LeftNow(p))
      BY <1>2 DEF Calm, CalmAt, ChatAt, LeftNow
    <2> QED BY <1>1, <1>3, <2>1 DEF ChatStep
  <1>7. BeliefStep(p, {})
    <2> SUFFICES ASSUME NEW s, s = tui[p].leased, s \in Sessions, rows'[s] = "kept", ~GoneNow(p),
                        owner[s] = p
                 PROVE  rows[s] = "kept" /\ owner'[s] = p
      <3>1. ASSUME NEW s, s = tui[p].leased, s \in Sessions, rows'[s] = "kept"
            PROVE  rows[s] = "kept"
        <4>1. s \in Met \cup {None} BY <3>1 DEF BaseInv, TuiOf
        <4>2. rows[s] # "new" BY <3>1, <4>1, NoneAssumption DEF Met
        <4> QED BY <3>1, <4>2 DEF DbStep
      <3> QED BY <1>1, <3>1 DEF BeliefStep
    <2>1. s \in Met \cup {None} BY DEF BaseInv, TuiOf
    <2>2. rows[s] # "new" BY <2>1, NoneAssumption DEF Met
    <2>3. rows[s] = "kept" BY <2>2 DEF DbStep
    <2>4. left[s] # 0 BY <1>2 DEF ExpiryInv, Has, GoneNow
    <2>5. owner'[s] = p BY <1>2, <2>4 DEF DbStep
    <2> QED BY <2>3, <2>5
  <1>8. AccountStep(p, {})
    BY <1>1, <1>3 DEF AccountStep
  <1> QED BY <1>2, <1>4, <1>5, <1>6, <1>7, <1>8 DEF AsideStep
-----------------------------------------------------------------------------
(* Steps of one TUI.                                                       *)

\* A step of p: its own fields and items, and the database, change.
StepOf(p) ==
    /\ DbStep(p)
    /\ tui' = [tui EXCEPT ![p] = tui'[p]] /\ work' = [work EXCEPT ![p] = work'[p]]
    /\ tui'[p] \in TuiOf(Met') /\ work'[p] \in SUBSET ItemOf(Met')

\* One that keeps the invariant of p.
Good(p) ==
    /\ StepOf(p)
    /\ PendingAt(tui'[p], work'[p])
    /\ p \notin Hasty => CalmNow(p)

LEMMA MetGrows ==
    ASSUME NEW p \in Tuis, DbStep(p)
    PROVE  /\ Met \subseteq Met' /\ Met' \subseteq Sessions
           /\ TuiOf(Met) \subseteq TuiOf(Met') /\ ItemOf(Met) \subseteq ItemOf(Met')
           /\ \A s \in Sessions : (rows'[s] = "kept" /\ s \in Met) => rows[s] = "kept"
  <1>1. Met \subseteq Met' /\ Met' \subseteq Sessions BY DEF Met, DbStep
  <1>2. \A s \in Sessions : (rows'[s] = "kept" /\ s \in Met) => rows[s] = "kept" BY DEF Met, DbStep
  <1> QED BY <1>1, <1>2, Larger

LEMMA StepBase ==
    ASSUME BaseInv, NEW p \in Tuis, StepOf(p)
    PROVE  BaseInv'
  <1>1. TuiOf(Met) \subseteq TuiOf(Met') /\ ItemOf(Met) \subseteq ItemOf(Met')
    BY MetGrows DEF StepOf
  <1>2. tui' \in [Tuis -> TuiOf(Met')]
    BY <1>1 DEF BaseInv, StepOf
  <1>3. work' \in [Tuis -> SUBSET ItemOf(Met')]
    <2>1. work \in [Tuis -> SUBSET ItemOf(Met')] BY <1>1 DEF BaseInv
    <2> QED BY <2>1 DEF StepOf
  <1> QED BY <1>2, <1>3 DEF BaseInv, StepOf, DbStep

LEMMA StepExpiry ==
    ASSUME BaseInv, ExpiryInv, NEW p \in Tuis, StepOf(p)
    PROVE  ExpiryInv'
  <1>1. TTL # 0 /\ p # None BY TTLAssumption, NoneAssumption
  <1>2. DbStep(p) BY DEF StepOf
  <1> SUFFICES ASSUME NEW s \in Sessions
               PROVE  /\ left'[s] > 0 => owner'[s] \in Tuis
                      /\ (owner'[s] # None /\ left'[s] = 0) => <<owner'[s], "late">> \in history'.slips
    BY DEF ExpiryInv, Has
  <1>3. \/ owner'[s] = owner[s] /\ left'[s] = left[s]
        \/ owner'[s] = p /\ left'[s] = TTL
        \/ owner'[s] = None /\ left'[s] = 0
    BY <1>2 DEF DbStep
  <1>4. history.slips \subseteq history'.slips BY <1>2 DEF DbStep
  <1> QED BY <1>1, <1>3, <1>4 DEF ExpiryInv, Has

LEMMA GoodKeeps ==
    ASSUME IInv, NEW p \in Tuis, Good(p)
    PROVE  IInv'
  <1>1. BaseInv' /\ ExpiryInv' BY StepBase, StepExpiry DEF IInv, Good
  <1>2. \A q \in Tuis \ {p} : tui'[q] = tui[q] /\ work'[q] = work[q]
    BY DEF Good, StepOf, IInv, BaseInv
  <1>3. ASSUME NEW q \in Tuis PROVE PendingAt(tui'[q], work'[q])
    BY <1>2 DEF IInv, Good
  <1>4. ASSUME NEW q \in Tuis \ Hasty PROVE CalmNow(q)
    <2>1. CASE q = p BY <2>1, <1>4 DEF Good
    <2>2. CASE q # p
      <3>1. Calm(q) BY <1>4 DEF IInv, Calm
      <3>2. AsideStep(q, {}, {}) BY <1>2, <2>2, <3>1, OthersAreAside DEF IInv, Good, StepOf
      <3> QED BY <1>1, <3>1, <3>2, AsideKeepsCalm DEF IInv
    <2> QED BY <2>1, <2>2
  <1> QED BY <1>1, <1>3, <1>4 DEF IInv, CalmNow

\* A database call or message that item w ends with, and the items that follow.
LEMMA CallOf ==
    ASSUME BaseInv, NEW p \in Tuis, NEW w, NEW N, Continue(p, w, N),
           N \in SUBSET ItemOf(Met'), DbStep(p), UNCHANGED tui
    PROVE  StepOf(p) /\ tui'[p] = tui[p]
  <1>1. TuiOf(Met) \subseteq TuiOf(Met') /\ ItemOf(Met) \subseteq ItemOf(Met')
    BY MetGrows
  <1>2. work' = [work EXCEPT ![p] = work'[p]] /\ work'[p] = (work[p] \ {w}) \cup N
    BY ContinueMoves
  <1>3. work[p] \in SUBSET ItemOf(Met) /\ tui[p] \in TuiOf(Met) /\ tui = [tui EXCEPT ![p] = tui[p]]
    BY DEF BaseInv
  <1> QED BY <1>1, <1>2, <1>3 DEF StepOf

LEMMA MessageOf ==
    ASSUME BaseInv, NEW p \in Tuis, NEW w, NEW N, Continue(p, w, N),
           N \in SUBSET ItemOf(Met), NEW t \in TuiOf(Met), tui' = [tui EXCEPT ![p] = t],
           UNCHANGED <<rows, owner, left>>, HistoryType, history.slips \subseteq history'.slips
    PROVE  StepOf(p) /\ tui'[p] = t /\ Met' = Met
  <1>1. DbStep(p) /\ Met' = Met BY QuietDb DEF Met
  <1>2. work' = [work EXCEPT ![p] = work'[p]] /\ work'[p] = (work[p] \ {w}) \cup N
    BY ContinueMoves
  <1>3. work[p] \in SUBSET ItemOf(Met) /\ tui'[p] = t
    BY DEF BaseInv
  <1> QED BY <1>1, <1>2, <1>3 DEF StepOf

LEMMA CommandOf ==
    ASSUME BaseInv, NEW p \in Tuis, NEW N, work' = [work EXCEPT ![p] = @ \cup N],
           N \in SUBSET ItemOf(Met), NEW t \in TuiOf(Met), tui' = [tui EXCEPT ![p] = t],
           UNCHANGED <<rows, owner, left>>, HistoryType, history.slips \subseteq history'.slips
    PROVE  StepOf(p) /\ tui'[p] = t /\ Met' = Met
  <1>1. DbStep(p) /\ Met' = Met BY QuietDb DEF Met
  <1>2. work' = [work EXCEPT ![p] = work'[p]] /\ work'[p] = work[p] \cup N
    BY AddMoves
  <1>3. work[p] \in SUBSET ItemOf(Met) /\ tui'[p] = t
    BY DEF BaseInv
  <1> QED BY <1>1, <1>2, <1>3 DEF StepOf
-----------------------------------------------------------------------------
(* Database calls beside the line.                                         *)

LEMMA Single ==
    /\ \A n, K, s : Some({n}, K, s) <=> (n.kind \in K /\ n.s = s)
    /\ \A k, s, o : Of(k, s, o).kind = k /\ Of(k, s, o).s = s /\ Of(k, s, o).others = o
    /\ \A k, s : To(k, s).kind = k /\ To(k, s).s = s /\ To(k, s).others = {}
    /\ \A S, k : \A w \in ItemOf(S) : /\ Becomes(w, k).kind = k /\ Becomes(w, k).s = w.s
                                     /\ Becomes(w, k).others = w.others
    /\ \A K, s : Some({}, K, s) = FALSE
  BY DEF Some, Of, To, Becomes, ItemOf

\* A call of p beside its line keeps the invariant if what its item tried, was to
\* settle or to clean is still tried, settled and cleaned, a lease it takes
\* arrives, and one it gives up is being settled.
LEMMA CallGood ==
    ASSUME IInv, NEW p \in Tuis, NEW w \in work[p], NEW N,
           Continue(p, w, N), N \in SUBSET ItemOf(Met'), DbStep(p), UNCHANGED tui,
           w.kind \notin HKinds \cup LKinds \cup Arriving, NoLine(N),
           w.kind \in Trying => Some(N, Trying, w.s),
           w.kind \in Settling => Some(N, Settling, w.s) \/ owner'[w.s] = p,
           w.kind \in Cleaning => Some(N, Cleaning, w.s) \/ owner'[w.s] # p \/ LeftNow(p),
           \A s \in Sessions : owner'[s] = p =>
              owner[s] = p \/ Some(N, Arriving, s) \/ LeftNow(p),
           \A s \in Sessions : (owner[s] = p /\ owner'[s] # p) => Some(N, Settling, s)
    PROVE  Good(p)
  <1>1. StepOf(p) /\ tui'[p] = tui[p] BY CallOf DEF IInv
  <1>2. Moves(work[p], work'[p], {w}, N) BY ContinueMoves DEF IInv
  <1>3. ASSUME NEW K, NEW s
        PROVE  /\ Some({w}, K, s) <=> (w.kind \in K /\ w.s = s)
               /\ Some(N, K, s) => Some(work'[p], K, s)
               /\ Some(work[p], K, s) => Some(work'[p], K, s) \/ Some({w}, K, s)
    <2>1. Some({w}, K, s) <=> (w.kind \in K /\ w.s = s) BY DEF Some
    <2>2. /\ Some(N, K, s) => Some(work'[p], K, s)
          /\ Some(work[p], K, s) => Some(work'[p], K, s) \/ Some({w}, K, s)
      BY <1>2, MovesSome
    <2> QED BY <2>1, <2>2
  <1>4. PendingAt(tui'[p], work'[p])
    <2>1. PendingAt(tui[p], work[p]) BY DEF IInv
    <2> QED BY <1>1, <1>3, <2>1 DEF PendingAt
  <1>5. ASSUME p \notin Hasty PROVE CalmNow(p)
    <2>1. Calm(p) BY <1>5 DEF IInv, Calm
    <2>2. history.slips \subseteq history'.slips BY DEF DbStep
    <2>3. FieldStep(p) BY <1>1, <2>1 DEF FieldStep, Calm, CalmAt, TurnAt
    <2>4. ChatStep(p, {w})
      <3>1. ChatAt(tui'[p], LeftNow(p)) BY <1>1, <2>1, <2>2 DEF Calm, CalmAt, ChatAt, LeftNow
      <3>2. \A s : ~Some({w}, Arriving, s) BY <1>3
      <3> QED BY <1>1, <1>3, <3>1, <3>2 DEF ChatStep
    <2>5. BeliefStep(p, {w})
      <3>1. \A s \in Sessions : (s = tui[p].leased /\ rows'[s] = "kept") => rows[s] = "kept"
        <4>1. tui[p].leased \in Met \cup {None} BY DEF IInv, BaseInv, TuiOf
        <4> QED BY <4>1, MetGrows, NoneAssumption
      <3> QED BY <1>1, <1>3, <3>1 DEF BeliefStep
    <2>6. AccountStep(p, {w})
      <3>1. \A s : Some(N, Arriving, s) => Some(N, Cleaning, s) BY DEF Some, Cleaning
      <3> QED BY <1>1, <1>3, <3>1 DEF AccountStep
    <2>7. NoLine({w}) BY DEF NoLine
    <2>8. AsideStep(p, {w}, N) BY <1>2, <2>2, <2>3, <2>4, <2>5, <2>6, <2>7 DEF AsideStep
    <2> QED BY <1>1, <2>1, <2>8, AsideKeepsCalm, StepBase DEF IInv
  <1> QED BY <1>1, <1>4, <1>5 DEF Good

\* The call of item w that goes on as item n.
LEMMA CallGoodOne ==
    ASSUME IInv, NEW p \in Tuis, NEW w \in work[p], NEW n \in ItemOf(Met'),
           Continue(p, w, {n}), DbStep(p), UNCHANGED tui,
           w.kind \notin HKinds \cup LKinds \cup Arriving, n.kind \notin HKinds \cup LKinds,
           w.kind \in Trying => n.kind \in Trying /\ n.s = w.s,
           w.kind \in Settling => (n.kind \in Settling /\ n.s = w.s) \/ owner'[w.s] = p,
           w.kind \in Cleaning =>
              (n.kind \in Cleaning /\ n.s = w.s) \/ owner'[w.s] # p \/ LeftNow(p),
           \A s \in Sessions : owner'[s] = p =>
              owner[s] = p \/ (n.kind \in Arriving /\ n.s = s) \/ LeftNow(p),
           \A s \in Sessions : (owner[s] = p /\ owner'[s] # p) => n.kind \in Settling /\ n.s = s
    PROVE  Good(p)
  <1> DEFINE N == {n}
  <1>1. \A K, s : Some(N, K, s) <=> (n.kind \in K /\ n.s = s) BY DEF Some
  <1>2. N \in SUBSET ItemOf(Met') /\ NoLine(N) BY DEF NoLine
  <1>3. Continue(p, w, N) OBVIOUS
  <1> HIDE DEF N
  <1> QED BY <1>1, <1>2, <1>3, CallGood

LEMMA ItemKind ==
    ASSUME BaseInv, NEW p \in Tuis, NEW w \in work[p]
    PROVE  /\ w \in ItemOf(Met) /\ w.s \in Met \cup {None} /\ w.others \subseteq Met
           /\ w.kind \notin Nameless => w.s \in Met
  BY DEF BaseInv, ItemOf

LEMMA BeatGood ==
    ASSUME IInv, NEW p \in Tuis, NEW w \in work[p], Beat(p, w)
    PROVE  Good(p)
  <1>1. BaseInv /\ w \in ItemOf(Met) /\ w.s \in Met BY ItemKind DEF IInv, Nameless, Beat
  <1>2. w.kind = "beat" /\ UNCHANGED tui BY DEF Beat
  <1>3. CASE owner[w.s] = p /\ left' = [left EXCEPT ![w.s] = TTL]
             /\ Continue(p, w, {}) /\ UNCHANGED <<rows, owner, history>>
    <2>1. TTL \in 0..TTL BY TTLAssumption
    <2>2. DbStep(p) BY <1>1, <1>3, <2>1 DEF DbStep, BaseInv
    <2> DEFINE N == {}
    <2>3. Continue(p, w, N) BY <1>3
    <2>4. N \in SUBSET ItemOf(Met') /\ NoLine(N) BY DEF NoLine
    <2>5. w.kind \notin HKinds \cup LKinds \cup Arriving /\ w.kind \notin Trying \cup Cleaning
      BY <1>2 DEF HKinds, LKinds, Arriving, Trying, Cleaning, Releasing
    <2>6. owner' = owner BY <1>3
    <2> HIDE DEF N
    <2> QED BY <1>2, <1>3, <2>2, <2>3, <2>4, <2>5, <2>6, CallGood
  <1>4. CASE FailsUnless(owner[w.s] # p) /\ Continue(p, w, {To("lost", w.s)})
             /\ UNCHANGED <<rows, owner, left>>
    <2>1. HistoryType /\ SameSlips BY <1>1, <1>4, FailsUnlessTo
    <2>2. DbStep(p) /\ Met' = Met BY <1>1, <1>4, <2>1, QuietDb DEF SameSlips, Met
    <2> DEFINE n == To("lost", w.s)
    <2>3. n \in ItemOf(Met') BY <1>1, <2>2, Items DEF Kinds, Messages
    <2>4. n.kind = "lost" /\ n.s = w.s BY Single
    <2>5. Continue(p, w, {n}) BY <1>4
    <2> HIDE DEF n
    <2> QED BY <1>2, <1>4, <2>2, <2>3, <2>4, <2>5, CallGoodOne
            DEF HKinds, LKinds, Arriving, Trying, Cleaning, Releasing, Settling, LeaseCalls
  <1> QED BY <1>3, <1>4 DEF Beat

LEMMA ReleaseLeaseGood ==
    ASSUME IInv, NEW p \in Tuis, NEW w \in work[p], ReleaseLease(p, w)
    PROVE  Good(p)
  <1>1. BaseInv /\ w \in ItemOf(Met) /\ w.s \in Met BY ItemKind DEF IInv, Nameless, ReleaseLease
  <1>2. w.kind = "release" /\ UNCHANGED tui BY DEF ReleaseLease
  <1>3. CASE Release(p, w.s) /\ Continue(p, w, {Becomes(w, "compare")})
             /\ IF \E v \in work[p] : v.kind = "bump" /\ v.s = w.s
                THEN Slip(p, "gone") ELSE UNCHANGED history
    <2>1. HistoryType /\ history.slips \subseteq history'.slips
      BY <1>1, <1>3, SlipTo, KeptTo DEF Slipped, SameSlips
    <2>2. /\ DbStep(p) /\ UNCHANGED rows
          /\ \A r \in Sessions : owner'[r] = IF r = w.s /\ owner[r] = p THEN None ELSE owner[r]
      BY <1>1, <1>3, <2>1, ReleaseTo
    <2> DEFINE n == Becomes(w, "compare")
    <2>3. n \in ItemOf(Met') BY <1>1, <2>2, Items DEF Kinds, LeaseCalls, Met
    <2>4. n.kind = "compare" /\ n.s = w.s BY <1>1, Single
    <2>5. Continue(p, w, {n}) BY <1>3
    <2> HIDE DEF n
    <2> QED BY <1>2, <2>2, <2>3, <2>4, <2>5, CallGoodOne, NoneAssumption
            DEF HKinds, LKinds, Arriving, Trying, Cleaning, Releasing, Settling, LeaseCalls
  <1>4. CASE CannotRelease /\ Continue(p, w, {To("releaseFailed", w.s)})
    <2>1. DbStep(p) /\ Met' = Met /\ owner' = owner BY <1>1, <1>4, CannotReleaseTo DEF Met
    <2> DEFINE n == To("releaseFailed", w.s)
    <2>2. n \in ItemOf(Met') BY <1>1, <2>1, Items DEF Kinds, Messages
    <2>3. n.kind = "releaseFailed" /\ n.s = w.s BY Single
    <2>4. Continue(p, w, {n}) BY <1>4
    <2> HIDE DEF n
    <2> QED BY <1>2, <2>1, <2>2, <2>3, <2>4, CallGoodOne
            DEF HKinds, LKinds, Arriving, Trying, Cleaning, Releasing, Settling, LeaseCalls
  <1> QED BY <1>3, <1>4 DEF ReleaseLease

LEMMA CompareEpochsGood ==
    ASSUME IInv, NEW p \in Tuis, NEW w \in work[p], CompareEpochs(p, w)
    PROVE  Good(p)
  <1>1. BaseInv /\ w \in ItemOf(Met) /\ w.s \in Met BY ItemKind DEF IInv, Nameless, CompareEpochs
  <1>2. w.kind = "compare" /\ UNCHANGED tui /\ UNCHANGED database BY DEF CompareEpochs
  <1>3. DbStep(p) /\ Met' = Met /\ owner' = owner
    BY <1>1, <1>2, KeptTo, QuietDb DEF Met, database, SameSlips
  <1> DEFINE n == To(IF w.flag THEN "reacquire" ELSE "released", w.s)
  <1>4. n \in ItemOf(Met') BY <1>1, <1>3, Items DEF Kinds, Messages, LeaseCalls
  <1>5. n.kind \in {"reacquire", "released"} /\ n.s = w.s BY Single
  <1>6. Continue(p, w, {n}) BY DEF CompareEpochs
  <1> HIDE DEF n
  <1> QED BY <1>2, <1>3, <1>4, <1>5, <1>6, CallGoodOne
          DEF HKinds, LKinds, Arriving, Trying, Cleaning, Releasing, Settling, LeaseCalls

\* A lease that is taken back has slipped, unless it was there.
LEMMA TakesBackTo ==
    ASSUME BaseInv, NEW p \in Tuis, NEW s, TakesBack(p, s)
    PROVE  /\ HistoryType /\ history.slips \subseteq history'.slips
           /\ owner[s] = p \/ LeftNow(p)
  BY SlipTo, KeptTo DEF TakesBack, Slipped, SameSlips, LeftNow

LEMMA ReacquireGood ==
    ASSUME IInv, NEW p \in Tuis, NEW w \in work[p], Reacquire(p, w)
    PROVE  Good(p)
  <1>1. BaseInv /\ w \in ItemOf(Met) /\ w.s \in Met BY ItemKind DEF IInv, Nameless, Reacquire
  <1>2. w.kind = "reacquire" /\ UNCHANGED tui BY DEF Reacquire
  <1>3. CASE Acquire(p, w.s) /\ Continue(p, w, {To("released", w.s)}) /\ TakesBack(p, w.s)
    <2>1. /\ HistoryType /\ history.slips \subseteq history'.slips
          /\ owner[w.s] = p \/ LeftNow(p)
      BY <1>1, <1>3, TakesBackTo
    <2>2. /\ DbStep(p) /\ UNCHANGED rows /\ owner'[w.s] = p
          /\ \A r \in Sessions : r # w.s => owner'[r] = owner[r]
      BY <1>1, <1>3, <2>1, AcquireTo
    <2> DEFINE n == To("released", w.s)
    <2>3. n \in ItemOf(Met') BY <1>1, <2>2, Items DEF Kinds, Messages, Met
    <2>4. n.kind = "released" /\ n.s = w.s BY Single
    <2>5. Continue(p, w, {n}) BY <1>3
    <2> HIDE DEF n
    <2> QED BY <1>2, <2>1, <2>2, <2>3, <2>4, <2>5, CallGoodOne
            DEF HKinds, LKinds, Arriving, Trying, Cleaning, Releasing, Settling, LeaseCalls
  <1>4. CASE CannotAcquire(p, w.s) /\ Continue(p, w, {To("releaseFailed", w.s)})
    <2>1. DbStep(p) /\ Met' = Met /\ owner' = owner BY <1>1, <1>4, CannotAcquireTo DEF Met
    <2> DEFINE n == To("releaseFailed", w.s)
    <2>2. n \in ItemOf(Met') BY <1>1, <2>1, Items DEF Kinds, Messages
    <2>3. n.kind = "releaseFailed" /\ n.s = w.s BY Single
    <2>4. Continue(p, w, {n}) BY <1>4
    <2> HIDE DEF n
    <2> QED BY <1>2, <2>1, <2>2, <2>3, <2>4, CallGoodOne
            DEF HKinds, LKinds, Arriving, Trying, Cleaning, Releasing, Settling, LeaseCalls
  <1> QED BY <1>3, <1>4 DEF Reacquire

LEMMA RestoreLeaseGood ==
    ASSUME IInv, NEW p \in Tuis, NEW w \in work[p], RestoreLease(p, w)
    PROVE  Good(p)
  <1>1. BaseInv /\ w \in ItemOf(Met) /\ w.s \in Met BY ItemKind DEF IInv, Nameless, RestoreLease
  <1>2. w.kind = "restore" /\ UNCHANGED tui BY DEF RestoreLease
  <1>3. CASE Acquire(p, w.s) /\ Continue(p, w, {}) /\ TakesBack(p, w.s)
    <2>1. /\ HistoryType /\ history.slips \subseteq history'.slips
          /\ owner[w.s] = p \/ LeftNow(p)
      BY <1>1, <1>3, TakesBackTo
    <2>2. /\ DbStep(p) /\ owner'[w.s] = p
          /\ \A r \in Sessions : r # w.s => owner'[r] = owner[r]
      BY <1>1, <1>3, <2>1, AcquireTo
    <2> DEFINE N == {}
    <2>3. Continue(p, w, N) BY <1>3
    <2>4. N \in SUBSET ItemOf(Met') /\ NoLine(N) BY DEF NoLine
    <2>5. w.kind \notin HKinds \cup LKinds \cup Arriving /\ w.kind \notin Trying \cup Cleaning
      BY <1>2 DEF HKinds, LKinds, Arriving, Trying, Cleaning, Releasing
    <2> HIDE DEF N
    <2> QED BY <1>2, <2>1, <2>2, <2>3, <2>4, <2>5, CallGood
  <1>4. CASE CannotAcquire(p, w.s) /\ Continue(p, w, {To("releaseFailed", w.s)})
    <2>1. DbStep(p) /\ Met' = Met /\ owner' = owner BY <1>1, <1>4, CannotAcquireTo DEF Met
    <2> DEFINE n == To("releaseFailed", w.s)
    <2>2. n \in ItemOf(Met') BY <1>1, <2>1, Items DEF Kinds, Messages
    <2>3. n.kind = "releaseFailed" /\ n.s = w.s BY Single
    <2>4. Continue(p, w, {n}) BY <1>4
    <2> HIDE DEF n
    <2> QED BY <1>2, <2>1, <2>2, <2>3, <2>4, CallGoodOne
            DEF HKinds, LKinds, Arriving, Trying, Cleaning, Releasing, Settling, LeaseCalls
  <1> QED BY <1>3, <1>4 DEF RestoreLease

\* Calls of a turn, and those that save what it said, settle nothing.
TurnKinds == TurnCalls \cup PersistCalls \cup
             {"failed", "done", "refused", "persisted", "persistFailed"}

LEMMA TurnItem ==
    ASSUME NEW k \in TurnKinds
    PROVE  /\ k \in Kinds
           /\ k \notin HKinds \cup LKinds \cup Arriving \cup Trying \cup Settling \cup Cleaning
  BY DEF TurnKinds, TurnCalls, PersistCalls, Kinds, Messages, HKinds, LKinds, Arriving, Trying,
         Cleaning, Releasing, Settling, LeaseCalls

\* A call of a turn that takes no lease, with what it goes on as.
LEMMA TurnCallGood ==
    ASSUME IInv, NEW p \in Tuis, NEW w \in work[p], w.kind \in TurnKinds,
           NEW n \in ItemOf(Met'), Continue(p, w, {n}), DbStep(p), UNCHANGED <<tui, owner>>,
           n.kind \in TurnKinds \cup {"bound"}
    PROVE  Good(p)
  <1>1. n.kind \notin HKinds \cup LKinds
    BY TurnItem DEF HKinds, LKinds
  <1> QED BY <1>1, TurnItem, CallGoodOne

\* A call of a turn that takes a lease, which arrives.
LEMMA TurnLeaseGood ==
    ASSUME IInv, NEW p \in Tuis, NEW w \in work[p], w.kind \in TurnKinds, UNCHANGED tui,
           Acquire(p, w.s), UNCHANGED history, NEW k \in Arriving, Continue(p, w, {To(k, w.s)})
    PROVE  Good(p)
  <1>1. BaseInv /\ w \in ItemOf(Met) BY ItemKind DEF IInv
  <1>2. HistoryType /\ history.slips \subseteq history'.slips BY <1>1, KeptTo DEF SameSlips
  <1>3. /\ DbStep(p) /\ UNCHANGED rows /\ owner'[w.s] = p
        /\ \A r \in Sessions : r # w.s => owner'[r] = owner[r]
        /\ w.s \in Met'
    BY <1>1, <1>2, AcquireTo DEF Met
  <1> DEFINE n == To(k, w.s)
  <1>4. k \in Kinds /\ k \notin HKinds \cup LKinds
    BY DEF Arriving, Kinds, Messages, HKinds, LKinds
  <1>5. n \in ItemOf(Met') BY <1>3, <1>4, Items
  <1>6. n.kind = k /\ n.s = w.s BY Single
  <1>7. Continue(p, w, {n}) OBVIOUS
  <1> HIDE DEF n
  <1> QED BY <1>3, <1>4, <1>5, <1>6, <1>7, TurnItem, CallGoodOne

\* A new row is one more session that there has been.
LEMMA NewRow ==
    ASSUME BaseInv, NEW p \in Tuis, NEW n \in New, rows' = [rows EXCEPT ![n] = "kept"],
           UNCHANGED <<owner, left, history>>
    PROVE  DbStep(p) /\ n \in Met'
  BY DEF BaseInv, DbStep, New, Met

LEMMA CreateSessionGood ==
    ASSUME IInv, NEW p \in Tuis, NEW w \in work[p], CreateSession(p, w)
    PROVE  Good(p)
  <1>1. BaseInv BY DEF IInv
  <1>2. w.kind \in TurnKinds /\ UNCHANGED tui BY DEF CreateSession, TurnKinds, TurnCalls
  <1>3. ASSUME NEW n \in New, rows' = [rows EXCEPT ![n] = "kept"], Continue(p, w, {To("lease", n)}),
               UNCHANGED <<owner, left, history>>
        PROVE  Good(p)
    <2>1. DbStep(p) /\ n \in Met' BY <1>1, <1>3, NewRow
    <2>2. To("lease", n) \in ItemOf(Met') BY <2>1, Items DEF Kinds, TurnCalls
    <2>3. To("lease", n).kind \in TurnKinds BY Single DEF TurnKinds, TurnCalls
    <2> QED BY <1>2, <1>3, <2>1, <2>2, <2>3, TurnCallGood
  <1>4. CASE Fails /\ Continue(p, w, {To("failed", None)}) /\ UNCHANGED <<rows, owner, left>>
    <2>1. DbStep(p) BY <1>1, <1>4, FailsTo, QuietDb DEF SameSlips
    <2>2. To("failed", None) \in ItemOf(Met') BY Items DEF Kinds, Messages, Nameless
    <2>3. To("failed", None).kind \in TurnKinds BY Single DEF TurnKinds
    <2> QED BY <1>2, <1>4, <2>1, <2>2, <2>3, TurnCallGood
  <1> QED BY <1>3, <1>4 DEF CreateSession

\* A turn that may not begin.
LEMMA RefusedGood ==
    ASSUME IInv, NEW p \in Tuis, NEW w \in work[p], w.kind \in TurnKinds, w.s \in Met,
           DbStep(p), SameSlips, UNCHANGED <<tui, rows, owner, left>>,
           Continue(p, w, {Of("refused", w.s, {w.s})})
    PROVE  Good(p)
  <1>1. Met' = Met BY DEF Met
  <1>2. Of("refused", w.s, {w.s}) \in ItemOf(Met') BY <1>1, Items DEF Kinds, Messages
  <1>3. Of("refused", w.s, {w.s}).kind \in TurnKinds BY Single DEF TurnKinds
  <1> QED BY <1>2, <1>3, TurnCallGood

LEMMA FirstLeaseGood ==
    ASSUME IInv, NEW p \in Tuis, NEW w \in work[p], FirstLease(p, w)
    PROVE  Good(p)
  <1>1. BaseInv /\ w \in ItemOf(Met) /\ w.s \in Met BY ItemKind DEF IInv, Nameless, FirstLease
  <1>2. w.kind \in TurnKinds /\ UNCHANGED tui BY DEF FirstLease, TurnKinds, TurnCalls
  <1>3. CASE Acquire(p, w.s) /\ Continue(p, w, {To("bound", w.s)}) /\ UNCHANGED history
    BY <1>2, <1>3, TurnLeaseGood DEF Arriving
  <1>4. CASE CannotAcquire(p, w.s) /\ Continue(p, w, {Of("refused", w.s, {w.s})})
    BY <1>1, <1>2, <1>4, CannotAcquireTo, RefusedGood
  <1> QED BY <1>3, <1>4 DEF FirstLease

LEMMA AppendTurnGood ==
    ASSUME IInv, NEW p \in Tuis, NEW w \in work[p], AppendTurn(p, w)
    PROVE  Good(p)
  <1>1. BaseInv /\ w \in ItemOf(Met) /\ w.s \in Met BY ItemKind DEF IInv, Nameless, AppendTurn
  <1>2. w.kind \in TurnKinds /\ UNCHANGED <<rows, owner, left, tui>>
    BY DEF AppendTurn, TurnKinds, TurnCalls
  <1>3. CASE Continue(p, w, {To("bound", w.s)}) /\ UNCHANGED history
    <2>1. DbStep(p) /\ Met' = Met BY <1>1, <1>2, <1>3, KeptTo, QuietDb DEF SameSlips, Met
    <2>2. To("bound", w.s) \in ItemOf(Met') BY <1>1, <2>1, Items DEF Kinds, Messages
    <2>3. To("bound", w.s).kind = "bound" BY Single
    <2> QED BY <1>2, <1>3, <2>1, <2>2, <2>3, TurnCallGood
  <1>4. CASE FailsUnless(w.s \notin Exist) /\ Continue(p, w, {Of("refused", w.s, {w.s})})
    <2>1. HistoryType /\ SameSlips BY <1>1, <1>4, FailsUnlessTo
    <2>2. DbStep(p) BY <1>1, <1>2, <2>1, QuietDb DEF SameSlips
    <2> QED BY <1>1, <1>2, <1>4, <2>1, <2>2, RefusedGood
  <1> QED BY <1>3, <1>4 DEF AppendTurn

LEMMA RunGood ==
    ASSUME IInv, NEW p \in Tuis, NEW w \in work[p], Run(p, w)
    PROVE  Good(p)
  <1>1. BaseInv /\ w \in ItemOf(Met) /\ w.s \in Met BY ItemKind DEF IInv, Nameless, Run
  <1>2. w.kind \in TurnKinds /\ UNCHANGED tui /\ UNCHANGED database
    BY DEF Run, TurnKinds, TurnCalls
  <1>3. DbStep(p) /\ Met' = Met /\ owner' = owner
    BY <1>1, <1>2, KeptTo, QuietDb DEF SameSlips, Met, database
  <1>4. PICK msg \in {"done", "failed"} : Continue(p, w, {To(msg, w.s)}) BY DEF Run
  <1>5. To(msg, w.s) \in ItemOf(Met') BY <1>1, <1>3, Items DEF Kinds, Messages
  <1>6. To(msg, w.s).kind \in TurnKinds BY Single DEF TurnKinds
  <1> QED BY <1>2, <1>3, <1>4, <1>5, <1>6, TurnCallGood

LEMMA DrainGood ==
    ASSUME IInv, NEW p \in Tuis, NEW w \in work[p], Drain(p, w)
    PROVE  Good(p)
  <1>1. BaseInv /\ w \in ItemOf(Met) /\ w.s \in Met \cup {None} /\ w.others \subseteq Met
    BY ItemKind DEF IInv
  <1>2. w.kind \in TurnKinds /\ UNCHANGED <<rows, owner, left, tui>>
    BY DEF Drain, TurnKinds, PersistCalls
  <1>3. CASE /\ Continue(p, w, {IF w.s = None THEN To("persisted", None) ELSE Becomes(w, "attach")})
             /\ UNCHANGED history
    <2> DEFINE n == IF w.s = None THEN To("persisted", None) ELSE Becomes(w, "attach")
    <2>1. DbStep(p) /\ Met' = Met BY <1>1, <1>2, <1>3, KeptTo, QuietDb DEF SameSlips, Met
    <2>2. To("persisted", None) \in ItemOf(Met') BY Items DEF Kinds, Messages, Nameless
    <2>3. w.s # None => Becomes(w, "attach") \in ItemOf(Met')
      BY <1>1, <2>1, Items DEF Kinds, PersistCalls
    <2>4. n \in ItemOf(Met') BY <2>2, <2>3
    <2>5. n.kind \in TurnKinds BY <1>1, Single DEF TurnKinds, PersistCalls
    <2>6. Continue(p, w, {n}) BY <1>3
    <2> HIDE DEF n
    <2> QED BY <1>2, <2>1, <2>4, <2>5, <2>6, TurnCallGood
  <1>4. ASSUME FailsUnless(~(w.others \subseteq Exist)),
               NEW s \in w.others, Continue(p, w, {Of("persistFailed", s, w.others)})
        PROVE  Good(p)
    <2>1. HistoryType /\ SameSlips BY <1>1, <1>4, FailsUnlessTo
    <2>2. DbStep(p) /\ Met' = Met BY <1>1, <1>2, <2>1, QuietDb DEF SameSlips, Met
    <2>3. Of("persistFailed", s, w.others) \in ItemOf(Met')
      BY <1>1, <2>2, Items DEF Kinds, Messages
    <2>4. Of("persistFailed", s, w.others).kind \in TurnKinds BY Single DEF TurnKinds
    <2> QED BY <1>2, <1>4, <2>2, <2>3, <2>4, TurnCallGood
  <1> QED BY <1>3, <1>4 DEF Drain

LEMMA AttachGood ==
    ASSUME IInv, NEW p \in Tuis, NEW w \in work[p], Attach(p, w)
    PROVE  Good(p)
  <1>1. BaseInv /\ w \in ItemOf(Met) /\ w.s \in Met BY ItemKind DEF IInv, Nameless, Attach
  <1>2. w.kind \in TurnKinds /\ UNCHANGED tui BY DEF Attach, TurnKinds, PersistCalls
  <1>3. CASE Acquire(p, w.s) /\ Continue(p, w, {To("attached", w.s)}) /\ UNCHANGED history
    BY <1>2, <1>3, TurnLeaseGood DEF Arriving
  <1>4. CASE CannotAcquire(p, w.s) /\ Continue(p, w, {Becomes(w, "persistFailed")})
    <2>1. DbStep(p) /\ Met' = Met /\ owner' = owner BY <1>1, <1>4, CannotAcquireTo DEF Met
    <2>2. Becomes(w, "persistFailed") \in ItemOf(Met') BY <1>1, <2>1, Items DEF Kinds, Messages
    <2>3. Becomes(w, "persistFailed").kind \in TurnKinds BY <1>1, Single DEF TurnKinds
    <2> QED BY <1>2, <1>4, <2>1, <2>2, <2>3, TurnCallGood
  <1> QED BY <1>3, <1>4 DEF Attach

-----------------------------------------------------------------------------
(* Messages and keys beside the line.                                      *)

\* A step of p that leaves its line, the rows and the owners of leases alone.
LEMMA AsideGood ==
    ASSUME IInv, NEW p \in Tuis, StepOf(p), NEW G, NEW N,
           Moves(work[p], work'[p], G, N), NoLine(G), NoLine(N),
           PendingAt(tui'[p], work'[p]),
           p \notin Hasty => /\ FieldStep(p) /\ ChatStep(p, G)
                             /\ BeliefStep(p, G) /\ AccountStep(p, G)
    PROVE  Good(p)
  <1>1. ASSUME p \notin Hasty PROVE CalmNow(p)
    <2>1. Calm(p) BY <1>1 DEF IInv, Calm
    <2>2. AsideStep(p, G, N) BY <1>1 DEF AsideStep, StepOf, DbStep
    <2> QED BY <2>1, <2>2, AsideKeepsCalm, StepBase DEF IInv
  <1> QED BY <1>1 DEF Good

\* Items that settle nothing.
Idle(S) == \A w \in S : w.kind \notin HKinds \cup LKinds \cup Arriving \cup Trying
                                      \cup Settling \cup Cleaning

\* One that does not touch the chat or its leases either.
LEMMA HarmlessGood ==
    ASSUME IInv, NEW p \in Tuis, StepOf(p), UNCHANGED <<rows, owner>>, NEW G, NEW N,
           Moves(work[p], work'[p], G, N), Idle(G), NoLine(N),
           tui'[p].chat = tui[p].chat, tui'[p].leased = tui[p].leased,
           tui'[p].pending = tui[p].pending,
           p \notin Hasty => FieldStep(p)
    PROVE  Good(p)
  <1>1. \A K, s : Some(G, K, s) => \E g \in G : g.kind \in K BY DEF Some
  <1>2. \A s : ~Some(G, Trying, s) /\ ~Some(G, Settling, s) /\ ~Some(G, Cleaning, s)
               /\ ~Some(G, Arriving, s)
    BY <1>1 DEF Idle
  <1>3. ASSUME NEW K, NEW s, Some(work[p], K, s) PROVE Some(work'[p], K, s) \/ Some(G, K, s)
    BY <1>3, MovesSome
  <1>4. PendingAt(tui'[p], work'[p])
    BY <1>2, <1>3 DEF PendingAt, IInv
  <1>5. ASSUME p \notin Hasty PROVE ChatStep(p, G) /\ BeliefStep(p, G) /\ AccountStep(p, G)
    <2>1. ChatAt(tui'[p], LeftNow(p))
      BY <1>5 DEF IInv, CalmAt, ChatAt, LeftNow, StepOf, DbStep
    <2>2. ChatStep(p, G) BY <1>2, <2>1 DEF ChatStep
    <2>3. BeliefStep(p, G) BY <1>2 DEF BeliefStep
    <2>4. AccountStep(p, G) BY <1>2 DEF AccountStep, Counts
    <2> QED BY <2>2, <2>3, <2>4
  <1>6. NoLine(G) BY DEF Idle, NoLine
  <1> QED BY <1>4, <1>5, <1>6, AsideGood

\* What a calm TUI knows of its turn.
LEMMA CalmTurn ==
    ASSUME IInv, NEW p \in Tuis \ Hasty
    PROVE  /\ tui[p].live => tui[p].streaming
           /\ Opens(p) => ~tui[p].streaming
  BY DEF IInv, CalmAt, TurnAt, Opens

LEMMA HeartbeatGood ==
    ASSUME IInv, NEW p \in Tuis, Heartbeat(p)
    PROVE  Good(p)
  <1> DEFINE n == To("beat", tui[p].leased)
             N == {n}
  <1>1. BaseInv /\ tui[p] \in TuiOf(Met) BY DEF IInv, BaseInv
  <1>2. tui[p].leased \in Met BY <1>1 DEF Heartbeat, TuiOf
  <1>3. n \in ItemOf(Met) BY <1>2, Items DEF Kinds, LeaseCalls
  <1>4. work' = [work EXCEPT ![p] = @ \cup N] /\ UNCHANGED tui /\ UNCHANGED database
    BY DEF Heartbeat
  <1>5. n.kind = "beat" BY Single
  <1> HIDE DEF n
  <1>6. NoLine(N) BY <1>5 DEF NoLine, HKinds, LKinds
  <1>7. N \in SUBSET ItemOf(Met) BY <1>3
  <1> HIDE DEF N
  <1>8. tui' = [tui EXCEPT ![p] = tui[p]] BY <1>4 DEF IInv, BaseInv
  <1>9. HistoryType /\ history.slips \subseteq history'.slips
    BY <1>1, <1>4, KeptTo DEF SameSlips, database
  <1>10. StepOf(p) /\ tui'[p] = tui[p]
    BY <1>1, <1>4, <1>7, <1>8, <1>9, CommandOf DEF database
  <1>11. Moves(work[p], work'[p], {}, N) BY <1>1, <1>4, AddMoves
  <1>12. Idle({}) BY DEF Idle
  <1>13. p \notin Hasty => FieldStep(p) BY <1>10, CalmTurn DEF FieldStep
  <1> QED BY <1>4, <1>6, <1>10, <1>11, <1>12, <1>13, HarmlessGood DEF database

\* TUI u is t but for its queues and its turn.
SameChat(t, u) == /\ u.chat = t.chat /\ u.leased = t.leased /\ u.pending = t.pending
                  /\ u.busy = t.busy /\ u.asks = t.asks /\ u.subject = t.subject

\* A message that ends, or saves, what a turn said.
LEMMA SaveGood ==
    ASSUME IInv, NEW p \in Tuis, NEW w \in work[p], NEW N, Continue(p, w, N),
           N \in SUBSET ItemOf(Met), Idle({w}), NoLine(N),
           NEW t \in TuiOf(Met), tui' = [tui EXCEPT ![p] = t], UNCHANGED database,
           SameChat(tui[p], t), t.streaming => tui[p].streaming,
           p \notin Hasty => (t.live => t.streaming)
    PROVE  Good(p)
  <1>1. HistoryType /\ history.slips \subseteq history'.slips /\ UNCHANGED <<rows, owner, left>>
    BY KeptTo DEF SameSlips, database, IInv
  <1>2. StepOf(p) /\ tui'[p] = t BY <1>1, MessageOf DEF IInv
  <1>3. Moves(work[p], work'[p], {w}, N) BY ContinueMoves DEF IInv
  <1>4. p \notin Hasty => FieldStep(p) BY <1>2 DEF FieldStep, SameChat
  <1> QED BY <1>1, <1>2, <1>3, <1>4, HarmlessGood DEF SameChat

LEMMA DrainedTo ==
    ASSUME NEW S, NEW t \in TuiOf(S)
    PROVE  /\ Drained(t) \in TuiOf(S) /\ SameChat(t, Drained(t))
           /\ Drained(t).streaming = t.streaming /\ Drained(t).live = t.live
           /\ Drains(t) \in SUBSET ItemOf(S) /\ NoLine(Drains(t))
  <1>1. SameChat(t, Drained(t)) /\ Drained(t).streaming = t.streaming /\ Drained(t).live = t.live
    BY DEF Drained, SameChat, TuiOf
  <1>2. \A w \in Drains(t) : w.kind = "drain" BY Single DEF Drains
  <1>3. NoLine(Drains(t)) BY <1>2 DEF NoLine, HKinds, LKinds
  <1> QED BY <1>1, <1>3, Fields, DrainItems

\* The end of a turn, with the session its answer is saved in.
Ended(t, s) == [t EXCEPT !.streaming = FALSE, !.live = FALSE, !.hero = None,
                         !.unsaved = @ \cup Known({s})]

LEMMA EndedTo ==
    ASSUME NEW S, NEW t \in TuiOf(S), NEW s \in S \cup {None}
    PROVE  /\ Ended(t, s) \in TuiOf(S) /\ SameChat(t, Ended(t, s))
           /\ ~Ended(t, s).streaming /\ ~Ended(t, s).live
  <1>1. Known({s}) \in SUBSET S BY DEF Known
  <1>2. t.unsaved \cup Known({s}) \in SUBSET S BY <1>1 DEF TuiOf
  <1> QED BY <1>2 DEF Ended, SameChat, TuiOf

\* Its messages settle nothing.
LEMMA TurnIdle ==
    ASSUME NEW w, w.kind \in TurnKinds \cup {"cancelled"}
    PROVE  Idle({w})
  BY DEF Idle, TurnKinds, TurnCalls, PersistCalls, HKinds, LKinds, Arriving, Trying, Cleaning,
         Releasing, Settling, LeaseCalls

LEMMA EndGood ==
    ASSUME IInv, NEW p \in Tuis, NEW w \in work[p], w.kind \in TurnKinds \cup {"cancelled"},
           NEW s \in Met \cup {None},
           tui' = [tui EXCEPT ![p] = Drained(Ended(tui[p], s))],
           Continue(p, w, Drains(Ended(tui[p], s))), UNCHANGED database
    PROVE  Good(p)
  <1> DEFINE t == Ended(tui[p], s)
  <1>1. tui[p] \in TuiOf(Met) BY DEF IInv, BaseInv
  <1>2. t \in TuiOf(Met) /\ SameChat(tui[p], t) /\ ~t.streaming /\ ~t.live
    BY <1>1, EndedTo
  <1>3. tui' = [tui EXCEPT ![p] = Drained(t)] /\ Continue(p, w, Drains(t)) OBVIOUS
  <1> HIDE DEF t
  <1>4. /\ Drained(t) \in TuiOf(Met) /\ SameChat(t, Drained(t))
        /\ Drained(t).streaming = t.streaming /\ Drained(t).live = t.live
        /\ Drains(t) \in SUBSET ItemOf(Met) /\ NoLine(Drains(t))
    BY <1>2, DrainedTo
  <1>5. SameChat(tui[p], Drained(t)) BY <1>2, <1>4 DEF SameChat
  <1> QED BY <1>2, <1>3, <1>4, <1>5, TurnIdle, SaveGood

LEMMA TuiSame ==
    ASSUME IInv, NEW p \in Tuis, UNCHANGED tui
    PROVE  tui' = [tui EXCEPT ![p] = tui[p]] /\ SameChat(tui[p], tui[p])
  BY DEF IInv, BaseInv, SameChat

LEMMA DoneGood ==
    ASSUME IInv, NEW p \in Tuis, NEW w \in work[p], Done(p, w)
    PROVE  Good(p)
  <1>1. w.kind \in TurnKinds /\ UNCHANGED database BY DEF Done, TurnKinds
  <1>2. tui[p] \in TuiOf(Met) BY DEF IInv, BaseInv
  <1>3. CASE tui[p].live
    <2> DEFINE s == IF tui[p].hero # None THEN tui[p].hero ELSE tui[p].chat
    <2>1. s \in Met \cup {None} BY <1>2 DEF TuiOf
    <2>2. /\ tui' = [tui EXCEPT ![p] = Drained(Ended(tui[p], s))]
          /\ Continue(p, w, Drains(Ended(tui[p], s)))
      BY <1>3 DEF Done, Ended
    <2> QED BY <1>1, <2>1, <2>2, EndGood
  <1>4. CASE ~tui[p].live
    <2> DEFINE N == {}
    <2>1. UNCHANGED tui /\ Continue(p, w, N) BY <1>4 DEF Done
    <2>2. N \in SUBSET ItemOf(Met) /\ NoLine(N) BY DEF NoLine
    <2> HIDE DEF N
    <2> QED BY <1>1, <1>2, <2>1, <2>2, TurnIdle, TuiSame, CalmTurn, SaveGood
  <1> QED BY <1>3, <1>4

LEMMA FailedGood ==
    ASSUME IInv, NEW p \in Tuis, NEW w \in work[p], Failed(p, w)
    PROVE  Good(p)
  <1>1. w.kind \in TurnKinds /\ UNCHANGED database BY DEF Failed, TurnKinds
  <1>2. tui[p] \in TuiOf(Met) BY DEF IInv, BaseInv
  <1> DEFINE N == {}
             t == IF tui[p].live THEN [tui[p] EXCEPT !.streaming = FALSE, !.live = FALSE, !.hero = None]
                  ELSE tui[p]
  <1>3. Continue(p, w, N) /\ tui' = [tui EXCEPT ![p] = t] BY DEF Failed
  <1>4. N \in SUBSET ItemOf(Met) /\ NoLine(N) BY DEF NoLine
  <1>5. /\ t \in TuiOf(Met) /\ SameChat(tui[p], t)
        /\ t.streaming => tui[p].streaming
        /\ t.live => t = tui[p]
    <2>1. CASE tui[p].live BY <1>2, <2>1 DEF TuiOf, SameChat
    <2>2. CASE ~tui[p].live BY <1>2, <2>2 DEF SameChat
    <2> QED BY <2>1, <2>2
  <1> HIDE DEF N, t
  <1> QED BY <1>1, <1>3, <1>4, <1>5, TurnIdle, CalmTurn, SaveGood

LEMMA CancelledGood ==
    ASSUME IInv, NEW p \in Tuis, NEW w \in work[p], Cancelled(p, w)
    PROVE  Good(p)
  <1>1. w.kind = "cancelled" /\ UNCHANGED database BY DEF Cancelled
  <1>2. tui[p].chat \in Met \cup {None} BY DEF IInv, BaseInv, TuiOf
  <1>3. /\ tui' = [tui EXCEPT ![p] = Drained(Ended(tui[p], tui[p].chat))]
        /\ Continue(p, w, Drains(Ended(tui[p], tui[p].chat)))
    BY DEF Cancelled, Ended
  <1> QED BY <1>1, <1>2, <1>3, EndGood

LEMMA PersistedGood ==
    ASSUME IInv, NEW p \in Tuis, NEW w \in work[p], Persisted(p, w)
    PROVE  Good(p)
  <1>1. w.kind \in TurnKinds /\ UNCHANGED database BY DEF Persisted, TurnKinds
  <1>2. tui[p] \in TuiOf(Met) BY DEF IInv, BaseInv
  <1> DEFINE N == {}
             t == [tui[p] EXCEPT !.blocked = FALSE]
  <1>3. Continue(p, w, N) /\ tui' = [tui EXCEPT ![p] = t] BY DEF Persisted
  <1>4. N \in SUBSET ItemOf(Met) /\ NoLine(N) BY DEF NoLine
  <1>5. /\ t \in TuiOf(Met) /\ SameChat(tui[p], t) /\ t.streaming = tui[p].streaming
        /\ t.live = tui[p].live
    BY <1>2 DEF TuiOf, SameChat
  <1> HIDE DEF N, t
  <1> QED BY <1>1, <1>3, <1>4, <1>5, TurnIdle, CalmTurn, SaveGood

\* A user who waits does nothing while History opens a session.
LEMMA Attending ==
    ASSUME NEW p \in Tuis, p \notin Hasty, Attends(p)
    PROVE  ~Opens(p)
  BY DEF Attends, Opening, Opens, OpeningAt, Line, LKinds

\* A key that submits, saves or cancels.
LEMMA KeyGood ==
    ASSUME IInv, NEW p \in Tuis, Command(p), NEW N, work' = [work EXCEPT ![p] = @ \cup N],
           N \in SUBSET ItemOf(Met), NoLine(N),
           NEW t \in TuiOf(Met), tui' = [tui EXCEPT ![p] = t], SameChat(tui[p], t),
           p \notin Hasty => /\ t.streaming => tui[p].streaming \/ ~Opens(p)
                             /\ t.live => t.streaming
    PROVE  Good(p)
  <1>1. HistoryType /\ history.slips \subseteq history'.slips /\ UNCHANGED <<rows, owner, left>>
    BY CommandTo DEF SameSlips, IInv
  <1>2. StepOf(p) /\ tui'[p] = t BY <1>1, CommandOf DEF IInv
  <1> DEFINE G == {}
  <1>3. Moves(work[p], work'[p], G, N) BY AddMoves DEF IInv
  <1>4. p \notin Hasty => FieldStep(p) BY <1>2 DEF FieldStep, SameChat
  <1>5. Idle(G) BY DEF Idle
  <1> HIDE DEF G
  <1> QED BY <1>1, <1>2, <1>3, <1>4, <1>5, HarmlessGood DEF SameChat

LEMMA SubmitGood ==
    ASSUME IInv, NEW p \in Tuis, Submit(p)
    PROVE  Good(p)
  <1>1. tui[p] \in TuiOf(Met) BY DEF IInv, BaseInv
  <1> DEFINE n == To(IF tui[p].chat = None THEN "create" ELSE "append", tui[p].chat)
             N == {n}
             t == [tui[p] EXCEPT !.streaming = TRUE, !.live = TRUE, !.hero = tui[p].chat]
  <1>2. n \in ItemOf(Met)
    <2>1. CASE tui[p].chat = None BY <2>1, Items DEF Kinds, TurnCalls, Nameless
    <2>2. CASE tui[p].chat # None
      <3>1. tui[p].chat \in Met BY <1>1, <2>2 DEF TuiOf
      <3> QED BY <2>2, <3>1, Items DEF Kinds, TurnCalls
    <2> QED BY <2>1, <2>2
  <1>3. n.kind \in {"create", "append"} BY Single
  <1>4. work' = [work EXCEPT ![p] = @ \cup N] /\ tui' = [tui EXCEPT ![p] = t] /\ Command(p)
    BY DEF Submit
  <1>5. t \in TuiOf(Met) /\ SameChat(tui[p], t) /\ t.live = TRUE /\ t.streaming = TRUE
    BY <1>1 DEF TuiOf, SameChat
  <1>6. p \notin Hasty => ~Opens(p) BY Attending DEF Submit
  <1> HIDE DEF n, t
  <1>7. N \in SUBSET ItemOf(Met) /\ NoLine(N)
    BY <1>2, <1>3 DEF NoLine, HKinds, LKinds
  <1> HIDE DEF N
  <1> QED BY <1>4, <1>5, <1>6, <1>7, KeyGood

LEMMA RetrySaveGood ==
    ASSUME IInv, NEW p \in Tuis, RetrySave(p)
    PROVE  Good(p)
  <1>1. tui[p] \in TuiOf(Met) BY DEF IInv, BaseInv
  <1> DEFINE t == IF tui[p].unsaved = {} THEN [tui[p] EXCEPT !.blocked = FALSE] ELSE Drained(tui[p])
  <1>2. /\ work' = [work EXCEPT ![p] = @ \cup Drains(tui[p])] /\ tui' = [tui EXCEPT ![p] = t]
        /\ Command(p)
    BY DEF RetrySave
  <1>3. /\ Drained(tui[p]) \in TuiOf(Met) /\ SameChat(tui[p], Drained(tui[p]))
        /\ Drained(tui[p]).streaming = tui[p].streaming /\ Drained(tui[p]).live = tui[p].live
        /\ Drains(tui[p]) \in SUBSET ItemOf(Met) /\ NoLine(Drains(tui[p]))
    BY <1>1, DrainedTo
  <1>4. /\ t \in TuiOf(Met) /\ SameChat(tui[p], t)
        /\ t.streaming = tui[p].streaming /\ t.live = tui[p].live
    <2>1. CASE tui[p].unsaved = {} BY <1>1, <2>1 DEF TuiOf, SameChat
    <2>2. CASE tui[p].unsaved # {} BY <1>3, <2>2
    <2> QED BY <2>1, <2>2
  <1> HIDE DEF t
  <1> QED BY <1>2, <1>3, <1>4, CalmTurn, KeyGood

LEMMA CancelGood ==
    ASSUME IInv, NEW p \in Tuis, Cancel(p)
    PROVE  Good(p)
  <1>1. tui[p] \in TuiOf(Met) BY DEF IInv, BaseInv
  <1> DEFINE N == {To("cancelled", None)}
             t == [tui[p] EXCEPT !.live = FALSE]
  <1>2. To("cancelled", None) \in ItemOf(Met) BY Items DEF Kinds, Messages, Nameless
  <1>3. work' = [work EXCEPT ![p] = @ \cup N] /\ tui' = [tui EXCEPT ![p] = t] /\ Command(p)
    BY DEF Cancel
  <1>4. t \in TuiOf(Met) /\ SameChat(tui[p], t) /\ t.streaming = tui[p].streaming /\ ~t.live
    BY <1>1 DEF TuiOf, SameChat
  <1>5. NoLine(N) BY Single DEF NoLine, HKinds, LKinds
  <1>6. N \in SUBSET ItemOf(Met) BY <1>2
  <1> HIDE DEF N, t
  <1> QED BY <1>3, <1>4, <1>5, <1>6, KeyGood

LEMMA CleanupsTo ==
    ASSUME NEW S, NEW ids \in SUBSET S
    PROVE  /\ Cleanups(ids) \in SUBSET ItemOf(S) /\ NoLine(Cleanups(ids))
           /\ \A K, s : Some(Cleanups(ids), K, s) <=> ("release" \in K /\ s \in ids)
  <1>1. \A w \in Cleanups(ids) : w.kind = "release" /\ w.s \in ids BY Single DEF Cleanups
  <1>2. \A s \in ids : \E w \in Cleanups(ids) : w.kind = "release" /\ w.s = s BY Single DEF Cleanups
  <1>3. NoLine(Cleanups(ids)) BY <1>1 DEF NoLine, HKinds, LKinds
  <1>4. \A K, s : Some(Cleanups(ids), K, s) <=> ("release" \in K /\ s \in ids)
    BY <1>1, <1>2 DEF Some
  <1> QED BY <1>3, <1>4, CleanupItems

LEMMA ResetTo ==
    ASSUME NEW S, NEW t \in TuiOf(S), NEW ids \in SUBSET S
    PROVE  LET u == CleanUp(Reset(t), ids)
           IN /\ u \in TuiOf(S) /\ u.chat = None /\ u.leased = None
              /\ u.pending = t.pending \cup ids
              /\ u.busy = t.busy /\ u.asks = t.asks /\ u.subject = t.subject
              /\ u.streaming = t.streaming /\ ~u.live
  <1>1. Reset(t) \in TuiOf(S) BY Fields
  <1>2. CleanUp(Reset(t), ids) \in TuiOf(S) BY <1>1, Fields
  <1>3. /\ Reset(t).chat = None /\ Reset(t).leased = None /\ Reset(t).pending = t.pending
        /\ Reset(t).busy = t.busy /\ Reset(t).asks = t.asks /\ Reset(t).subject = t.subject
        /\ Reset(t).streaming = t.streaming /\ ~Reset(t).live
    BY DEF Reset, TuiOf
  <1> DEFINE r == Reset(t)
             u == CleanUp(r, ids)
  <1> HIDE DEF r
  <1>4. /\ u.chat = r.chat /\ u.leased = r.leased /\ u.pending = r.pending \cup ids
        /\ u.busy = r.busy /\ u.asks = r.asks /\ u.subject = r.subject
        /\ u.streaming = r.streaming /\ u.live = r.live
    BY <1>1 DEF CleanUp, TuiOf, r
  <1> QED BY <1>2, <1>3, <1>4 DEF r

LEMMA NewChatGood ==
    ASSUME IInv, NEW p \in Tuis, NewChat(p)
    PROVE  Good(p)
  <1>1. BaseInv /\ tui[p] \in TuiOf(Met) BY DEF IInv, BaseInv
  <1> DEFINE prior == Known({Prior(tui[p])})
             N == Cleanups(prior)
             t == CleanUp(Reset(tui[p]), prior)
             G == {}
  <1>2. prior \in SUBSET Met BY <1>1 DEF Known, Prior, TuiOf
  <1>3. /\ N \in SUBSET ItemOf(Met) /\ NoLine(N)
        /\ \A K, s : Some(N, K, s) <=> ("release" \in K /\ s \in prior)
    BY <1>2, CleanupsTo
  <1>4. /\ t \in TuiOf(Met) /\ t.chat = None /\ t.leased = None
        /\ t.pending = tui[p].pending \cup prior
        /\ t.busy = tui[p].busy /\ t.asks = tui[p].asks /\ t.subject = tui[p].subject
        /\ t.streaming = tui[p].streaming /\ ~t.live
    BY <1>1, <1>2, ResetTo
  <1>5. work' = [work EXCEPT ![p] = @ \cup N] /\ tui' = [tui EXCEPT ![p] = t] /\ Command(p)
    BY DEF NewChat
  <1>6. tui[p].leased # None => tui[p].leased \in prior BY DEF Known, Prior
  <1>7. (tui[p].leased = None /\ tui[p].chat # None) => tui[p].chat \in prior BY DEF Known, Prior
  <1> HIDE DEF prior, N, t
  <1>8. HistoryType /\ SameSlips /\ UNCHANGED <<rows, owner, left>> BY <1>1, <1>5, CommandTo
  <1>9. StepOf(p) /\ tui'[p] = t BY <1>1, <1>3, <1>4, <1>5, <1>8, CommandOf DEF SameSlips
  <1>10. Moves(work[p], work'[p], G, N) BY <1>1, <1>5, AddMoves
  <1>11. NoLine(G) /\ \A K, s : ~Some(G, K, s) BY DEF NoLine, Some
  <1> HIDE DEF G
  <1>12. ASSUME NEW K, NEW s
         PROVE  /\ Some(work[p], K, s) => Some(work'[p], K, s)
                /\ Some(N, K, s) => Some(work'[p], K, s)
    BY <1>10, <1>11, MovesSome
  <1>13. PendingAt(tui'[p], work'[p])
    BY <1>3, <1>4, <1>9, <1>12 DEF PendingAt, IInv, Trying, Releasing
  <1>14. ASSUME p \notin Hasty
         PROVE  FieldStep(p) /\ ChatStep(p, G) /\ BeliefStep(p, G) /\ AccountStep(p, G)
    <2>1. FieldStep(p) BY <1>4, <1>9 DEF FieldStep
    <2>2. ~Opens(p) BY <1>14, Attending DEF NewChat
    <2>3. ChatStep(p, G) BY <1>4, <1>8, <1>9, <2>2 DEF ChatStep, ChatAt
    <2>4. BeliefStep(p, G) BY <1>4, <1>9, NoneAssumption DEF BeliefStep
    <2>5. LeftNow(p) \/ tui[p].leased = None \/ tui[p].chat \in {None, tui[p].leased}
      BY <1>8, <1>14 DEF IInv, CalmAt, ChatAt, LeftNow, SameSlips
    <2>6. LeftNow(p) \/ \A s \in Sessions : s \in Counts(tui[p]) => s \in Counts(tui'[p])
      BY <1>4, <1>6, <1>7, <1>9, <2>5, NoneAssumption DEF Counts
    <2>7. AccountStep(p, G) BY <1>8, <1>11, <2>6 DEF AccountStep
    <2> QED BY <2>1, <2>3, <2>4, <2>7
  <1> QED BY <1>3, <1>9, <1>10, <1>11, <1>13, <1>14, AsideGood

LEMMA LeaseLostGood ==
    ASSUME IInv, NEW p \in Tuis, NEW w \in work[p], LeaseLost(p, w)
    PROVE  Good(p)
  <1>1. BaseInv /\ tui[p] \in TuiOf(Met) BY DEF IInv, BaseInv
  <1> DEFINE t == IF w.s \in {tui[p].leased, tui[p].chat}
                  THEN [tui[p] EXCEPT !.lost = TRUE, !.blocked = TRUE, !.leased = None]
                  ELSE tui[p]
             N == {}
             G == {w}
  <1>2. w.kind = "lost" /\ UNCHANGED <<rows, owner, left>> BY DEF LeaseLost
  <1>3. Continue(p, w, N) /\ tui' = [tui EXCEPT ![p] = t] BY DEF LeaseLost
  <1>4. HistoryType /\ history.slips \subseteq history'.slips
    BY <1>1, SlipTo, KeptTo DEF LeaseLost, Slipped, SameSlips
  <1>5. (w.s \in {tui[p].leased, tui[p].chat} /\ tui[p].leased # None /\ owner[tui[p].leased] = p)
           => LeftNow(p)
    BY <1>1, SlipTo DEF LeaseLost, Slipped, LeftNow
  <1>6. /\ t \in TuiOf(Met)
        /\ t = tui[p] \/ t.leased = None
        /\ w.s = tui[p].leased => t.leased = None
        /\ t # tui[p] => w.s \in {tui[p].leased, tui[p].chat}
        /\ t.chat = tui[p].chat /\ t.pending = tui[p].pending /\ t.busy = tui[p].busy
        /\ t.asks = tui[p].asks /\ t.subject = tui[p].subject
        /\ t.streaming = tui[p].streaming /\ t.live = tui[p].live
    <2>1. CASE w.s \in {tui[p].leased, tui[p].chat} BY <1>1, <2>1 DEF TuiOf
    <2>2. CASE w.s \notin {tui[p].leased, tui[p].chat} BY <1>1, <2>2 DEF TuiOf
    <2> QED BY <2>1, <2>2
  <1>7. N \in SUBSET ItemOf(Met) /\ NoLine(N) BY DEF NoLine
  <1>8. NoLine(G) BY <1>2 DEF NoLine, HKinds, LKinds
  <1>9. \A K, s : Some(G, K, s) <=> (w.kind \in K /\ w.s = s) BY DEF Some
  <1> HIDE DEF N, t
  <1>10. StepOf(p) /\ tui'[p] = t BY <1>1, <1>2, <1>3, <1>4, <1>6, <1>7, MessageOf
  <1>11. Moves(work[p], work'[p], G, N) BY <1>1, <1>3, ContinueMoves
  <1> HIDE DEF G
  <1>12. ASSUME NEW K, NEW s, Some(work[p], K, s) PROVE Some(work'[p], K, s) \/ Some(G, K, s)
    BY <1>11, <1>12, MovesSome
  <1>13. \A s : ~Some(G, Trying, s) /\ ~Some(G, Cleaning, s) /\ ~Some(G, Arriving, s)
    BY <1>2, <1>9 DEF Trying, Cleaning, Releasing, Arriving
  <1>14. PendingAt(tui'[p], work'[p])
    BY <1>6, <1>10, <1>12, <1>13 DEF PendingAt, IInv
  <1>15. ASSUME p \notin Hasty
         PROVE  FieldStep(p) /\ ChatStep(p, G) /\ BeliefStep(p, G) /\ AccountStep(p, G)
    <2>1. FieldStep(p) BY <1>6, <1>10, <1>15, CalmTurn DEF FieldStep
    <2>2. LeftNow(p) \/ tui[p].leased = None \/ tui[p].chat \in {None, tui[p].leased}
      BY <1>4, <1>15 DEF IInv, CalmAt, ChatAt, LeftNow
    <2>3. ChatAt(t, LeftNow(p)) BY <1>6, <2>2 DEF ChatAt
    <2>4. ChatStep(p, G) BY <1>2, <1>6, <1>10, <1>13, <2>3 DEF ChatStep
    <2>5. BeliefStep(p, G) BY <1>2, <1>6, <1>9, <1>10, NoneAssumption DEF BeliefStep
    <2>6. AccountStep(p, G) BY <1>2, <1>5, <1>6, <1>10, <1>13, NoneAssumption DEF AccountStep, Counts
    <2> QED BY <2>1, <2>4, <2>5, <2>6
  <1> QED BY <1>7, <1>8, <1>10, <1>11, <1>14, <1>15, AsideGood

\* A message about the release of w.s, of which at most that is no longer pending.
LEMMA ReleaseMessageGood ==
    ASSUME IInv, NEW p \in Tuis, NEW w \in work[p], NEW N, Continue(p, w, N),
           N \in SUBSET ItemOf(Met), NoLine({w}), NoLine(N), w.kind \notin Arriving,
           NEW pending \in SUBSET Met, tui' = [tui EXCEPT ![p].pending = pending],
           UNCHANGED <<rows, owner, left>>, HistoryType, history.slips \subseteq history'.slips,
           \A s \in pending : s \in tui[p].pending \ {w.s} \/ Some(N, Trying, s),
           tui[p].pending \ {w.s} \subseteq pending,
           (w.s = tui[p].leased /\ w.kind \in Settling) => Some(N, Settling, w.s),
           \/ LeftNow(p) \/ owner[w.s] # p
           \/ w.s \in {tui[p].chat, tui[p].leased} \cup pending
           \/ w.s \notin tui[p].pending /\ w.kind \notin Cleaning
    PROVE  Good(p)
  <1> DEFINE t == [tui[p] EXCEPT !.pending = pending]
             G == {w}
  <1>1. BaseInv /\ tui[p] \in TuiOf(Met) BY DEF IInv, BaseInv
  <1>2. /\ t \in TuiOf(Met) /\ tui' = [tui EXCEPT ![p] = t]
        /\ t.chat = tui[p].chat /\ t.leased = tui[p].leased /\ t.pending = pending
        /\ t.busy = tui[p].busy /\ t.asks = tui[p].asks /\ t.subject = tui[p].subject
        /\ t.streaming = tui[p].streaming /\ t.live = tui[p].live
    BY <1>1 DEF TuiOf
  <1> HIDE DEF t
  <1>3. StepOf(p) /\ tui'[p] = t BY <1>1, <1>2, MessageOf
  <1>4. Moves(work[p], work'[p], G, N) BY <1>1, ContinueMoves
  <1>5. \A K, s : Some(G, K, s) <=> (w.kind \in K /\ w.s = s) BY DEF Some
  <1>6. NoLine(G) OBVIOUS
  <1> HIDE DEF G
  <1>7. ASSUME NEW K, NEW s
        PROVE  /\ Some(work[p], K, s) => Some(work'[p], K, s) \/ Some(G, K, s)
               /\ Some(N, K, s) => Some(work'[p], K, s)
    BY <1>4, MovesSome
  <1>8. PendingAt(tui'[p], work'[p])
    BY <1>2, <1>3, <1>5, <1>7 DEF PendingAt, IInv
  <1>9. ASSUME p \notin Hasty
        PROVE  FieldStep(p) /\ ChatStep(p, G) /\ BeliefStep(p, G) /\ AccountStep(p, G)
    <2>1. FieldStep(p) BY <1>2, <1>3, <1>9, CalmTurn DEF FieldStep
    <2>2. ChatAt(t, LeftNow(p)) BY <1>2, <1>9 DEF IInv, CalmAt, ChatAt, LeftNow
    <2>3. ChatStep(p, G) BY <1>2, <1>3, <1>5, <2>2 DEF ChatStep
    <2>4. BeliefStep(p, G) BY <1>2, <1>3, <1>5, <1>7 DEF BeliefStep
    <2>5. AccountStep(p, G) BY <1>2, <1>3, <1>5 DEF AccountStep, Counts
    <2> QED BY <2>1, <2>3, <2>4, <2>5
  <1> QED BY <1>3, <1>4, <1>6, <1>8, <1>9, AsideGood

LEMMA ReleaseItem ==
    ASSUME NEW k \in {"release", "released", "releaseFailed", "retry", "restore"}
    PROVE  /\ k \in Kinds /\ k \notin HKinds \cup LKinds \cup Arriving
           /\ k # "restore" => k \in Trying
           /\ k # "retry" => k \in Settling
           /\ k \in Cleaning <=> k \in {"release", "released", "releaseFailed"}
  BY DEF Kinds, LeaseCalls, Messages, HKinds, LKinds, Arriving, Trying, Releasing, Settling, Cleaning

\* The one item that such a message leads to.
LEMMA ReleaseItemTo ==
    ASSUME NEW S, NEW s \in S,
           NEW k \in {"release", "released", "releaseFailed", "retry", "restore"}
    PROVE  /\ {To(k, s)} \in SUBSET ItemOf(S) /\ NoLine({To(k, s)})
           /\ \A K, r : Some({To(k, s)}, K, r) <=> (k \in K /\ r = s)
  <1>1. To(k, s).kind = k /\ To(k, s).s = s BY Single
  <1>2. To(k, s) \in ItemOf(S) BY ReleaseItem, Items
  <1>3. NoLine({To(k, s)}) BY <1>1, ReleaseItem DEF NoLine
  <1>4. \A K, r : Some({To(k, s)}, K, r) <=> (k \in K /\ r = s) BY <1>1 DEF Some
  <1> QED BY <1>2, <1>3, <1>4

LEMMA NoItems ==
    ASSUME NEW S
    PROVE  {} \in SUBSET ItemOf(S) /\ NoLine({}) /\ \A K, s : ~Some({}, K, s)
  BY DEF NoLine, Some

LEMMA RetryReleaseGood ==
    ASSUME IInv, NEW p \in Tuis, NEW w \in work[p], RetryRelease(p, w)
    PROVE  Good(p)
  <1>1. BaseInv /\ tui[p].pending \in SUBSET Met /\ w.s \in Met /\ NoLine({w})
        /\ w.kind \notin Arriving \cup Settling \cup Cleaning
    BY ItemKind, ReleaseItem DEF IInv, BaseInv, TuiOf, NoLine, Nameless, RetryRelease,
       Settling, LeaseCalls
  <1>2. HistoryType /\ history.slips \subseteq history'.slips /\ UNCHANGED <<rows, owner, left>>
    BY <1>1, KeptTo DEF SameSlips, database, RetryRelease
  <1>3. CASE OwnedByChat(p, w.s)
    <2> DEFINE N == {}
               pending == tui[p].pending \ {w.s}
    <2>1. Continue(p, w, N) /\ tui' = [tui EXCEPT ![p].pending = pending]
      BY <1>3 DEF RetryRelease
    <2>2. N \in SUBSET ItemOf(Met) /\ NoLine(N) BY NoItems
    <2>3. pending \in SUBSET Met BY <1>1
    <2>4. w.s \in {tui[p].chat, tui[p].leased} BY <1>3 DEF OwnedByChat
    <2> HIDE DEF N
    <2> QED BY <1>1, <1>2, <2>1, <2>2, <2>3, <2>4, ReleaseMessageGood
  <1>4. CASE ~OwnedByChat(p, w.s)
    <2> DEFINE ids == tui[p].pending \cap {w.s}
               N == Cleanups(ids)
               pending == tui[p].pending
    <2>1. Continue(p, w, N) /\ UNCHANGED tui BY <1>4 DEF RetryRelease, Cleanups
    <2>2. tui' = [tui EXCEPT ![p].pending = pending] BY <1>1, <2>1 DEF BaseInv, TuiOf
    <2>3. ids \in SUBSET Met BY <1>1
    <2>4. /\ N \in SUBSET ItemOf(Met) /\ NoLine(N)
          /\ \A K, s : Some(N, K, s) <=> ("release" \in K /\ s \in ids)
      BY <2>3, CleanupsTo
    <2>5. "release" \in Trying BY ReleaseItem
    <2>6. \A s \in pending : s \in tui[p].pending \ {w.s} \/ Some(N, Trying, s)
      BY <2>4, <2>5
    <2> HIDE DEF N, ids
    <2> QED BY <1>1, <1>2, <2>1, <2>2, <2>4, <2>6, ReleaseMessageGood
  <1> QED BY <1>3, <1>4

LEMMA ReleaseFailedGood ==
    ASSUME IInv, NEW p \in Tuis, NEW w \in work[p], ReleaseFailed(p, w)
    PROVE  Good(p)
  <1>1. BaseInv /\ tui[p].pending \in SUBSET Met /\ w.s \in Met /\ NoLine({w})
        /\ w.kind \notin Arriving
    BY ItemKind, ReleaseItem DEF IInv, BaseInv, TuiOf, NoLine, Nameless, ReleaseFailed
  <1>2. HistoryType /\ history.slips \subseteq history'.slips /\ UNCHANGED <<rows, owner, left>>
    BY <1>1, KeptTo DEF SameSlips, database, ReleaseFailed
  <1>3. CASE OwnedByChat(p, w.s)
    <2> DEFINE N == {To("restore", w.s)}
               pending == tui[p].pending \ {w.s}
    <2>1. Continue(p, w, N) /\ tui' = [tui EXCEPT ![p].pending = pending]
      BY <1>3 DEF ReleaseFailed
    <2>2. /\ N \in SUBSET ItemOf(Met) /\ NoLine(N)
          /\ \A K, r : Some(N, K, r) <=> ("restore" \in K /\ r = w.s)
      BY <1>1, ReleaseItemTo
    <2>3. pending \in SUBSET Met BY <1>1
    <2>4. w.s \in {tui[p].chat, tui[p].leased} BY <1>3 DEF OwnedByChat
    <2>5. Some(N, Settling, w.s) BY <2>2, ReleaseItem
    <2> HIDE DEF N
    <2> QED BY <1>1, <1>2, <2>1, <2>2, <2>3, <2>4, <2>5, ReleaseMessageGood
  <1>4. CASE ~OwnedByChat(p, w.s)
    <2> DEFINE N == {To("retry", w.s)}
               pending == tui[p].pending \cup {w.s}
    <2>1. Continue(p, w, N) /\ tui' = [tui EXCEPT ![p].pending = pending]
      BY <1>4 DEF ReleaseFailed
    <2>2. /\ N \in SUBSET ItemOf(Met) /\ NoLine(N)
          /\ \A K, r : Some(N, K, r) <=> ("retry" \in K /\ r = w.s)
      BY <1>1, ReleaseItemTo
    <2>3. pending \in SUBSET Met BY <1>1
    <2>4. w.s # tui[p].leased BY <1>4 DEF OwnedByChat
    <2>5. Some(N, Trying, w.s) BY <2>2, ReleaseItem
    <2> HIDE DEF N
    <2> QED BY <1>1, <1>2, <2>1, <2>2, <2>3, <2>4, <2>5, ReleaseMessageGood
  <1> QED BY <1>3, <1>4

LEMMA ReleasedGood ==
    ASSUME IInv, NEW p \in Tuis, NEW w \in work[p], Released(p, w)
    PROVE  Good(p)
  <1> DEFINE pending == tui[p].pending \ {w.s}
  <1>1. BaseInv /\ tui[p].pending \in SUBSET Met /\ w.s \in Met /\ NoLine({w})
        /\ w.kind \notin Arriving
    BY ItemKind, ReleaseItem DEF IInv, BaseInv, TuiOf, NoLine, Nameless, Released
  <1>2. HistoryType /\ history.slips \subseteq history'.slips /\ UNCHANGED <<rows, owner, left>>
    BY <1>1, SlipTo, KeptTo DEF SameSlips, Slipped, Released
  <1>3. tui' = [tui EXCEPT ![p].pending = pending] /\ pending \in SUBSET Met
    BY <1>1 DEF Released
  <1>4. LeftNow(p) \/ owner[w.s] # p \/ w.s \in {tui[p].chat, tui[p].leased}
    BY <1>1, SlipTo DEF Released, Slipped, LeftNow, OwnedByChat
  <1>5. CASE OwnedByChat(p, w.s)
    <2> DEFINE N == {To("restore", w.s)}
    <2>1. Continue(p, w, N) BY <1>5 DEF Released
    <2>2. /\ N \in SUBSET ItemOf(Met) /\ NoLine(N)
          /\ \A K, r : Some(N, K, r) <=> ("restore" \in K /\ r = w.s)
      BY <1>1, ReleaseItemTo
    <2>3. Some(N, Settling, w.s) BY <2>2, ReleaseItem
    <2> HIDE DEF N
    <2> QED BY <1>1, <1>2, <1>3, <1>4, <2>1, <2>2, <2>3, ReleaseMessageGood
  <1>6. ASSUME ~OwnedByChat(p, w.s), NEW N, Continue(p, w, N), N \in SUBSET ItemOf(Met), NoLine(N)
        PROVE  Good(p)
    <2>1. w.s # tui[p].leased BY <1>6 DEF OwnedByChat
    <2> QED BY <1>1, <1>2, <1>3, <1>4, <1>6, <2>1, ReleaseMessageGood
  <1>7. CASE ~OwnedByChat(p, w.s) /\ Continue(p, w, {})
    BY <1>6, <1>7, NoItems
  <1>8. ASSUME ~OwnedByChat(p, w.s), NEW next \in pending, Continue(p, w, {To("release", next)})
        PROVE  Good(p)
    <2>1. {To("release", next)} \in SUBSET ItemOf(Met) /\ NoLine({To("release", next)})
      BY <1>1, <1>8, ReleaseItemTo
    <2> QED BY <1>6, <1>8, <2>1
  <1> QED BY <1>5, <1>7, <1>8 DEF Released

LEMMA OpeningIs ==
    ASSUME NEW p \in Tuis
    PROVE  Opening(p) <=> Opens(p)
  BY DEF Opening, Opens, OpeningAt, Line, LKinds

LEMMA ArrivedKinds ==
    /\ {"beat", "run", "release", "failed"} \subseteq Kinds
    /\ {"beat", "run", "release", "failed"} \cap (HKinds \cup LKinds) = {}
    /\ Arriving \cap (HKinds \cup LKinds \cup Trying \cup Settling) = {} /\ Arriving \subseteq Cleaning
    /\ "beat" \in Settling /\ "release" \in Cleaning
  BY DEF Kinds, LeaseCalls, TurnCalls, Messages, HKinds, LKinds, Arriving, Trying, Releasing,
         Settling, Cleaning

\* A lease that arrives, when its chat takes it or sees to its release.
LEMMA ArrivalGood ==
    ASSUME IInv, NEW p \in Tuis, NEW w \in work[p], w.kind \in Arriving, NEW N, Continue(p, w, N),
           N \in SUBSET ItemOf(Met), NoLine(N),
           NEW t \in TuiOf(Met), tui' = [tui EXCEPT ![p] = t],
           UNCHANGED <<rows, owner, left>>, HistoryType, history.slips \subseteq history'.slips,
           t.busy = tui[p].busy, t.asks = tui[p].asks, t.subject = tui[p].subject,
           t.streaming = tui[p].streaming, t.live = tui[p].live, t.pending = tui[p].pending,
           \/ t.chat = tui[p].chat /\ t.leased = tui[p].leased
           \/ t.chat = w.s /\ t.leased = w.s /\ Some(N, Settling, w.s)
              /\ (LeftNow(p) \/ {tui[p].chat, tui[p].leased} \subseteq {None, w.s}),
           LeftNow(p) \/ t.leased = w.s \/ Some(N, Cleaning, w.s),
           p \notin Hasty => LeftNow(p) \/ ~Opens(p)
    PROVE  Good(p)
  <1> DEFINE G == {w}
  <1>1. StepOf(p) /\ tui'[p] = t BY MessageOf DEF IInv
  <1>2. Moves(work[p], work'[p], G, N) BY ContinueMoves DEF IInv
  <1>3. \A K, s : Some(G, K, s) <=> (w.kind \in K /\ w.s = s) BY DEF Some
  <1>4. NoLine(G) BY ArrivedKinds DEF NoLine
  <1> HIDE DEF G
  <1>5. ASSUME NEW K, NEW s
        PROVE  /\ Some(work[p], K, s) => Some(work'[p], K, s) \/ Some(G, K, s)
               /\ Some(N, K, s) => Some(work'[p], K, s)
    BY <1>2, MovesSome
  <1>6. \A s : ~Some(G, Trying, s) /\ ~Some(G, Settling, s) BY <1>3, ArrivedKinds
  <1>7. PendingAt(tui'[p], work'[p]) BY <1>1, <1>5, <1>6 DEF PendingAt, IInv
  <1>8. ASSUME p \notin Hasty
        PROVE  FieldStep(p) /\ ChatStep(p, G) /\ BeliefStep(p, G) /\ AccountStep(p, G)
    <2>1. FieldStep(p) BY <1>1, <1>8, CalmTurn DEF FieldStep
    <2>2. LeftNow(p) \/ tui[p].leased = None \/ tui[p].chat \in {None, tui[p].leased}
      BY <1>8 DEF IInv, CalmAt, ChatAt, LeftNow
    <2>3. ChatAt(t, LeftNow(p)) BY <2>2 DEF ChatAt
    <2>4. ChatStep(p, G) BY <1>1, <1>8, <2>3 DEF ChatStep
    <2>5. BeliefStep(p, G)
      <3>1. CASE t.leased = tui[p].leased BY <1>1, <1>6, <3>1 DEF BeliefStep
      <3>2. CASE t.leased # tui[p].leased BY <1>1, <1>5, <3>2 DEF BeliefStep
      <3> QED BY <3>1, <3>2
    <2>6. AccountStep(p, G)
      <3> SUFFICES ASSUME NEW s \in Sessions, owner'[s] = p, ~LeftNow(p), s \notin Counts(t),
                          ~Some(work'[p], Cleaning, s)
                   PROVE  owner[s] = p /\ ~Some(G, Cleaning, s) /\ s \notin Counts(tui[p])
        BY <1>1 DEF AccountStep
      <3>1. owner[s] = p /\ s \notin {t.chat, t.leased} /\ s \notin tui[p].pending BY DEF Counts
      <3>2. s # w.s BY <1>5, <3>1
      <3>3. s # None BY NoneAssumption
      <3> QED BY <1>3, <3>1, <3>2, <3>3 DEF Counts
    <2> QED BY <2>1, <2>4, <2>5, <2>6
  <1> QED BY <1>1, <1>2, <1>4, <1>7, <1>8, AsideGood

LEMMA BoundGood ==
    ASSUME IInv, NEW p \in Tuis, NEW w \in work[p], Bound(p, w)
    PROVE  Good(p)
  <1>1. BaseInv /\ tui[p] \in TuiOf(Met) /\ w.s \in Met /\ w.kind \in Arriving
        /\ UNCHANGED <<rows, owner, left>>
    BY ItemKind DEF IInv, BaseInv, Nameless, Bound, Arriving
  <1>2. HistoryType /\ history.slips \subseteq history'.slips
    BY <1>1, SlipTo, KeptTo DEF SameSlips, Slipped, Bound
  <1>3. To("run", w.s) \in ItemOf(Met) /\ To("beat", w.s) \in ItemOf(Met)
    BY <1>1, ArrivedKinds, Items
  <1>4. CASE tui[p].live
    <2> DEFINE N == {To("beat", w.s), To("run", w.s)}
               t == [tui[p] EXCEPT !.chat = w.s, !.leased = w.s, !.lost = FALSE, !.hero = w.s]
    <2>1. Continue(p, w, N) /\ tui' = [tui EXCEPT ![p] = t] BY <1>4 DEF Bound
    <2>2. N \in SUBSET ItemOf(Met) BY <1>3
    <2>3. NoLine(N) BY Single, ArrivedKinds DEF NoLine
    <2>4. Some(N, Settling, w.s)
      <3>1. To("beat", w.s).kind = "beat" /\ To("beat", w.s).s = w.s BY Single
      <3> QED BY <3>1, ArrivedKinds DEF Some
    <2>5. /\ t \in TuiOf(Met) /\ t.chat = w.s /\ t.leased = w.s
          /\ t.busy = tui[p].busy /\ t.asks = tui[p].asks /\ t.subject = tui[p].subject
          /\ t.streaming = tui[p].streaming /\ t.live = tui[p].live /\ t.pending = tui[p].pending
      BY <1>1 DEF TuiOf
    <2>6. LeftNow(p) \/ {tui[p].chat, tui[p].leased} \subseteq {None, w.s}
      BY <1>1, <1>4, SlipTo DEF Bound, Slipped, LeftNow
    <2>7. p \notin Hasty => ~Opens(p) BY <1>4, CalmTurn
    <2> HIDE DEF N, t
    <2> QED BY <1>1, <1>2, <2>1, <2>2, <2>3, <2>4, <2>5, <2>6, <2>7, ArrivalGood
  <1>5. CASE ~tui[p].live
    <2> DEFINE N == {To("run", w.s)}
    <2>1. Continue(p, w, N) /\ UNCHANGED tui /\ LeftNow(p)
      BY <1>1, <1>5, SlipTo DEF Bound, Slipped, LeftNow
    <2>2. N \in SUBSET ItemOf(Met) BY <1>3
    <2>3. NoLine(N) BY Single, ArrivedKinds DEF NoLine
    <2>4. tui' = [tui EXCEPT ![p] = tui[p]] BY <2>1, TuiSame
    <2> HIDE DEF N
    <2> QED BY <1>1, <1>2, <2>1, <2>2, <2>3, <2>4, ArrivalGood
  <1> QED BY <1>4, <1>5

LEMMA AttachedGood ==
    ASSUME IInv, NEW p \in Tuis, NEW w \in work[p], Attached(p, w)
    PROVE  Good(p)
  <1>1. BaseInv /\ tui[p] \in TuiOf(Met) /\ w.s \in Met /\ w.kind \in Arriving
        /\ UNCHANGED <<rows, owner, left>>
    BY ItemKind DEF IInv, BaseInv, Nameless, Attached, Arriving
  <1>2. HistoryType /\ history.slips \subseteq history'.slips
    BY <1>1, SlipTo, KeptTo DEF SameSlips, Slipped, Attached
  <1>3. To("release", w.s) \in ItemOf(Met) /\ To("beat", w.s) \in ItemOf(Met)
    BY <1>1, ArrivedKinds, Items
  <1>4. LeftNow(p) \/ ~Opens(p)
    BY <1>1, SlipTo, OpeningIs DEF Attached, Slipped, LeftNow
  <1>5. CASE tui[p].retry = w.s /\ tui[p].chat \in {None, w.s}
    <2> DEFINE N == {To("beat", w.s)}
               t == [tui[p] EXCEPT !.chat = w.s, !.leased = w.s, !.retry = None,
                                   !.lost = FALSE, !.blocked = FALSE]
    <2>1. Continue(p, w, N) /\ tui' = [tui EXCEPT ![p] = t] BY <1>5 DEF Attached
    <2>2. N \in SUBSET ItemOf(Met) BY <1>3
    <2>3. NoLine(N) BY Single, ArrivedKinds DEF NoLine
    <2>4. Some(N, Settling, w.s)
      <3>1. To("beat", w.s).kind = "beat" /\ To("beat", w.s).s = w.s BY Single
      <3> QED BY <3>1, ArrivedKinds DEF Some
    <2>5. /\ t \in TuiOf(Met) /\ t.chat = w.s /\ t.leased = w.s
          /\ t.busy = tui[p].busy /\ t.asks = tui[p].asks /\ t.subject = tui[p].subject
          /\ t.streaming = tui[p].streaming /\ t.live = tui[p].live /\ t.pending = tui[p].pending
      BY <1>1 DEF TuiOf
    <2>6. LeftNow(p) \/ {tui[p].chat, tui[p].leased} \subseteq {None, w.s}
      BY <1>1, <1>5, SlipTo DEF Attached, Slipped, LeftNow
    <2> HIDE DEF N, t
    <2> QED BY <1>1, <1>2, <1>4, <2>1, <2>2, <2>3, <2>4, <2>5, <2>6, ArrivalGood
  <1>6. CASE ~(tui[p].retry = w.s /\ tui[p].chat \in {None, w.s})
    <2> DEFINE N == {To("release", w.s)}
    <2>1. Continue(p, w, N) /\ UNCHANGED tui BY <1>6 DEF Attached
    <2>2. N \in SUBSET ItemOf(Met) BY <1>3
    <2>3. NoLine(N) BY Single, ArrivedKinds DEF NoLine
    <2>4. Some(N, Cleaning, w.s)
      <3>1. To("release", w.s).kind = "release" /\ To("release", w.s).s = w.s BY Single
      <3> QED BY <3>1, ArrivedKinds DEF Some
    <2>5. tui' = [tui EXCEPT ![p] = tui[p]] BY <2>1, TuiSame
    <2> HIDE DEF N
    <2> QED BY <1>1, <1>2, <1>4, <2>1, <2>2, <2>3, <2>4, <2>5, ArrivalGood
  <1> QED BY <1>5, <1>6

LEMMA NotSavedTo ==
    ASSUME NEW S, NEW t \in TuiOf(S), NEW w \in ItemOf(S)
    PROVE  LET u == NotSaved(t, w)
           IN /\ u \in TuiOf(S) /\ u.leased = t.leased /\ u.pending = t.pending
              /\ u.chat = IF t.chat = None THEN w.s ELSE t.chat
              /\ u.busy = t.busy /\ u.asks = t.asks /\ u.subject = t.subject
              /\ u.streaming = t.streaming /\ u.live = t.live
  <1>1. NotSaved(t, w) \in TuiOf(S) BY Fields
  <1> QED BY <1>1 DEF NotSaved, TuiOf

LEMMA PersistFailedGood ==
    ASSUME IInv, NEW p \in Tuis, NEW w \in work[p], PersistFailed(p, w)
    PROVE  Good(p)
  <1> DEFINE G == {w}
  <1>1. BaseInv /\ tui[p] \in TuiOf(Met) /\ w \in ItemOf(Met) /\ w.s \in Met
        /\ w.kind \in TurnKinds /\ UNCHANGED <<rows, owner, left>>
    BY ItemKind DEF IInv, BaseInv, Nameless, PersistFailed, TurnKinds
  <1>2. Idle(G) BY <1>1, TurnIdle
  <1>3. ASSUME NEW N, Continue(p, w, N), N = {} \/ N = {To("failed", w.s)},
               tui' = [tui EXCEPT ![p] = NotSaved(@, w)],
               IF /\ tui[p].chat = None /\ tui[p].leased # w.s
                  /\ Opening(p) \/ tui[p].leased # None
               THEN Slip(p, "left") ELSE UNCHANGED history
        PROVE  Good(p)
    <2> DEFINE t == NotSaved(tui[p], w)
    <2>1. N \in SUBSET ItemOf(Met)
      <3>1. To("failed", w.s) \in ItemOf(Met) BY <1>1, ArrivedKinds, Items
      <3> QED BY <1>3, <3>1
    <2>2. NoLine(N) BY <1>3, Single, ArrivedKinds DEF NoLine
    <2>3. HistoryType /\ history.slips \subseteq history'.slips
      BY <1>1, <1>3, SlipTo, KeptTo DEF SameSlips, Slipped
    <2>4. /\ t \in TuiOf(Met) /\ t.leased = tui[p].leased /\ t.pending = tui[p].pending
          /\ t.chat = IF tui[p].chat = None THEN w.s ELSE tui[p].chat
          /\ t.busy = tui[p].busy /\ t.asks = tui[p].asks /\ t.subject = tui[p].subject
          /\ t.streaming = tui[p].streaming /\ t.live = tui[p].live
      BY <1>1, NotSavedTo
    <2>5. tui' = [tui EXCEPT ![p] = t] BY <1>3
    <2>6. (tui[p].chat = None /\ tui[p].leased # w.s /\ (Opens(p) \/ tui[p].leased # None))
             => LeftNow(p)
      BY <1>1, <1>3, SlipTo, OpeningIs DEF Slipped, LeftNow
    <2> HIDE DEF t
    <2>7. StepOf(p) /\ tui'[p] = t BY <1>1, <1>3, <2>1, <2>3, <2>4, <2>5, MessageOf
    <2>8. Moves(work[p], work'[p], G, N) BY <1>1, <1>3, ContinueMoves
    <2>9. NoLine(G) /\ \A K, s : Some(G, K, s) <=> (w.kind \in K /\ w.s = s)
      BY <1>2 DEF Idle, NoLine, Some
    <2> HIDE DEF G
    <2>10. \A s : ~Some(G, Trying, s) /\ ~Some(G, Settling, s) /\ ~Some(G, Arriving, s)
                  /\ ~Some(G, Cleaning, s)
      BY <1>1, <2>9, TurnItem
    <2>11. PendingAt(tui'[p], work'[p])
      <3>1. ASSUME NEW s, Some(work[p], Trying, s) PROVE Some(work'[p], Trying, s)
        BY <2>8, <2>10, <3>1, MovesSome
      <3> QED BY <2>4, <2>7, <3>1 DEF PendingAt, IInv
    <2>12. ASSUME p \notin Hasty
           PROVE  FieldStep(p) /\ ChatStep(p, G) /\ BeliefStep(p, G) /\ AccountStep(p, G)
      <3>1. FieldStep(p) BY <2>4, <2>7, <2>12, CalmTurn DEF FieldStep
      <3>2. LeftNow(p) \/ tui[p].leased = None \/ tui[p].chat \in {None, tui[p].leased}
        BY <2>3, <2>12 DEF IInv, CalmAt, ChatAt, LeftNow
      <3>3. ChatAt(t, LeftNow(p)) BY <2>4, <2>6, <3>2 DEF ChatAt
      <3>4. ChatStep(p, G) BY <1>1, <2>4, <2>6, <2>7, <2>10, <3>3 DEF ChatStep
      <3>5. BeliefStep(p, G) BY <1>1, <2>4, <2>7, <2>10 DEF BeliefStep
      <3>6. AccountStep(p, G) BY <1>1, <2>4, <2>7, <2>10, NoneAssumption DEF AccountStep, Counts
      <3> QED BY <3>1, <3>4, <3>5, <3>6
    <2> QED BY <2>2, <2>7, <2>8, <2>9, <2>11, <2>12, AsideGood
  <1>4. CASE Continue(p, w, {}) /\ UNCHANGED <<tui, history>>
    <2> DEFINE N == {}
    <2>1. N \in SUBSET ItemOf(Met) /\ NoLine(N) BY DEF NoLine
    <2>2. Continue(p, w, N) BY <1>4
    <2> HIDE DEF N, G
    <2> QED BY <1>1, <1>2, <1>4, <2>1, <2>2, TuiSame, CalmTurn, SaveGood DEF G, database
  <1> QED BY <1>3, <1>4 DEF PersistFailed

-----------------------------------------------------------------------------
(* Steps of the line.                                                      *)

OfLine(w) == w.kind \in HKinds \cup LKinds
InLine(S) == \A w \in S : OfLine(w)

LEMMA LineKinds ==
    ASSUME NEW w, OfLine(w)
    PROVE  w.kind \notin Trying \cup Settling \cup Arriving \cup Cleaning
  BY DEF OfLine, HKinds, LKinds, Trying, Releasing, Settling, LeaseCalls, Arriving, Cleaning

\* What the line's items settle is theirs; other items stay.
LEMMA LineSome ==
    ASSUME NEW p, NEW G, NEW N, InLine(G), Moves(work[p], work'[p], G, N),
           NEW K \in {Trying, Settling, Arriving, Cleaning}, NEW s
    PROVE  Some(work[p], K, s) \/ Some(N, K, s) => Some(work'[p], K, s)
  <1>1. ~Some(G, K, s) BY LineKinds DEF Some, InLine
  <1> QED BY <1>1, MovesSome

\* The line of a calm TUI is one item, or none.
LEMMA LineIs ==
    ASSUME IInv, NEW p \in Tuis, p \notin Hasty, NEW G, NEW N,
           Moves(work[p], work'[p], G, N), Line(work[p]) \subseteq G
    PROVE  Line(work'[p]) = Line(N)
  BY MovesLine

LEMMA OneLine ==
    ASSUME IInv, NEW p \in Tuis, p \notin Hasty, NEW w \in work[p], OfLine(w)
    PROVE  /\ Line(work[p]) = {w} /\ Opens(p)
           /\ w.kind \in HKinds => tui[p].busy /\ (tui[p].asks = "import" => w.kind \in ImportKinds)
           /\ w.kind \in LKinds => ~tui[p].busy /\ tui[p].asks = "nothing"
           /\ w.kind \in ImportKinds => tui[p].asks = "import" /\ w.s = tui[p].subject
  <1>1. LineAt(tui[p], Line(work[p])) BY DEF IInv, CalmAt
  <1>2. w \in Line(work[p]) BY DEF Line, OfLine
  <1>3. Line(work[p]) = {w} BY <1>1, <1>2 DEF LineAt
  <1> QED BY <1>1, <1>2, <1>3 DEF LineAt, Opens, OpeningAt, OfLine

\* A step that takes the line of p from the items G to the items of N.
LEMMA LineGood ==
    ASSUME IInv, NEW p \in Tuis, StepOf(p), NEW G, NEW N,
           Moves(work[p], work'[p], G, N), InLine(G),
           \A s \in tui'[p].pending : s \in tui[p].pending \/ Some(N, Trying, s),
           p \notin Hasty => CalmNow(p)
    PROVE  Good(p)
  <1>1. PendingAt(tui'[p], work'[p]) BY LineSome DEF PendingAt, IInv
  <1> QED BY <1>1 DEF Good

\* The parts of the invariant before the step.
LEMMA CalmParts ==
    ASSUME IInv, NEW p \in Tuis, p \notin Hasty, history.slips \subseteq history'.slips
    PROVE  /\ TurnAt(tui[p], Line(work[p]))
           /\ ChatAt(tui[p], LeftNow(p))
           /\ PriorAt(tui[p], Line(work[p]), LeftNow(p))
           /\ LeftAt(p, tui[p], work[p], owner, LeftNow(p))
           /\ HeldAt(p, tui[p], work[p], owner, rows, GoneNow(p))
           /\ BehindAt(p, tui[p], work[p], owner, LeftNow(p))
  <1>1. CalmAt(p, tui[p], work[p], rows, owner, history.slips) BY DEF IInv
  <1>2. <<p, "left">> \in history.slips => LeftNow(p) BY DEF LeftNow
  <1>3. (<<p, "late">> \in history.slips \/ <<p, "gone">> \in history.slips) => GoneNow(p) BY DEF GoneNow
  <1>4. ChatAt(tui[p], LeftNow(p)) BY <1>1, <1>2 DEF CalmAt, ChatAt
  <1>5. PriorAt(tui[p], Line(work[p]), LeftNow(p)) BY <1>1, <1>2 DEF CalmAt, PriorAt
  <1>6. LeftAt(p, tui[p], work[p], owner, LeftNow(p))
    <2>1. \A s : LeftFor(p, tui[p], work[p], owner, <<p, "left">> \in history.slips, s)
                    => LeftFor(p, tui[p], work[p], owner, LeftNow(p), s)
      BY <1>2 DEF LeftFor
    <2> QED BY <1>1, <2>1 DEF CalmAt, LeftAt
  <1>7. HeldAt(p, tui[p], work[p], owner, rows, GoneNow(p)) BY <1>1, <1>3 DEF CalmAt, HeldAt
  <1>8. BehindAt(p, tui[p], work[p], owner, LeftNow(p)) BY <1>1, <1>2 DEF CalmAt, BehindAt
  <1> QED BY <1>1, <1>4, <1>5, <1>6, <1>7, <1>8 DEF CalmAt

-----------------------------------------------------------------------------
(* Database calls of the line.                                             *)

\* The call of item w of the line that goes on as item n: the fields of History
\* are those of both, what n leaves is the chat's session, the lease it gives up
\* is left for the session that it opens, and the one that it takes is its own.
LEMMA LineCallGood ==
    ASSUME IInv, NEW p \in Tuis, NEW w \in work[p], OfLine(w), NEW n, OfLine(n),
           StepOf(p), tui'[p] = tui[p], Moves(work[p], work'[p], {w}, {n}),
           w.kind \in LKinds <=> n.kind \in LKinds,
           w.kind \in ImportKinds <=> n.kind \in ImportKinds,
           w.kind \in ImportKinds => n.s = w.s /\ owner' = owner,
           w.kind # "opened",
           p \notin Hasty => PriorAt(tui[p], {n}, LeftNow(p)),
           (p \notin Hasty /\ n.kind = "opened") =>
              LeftFor(p, tui[p], work'[p], owner', LeftNow(p), n.s),
           (tui[p].leased \in Sessions /\ owner[tui[p].leased] = p /\ owner'[tui[p].leased] # p) =>
              GoneNow(p) \/ n.kind = "opened" \/ rows'[tui[p].leased] # "kept",
           \A s \in Sessions : owner'[s] = p => owner[s] = p \/ TakesItem(n, s),
           \A s \in Sessions : (TakesItem(w, s) /\ owner'[s] = p) =>
              TakesItem(n, s) \/ s \in Counts(tui[p]) \/ LeftNow(p)
    PROVE  Good(p)
  <1> DEFINE G == {w}
             N == {n}
             t == tui[p]
  <1>1. InLine(G) BY DEF InLine
  <1>2. Moves(work[p], work'[p], G, N) OBVIOUS
  <1>3. Line(N) = {n} BY DEF Line, OfLine
  <1>4. n.kind \in HKinds \/ n.kind \in LKinds BY DEF OfLine
  <1>5. w.kind \in HKinds \/ w.kind \in LKinds BY DEF OfLine
  <1>6. \A k \in HKinds : k \notin LKinds BY DEF HKinds, LKinds
  <1>7. \A k \in ImportKinds : k \in HKinds BY DEF HKinds, ImportKinds
  <1>8. history.slips \subseteq history'.slips BY DEF StepOf, DbStep
  <1> HIDE DEF N
  <1>9. ASSUME p \notin Hasty PROVE CalmNow(p)
    <2>1. /\ Line(work[p]) = {w} /\ Opens(p)
          /\ w.kind \in HKinds => t.busy /\ (t.asks = "import" => w.kind \in ImportKinds)
          /\ w.kind \in LKinds => ~t.busy /\ t.asks = "nothing"
          /\ w.kind \in ImportKinds => t.asks = "import" /\ w.s = t.subject
      BY <1>9, OneLine
    <2>2. Line(work'[p]) = {n} BY <1>2, <1>3, <1>9, <2>1, LineIs
    <2>3. /\ TurnAt(t, {w})
          /\ ChatAt(t, LeftNow(p))
          /\ LeftAt(p, t, work[p], owner, LeftNow(p))
          /\ HeldAt(p, t, work[p], owner, rows, GoneNow(p))
          /\ BehindAt(p, t, work[p], owner, LeftNow(p))
      BY <1>8, <1>9, <2>1, CalmParts
    <2>4. LineAt(t, {n}) BY <1>4, <1>5, <1>6, <1>7, <2>1 DEF LineAt
    <2>5. TurnAt(t, {n}) BY <2>3 DEF TurnAt, OpeningAt
    <2>6. \A K \in {Trying, Settling, Arriving, Cleaning} : \A s :
             Some(work[p], K, s) => Some(work'[p], K, s)
      BY <1>1, <1>2, LineSome
    <2> HIDE DEF G
    <2>7. LeftAt(p, t, work'[p], owner', LeftNow(p))
      <3>1. ASSUME t.asks = "import" PROVE LeftFor(p, t, work'[p], owner', LeftNow(p), t.subject)
        <4>1. owner' = owner BY <1>5, <2>1, <3>1
        <4>2. LeftFor(p, t, work[p], owner, LeftNow(p), t.subject) BY <2>3, <3>1 DEF LeftAt
        <4> QED BY <2>6, <4>1, <4>2 DEF LeftFor
      <3> QED BY <1>9, <2>2, <3>1 DEF LeftAt
    <2>8. HeldAt(p, t, work'[p], owner', rows', GoneNow(p))
      <3>1. ASSUME t.leased \in Sessions, rows'[t.leased] = "kept" PROVE rows[t.leased] = "kept"
        <4>1. t.leased \in Met \cup {None} BY DEF IInv, BaseInv, TuiOf
        <4> QED BY <3>1, <4>1, MetGrows, NoneAssumption DEF StepOf
      <3>2. SwitchingAt(t, {w}) => t.asks = "import" BY <2>1 DEF SwitchingAt
      <3>3. (t.asks = "import" \/ n.kind = "opened") => SwitchingAt(t, {n}) BY DEF SwitchingAt
      <3> QED BY <2>1, <2>2, <2>3, <2>6, <3>1, <3>2, <3>3 DEF HeldAt
    <2>9. BehindAt(p, t, work'[p], owner', LeftNow(p))
      BY <2>1, <2>2, <2>3, <2>6 DEF BehindAt, Counts
    <2> QED BY <1>9, <2>2, <2>3, <2>4, <2>5, <2>7, <2>8, <2>9 DEF CalmNow, CalmAt, LeftNow, GoneNow
  <1>10. \A s \in tui'[p].pending : s \in tui[p].pending OBVIOUS
  <1> HIDE DEF G
  <1> QED BY <1>1, <1>2, <1>9, <1>10, LineGood

\* What the line leaves, after the step.
LEMMA PriorOf ==
    ASSUME IInv, NEW p \in Tuis, p \notin Hasty, NEW w \in work[p], OfLine(w),
           history.slips \subseteq history'.slips
    PROVE  PriorAt(tui[p], {w}, LeftNow(p))
  <1>1. Line(work[p]) = {w} BY OneLine
  <1> QED BY <1>1, CalmParts

\* The same of a call that goes on with one item.
LEMMA LineCallOne ==
    ASSUME IInv, NEW p \in Tuis, NEW w \in work[p], OfLine(w), NEW n \in ItemOf(Met'), OfLine(n),
           Continue(p, w, {n}), DbStep(p), UNCHANGED tui,
           w.kind \in LKinds <=> n.kind \in LKinds,
           w.kind \in ImportKinds <=> n.kind \in ImportKinds,
           w.kind \in ImportKinds => n.s = w.s /\ owner' = owner,
           w.kind # "opened",
           p \notin Hasty => PriorAt(tui[p], {n}, LeftNow(p)),
           (p \notin Hasty /\ n.kind = "opened") =>
              LeftFor(p, tui[p], work'[p], owner', LeftNow(p), n.s),
           (tui[p].leased \in Sessions /\ owner[tui[p].leased] = p /\ owner'[tui[p].leased] # p) =>
              GoneNow(p) \/ n.kind = "opened" \/ rows'[tui[p].leased] # "kept",
           \A s \in Sessions : owner'[s] = p => owner[s] = p \/ TakesItem(n, s),
           \A s \in Sessions : (TakesItem(w, s) /\ owner'[s] = p) =>
              TakesItem(n, s) \/ s \in Counts(tui[p]) \/ LeftNow(p)
    PROVE  Good(p)
  <1> DEFINE N == {n}
  <1>1. N \in SUBSET ItemOf(Met') /\ Continue(p, w, N) OBVIOUS
  <1> HIDE DEF N
  <1>2. StepOf(p) /\ tui'[p] = tui[p] /\ Moves(work[p], work'[p], {w}, N)
    BY <1>1, CallOf, ContinueMoves DEF IInv
  <1> QED BY <1>2, LineCallGood DEF N

\* One that takes or leaves no lease, and ends as a message that leaves nothing.
LEMMA LineEndGood ==
    ASSUME IInv, NEW p \in Tuis, NEW w \in work[p], OfLine(w), NEW n \in ItemOf(Met'), OfLine(n),
           Continue(p, w, {n}), DbStep(p), UNCHANGED <<tui, owner>>,
           w.kind \in LKinds <=> n.kind \in LKinds,
           w.kind \in ImportKinds <=> n.kind \in ImportKinds,
           w.kind \in ImportKinds => n.s = w.s,
           w.kind # "opened", n.kind # "opened",
           n.kind \in LKinds => n.s = w.s,
           n.kind \notin Leaving,
           \A s : TakesItem(w, s) => TakesItem(n, s)
    PROVE  Good(p)
  <1>1. ASSUME p \notin Hasty PROVE PriorAt(tui[p], {n}, LeftNow(p))
    <2>1. PriorAt(tui[p], {w}, LeftNow(p)) BY <1>1, PriorOf DEF DbStep
    <2> QED BY <2>1 DEF PriorAt, Leaving
  <1> QED BY <1>1, LineCallOne

LineMessages == {"openFailed", "needFork", "removed", "removeFailed"}

\* What ends without opening anything takes none but the leases it lists.
LEMMA LineMessage ==
    ASSUME NEW n, n.kind \in LineMessages
    PROVE  /\ OfLine(n) /\ n.kind \in Kinds /\ n.kind \notin Leaving \cup LKinds \cup ImportKinds
           /\ n.kind # "opened"
           /\ n.kind \in {"openFailed", "needFork"} => \A s \in n.others : TakesItem(n, s)
  BY DEF LineMessages, OfLine, HKinds, LKinds, ImportKinds, Leaving, TakesItem, Kinds, Messages

LEMMA OpenTargetGood ==
    ASSUME IInv, NEW p \in Tuis, NEW w \in work[p], OpenTarget(p, w)
    PROVE  Good(p)
  <1>1. BaseInv /\ w \in ItemOf(Met) /\ w.s \in Met BY ItemKind DEF IInv, Nameless, OpenTarget
  <1>2. w.kind = "open" /\ UNCHANGED tui BY DEF OpenTarget
  <1>3. /\ OfLine(w) /\ w.kind \notin LKinds \cup ImportKinds /\ \A s : ~TakesItem(w, s)
    BY <1>2 DEF OfLine, HKinds, LKinds, ImportKinds, TakesItem
  <1>4. CASE Acquire(p, w.s) /\ Continue(p, w, {Becomes(w, "bump")}) /\ UNCHANGED history
    <2>1. HistoryType /\ history.slips \subseteq history'.slips BY <1>1, <1>4, KeptTo DEF SameSlips
    <2>2. /\ DbStep(p) /\ UNCHANGED rows /\ owner'[w.s] = p
          /\ \A r \in Sessions : r # w.s => owner'[r] = owner[r]
      BY <1>1, <1>4, <2>1, AcquireTo
    <2> DEFINE n == Becomes(w, "bump")
    <2>3. n \in ItemOf(Met') BY <1>1, <2>2, Items DEF Kinds, HistoryCalls, Met
    <2>4. n.kind = "bump" /\ n.s = w.s /\ n.others = w.others BY <1>1, Single
    <2>5. Continue(p, w, {n}) BY <1>4
    <2> HIDE DEF n
    <2>6. ASSUME p \notin Hasty PROVE PriorAt(tui[p], {n}, LeftNow(p))
      <3>1. PriorAt(tui[p], {w}, LeftNow(p)) BY <1>3, <2>1, <2>6, PriorOf
      <3> QED BY <1>2, <2>4, <3>1 DEF PriorAt, Leaving, LKinds
    <2>7. OfLine(n) /\ n.kind \notin LKinds \cup ImportKinds /\ TakesItem(n, w.s)
      BY <2>4 DEF OfLine, HKinds, LKinds, ImportKinds, TakesItem
    <2> QED BY <1>2, <1>3, <2>2, <2>3, <2>4, <2>5, <2>6, <2>7, LineCallOne
  <1>5. CASE CannotAcquire(p, w.s) /\ Continue(p, w, {To("openFailed", w.s)})
    <2>1. DbStep(p) /\ Met' = Met /\ owner' = owner BY <1>1, <1>5, CannotAcquireTo DEF Met
    <2> DEFINE n == To("openFailed", w.s)
    <2>2. n \in ItemOf(Met') BY <1>1, <2>1, Items DEF Kinds, Messages
    <2>3. n.kind = "openFailed" BY Single
    <2>4. Continue(p, w, {n}) BY <1>5
    <2> HIDE DEF n
    <2> QED BY <1>2, <1>3, <2>1, <2>2, <2>3, <2>4, LineMessage, LineEndGood DEF LineMessages
  <1> QED BY <1>4, <1>5 DEF OpenTarget

LEMMA ForkLeaseGood ==
    ASSUME IInv, NEW p \in Tuis, NEW w \in work[p], ForkLease(p, w)
    PROVE  Good(p)
  <1>1. BaseInv /\ w \in ItemOf(Met) /\ w.s \in Met BY ItemKind DEF IInv, Nameless, ForkLease
  <1>2. w.kind = "forkLease" /\ UNCHANGED tui BY DEF ForkLease
  <1>3. /\ OfLine(w) /\ w.kind \notin LKinds \cup ImportKinds /\ \A s : ~TakesItem(w, s)
    BY <1>2 DEF OfLine, HKinds, LKinds, ImportKinds, TakesItem
  <1>4. CASE Acquire(p, w.s) /\ Continue(p, w, {[Becomes(w, "bump") EXCEPT !.flag = TRUE]})
             /\ UNCHANGED history
    <2>1. HistoryType /\ history.slips \subseteq history'.slips BY <1>1, <1>4, KeptTo DEF SameSlips
    <2>2. /\ DbStep(p) /\ UNCHANGED rows /\ owner'[w.s] = p
          /\ \A r \in Sessions : r # w.s => owner'[r] = owner[r]
      BY <1>1, <1>4, <2>1, AcquireTo
    <2> DEFINE n == [Becomes(w, "bump") EXCEPT !.flag = TRUE]
    <2>3. Becomes(w, "bump") \in ItemOf(Met') BY <1>1, <2>2, Items DEF Kinds, HistoryCalls, Met
    <2>4. n \in ItemOf(Met') BY <2>3, Items
    <2>5. n.kind = "bump" /\ n.s = w.s /\ n.others = w.others BY <1>1 DEF ItemOf, Becomes
    <2>6. Continue(p, w, {n}) BY <1>4
    <2> HIDE DEF n
    <2>7. ASSUME p \notin Hasty PROVE PriorAt(tui[p], {n}, LeftNow(p))
      <3>1. PriorAt(tui[p], {w}, LeftNow(p)) BY <1>3, <2>1, <2>7, PriorOf
      <3> QED BY <1>2, <2>5, <3>1 DEF PriorAt, Leaving, LKinds
    <2>8. OfLine(n) /\ n.kind \notin LKinds \cup ImportKinds /\ TakesItem(n, w.s)
      BY <2>5 DEF OfLine, HKinds, LKinds, ImportKinds, TakesItem
    <2> QED BY <1>2, <1>3, <2>2, <2>4, <2>5, <2>6, <2>7, <2>8, LineCallOne
  <1>5. CASE CannotAcquire(p, w.s) /\ Continue(p, w, {To("openFailed", w.s)})
    <2>1. DbStep(p) /\ Met' = Met /\ owner' = owner BY <1>1, <1>5, CannotAcquireTo DEF Met
    <2> DEFINE n == To("openFailed", w.s)
    <2>2. n \in ItemOf(Met') BY <1>1, <2>1, Items DEF Kinds, Messages
    <2>3. n.kind = "openFailed" BY Single
    <2>4. Continue(p, w, {n}) BY <1>5
    <2> HIDE DEF n
    <2> QED BY <1>2, <1>3, <2>1, <2>2, <2>3, <2>4, LineMessage, LineEndGood DEF LineMessages
  <1> QED BY <1>4, <1>5 DEF ForkLease

LEMMA ForkGood ==
    ASSUME IInv, NEW p \in Tuis, NEW w \in work[p], Fork(p, w)
    PROVE  Good(p)
  <1>1. BaseInv /\ w \in ItemOf(Met) /\ w.s \in Met /\ w.others \subseteq Met
    BY ItemKind DEF IInv, Nameless, Fork
  <1>2. w.kind = "fork" /\ UNCHANGED tui BY DEF Fork
  <1>3. /\ OfLine(w) /\ w.kind \notin LKinds \cup ImportKinds /\ \A s : ~TakesItem(w, s)
    BY <1>2 DEF OfLine, HKinds, LKinds, ImportKinds, TakesItem
  <1>4. ASSUME NEW m \in New, rows' = [rows EXCEPT ![m] = "kept"],
               Continue(p, w, {Of("forkLease", m, w.others)}), UNCHANGED <<owner, left, history>>
        PROVE  Good(p)
    <2>1. DbStep(p) /\ m \in Met' BY <1>1, <1>4, NewRow
    <2>2. w.others \in SUBSET (Met') /\ history.slips \subseteq history'.slips
      BY <1>1, <2>1, MetGrows DEF DbStep
    <2> DEFINE n == Of("forkLease", m, w.others)
    <2>3. n \in ItemOf(Met') BY <2>1, <2>2, Items DEF Kinds, HistoryCalls
    <2>4. n.kind = "forkLease" /\ n.others = w.others BY Single
    <2>5. Continue(p, w, {n}) BY <1>4
    <2> HIDE DEF n
    <2>6. ASSUME p \notin Hasty PROVE PriorAt(tui[p], {n}, LeftNow(p))
      <3>1. PriorAt(tui[p], {w}, LeftNow(p)) BY <1>3, <2>2, <2>6, PriorOf
      <3> QED BY <1>2, <2>4, <3>1 DEF PriorAt, Leaving, LKinds
    <2>7. OfLine(n) /\ n.kind \notin LKinds \cup ImportKinds
      BY <2>4 DEF OfLine, HKinds, LKinds, ImportKinds
    <2> QED BY <1>2, <1>3, <1>4, <2>1, <2>3, <2>4, <2>5, <2>6, <2>7, LineCallOne
  <1>5. CASE FailsUnless(w.s \notin Exist) /\ Continue(p, w, {To("openFailed", w.s)})
             /\ UNCHANGED <<rows, owner, left>>
    <2>1. HistoryType /\ SameSlips BY <1>1, <1>5, FailsUnlessTo
    <2>2. DbStep(p) /\ Met' = Met /\ owner' = owner
      BY <1>1, <1>5, <2>1, QuietDb DEF Met, SameSlips
    <2> DEFINE n == To("openFailed", w.s)
    <2>3. n \in ItemOf(Met') BY <1>1, <2>2, Items DEF Kinds, Messages
    <2>4. n.kind = "openFailed" BY Single
    <2>5. Continue(p, w, {n}) BY <1>5
    <2> HIDE DEF n
    <2> QED BY <1>2, <1>3, <2>2, <2>3, <2>4, <2>5, LineMessage, LineEndGood DEF LineMessages
  <1> QED BY <1>4, <1>5 DEF Fork

LEMMA BumpEpochGood ==
    ASSUME IInv, NEW p \in Tuis, NEW w \in work[p], BumpEpoch(p, w)
    PROVE  Good(p)
  <1>1. BaseInv /\ w \in ItemOf(Met) /\ w.s \in Met /\ w.others \subseteq Met
    BY ItemKind DEF IInv, Nameless, BumpEpoch
  <1>2. w.kind = "bump" /\ UNCHANGED <<tui, database>> BY DEF BumpEpoch
  <1>3. /\ OfLine(w) /\ w.kind \notin LKinds \cup ImportKinds
        /\ \A s : TakesItem(w, s) => s = w.s
    BY <1>2 DEF OfLine, HKinds, LKinds, ImportKinds, TakesItem
  <1> DEFINE next == IF ~w.flag THEN "validate" ELSE IF w.others \ {w.s} # {} THEN "leave" ELSE "opened"
             n == [w EXCEPT !.kind = next, !.others = @ \ {w.s}]
             N == {n}
             G == {w}
  <1>4. n \in ItemOf(Met) /\ n.kind = next /\ n.s = w.s /\ n.others = w.others \ {w.s}
    BY <1>1 DEF ItemOf, Kinds, HistoryCalls, Messages
  <1>5. work' = [work EXCEPT ![p] = Bumped(work[p] \ G, w.s) \cup N] BY DEF BumpEpoch
  <1>6. next \in {"validate", "leave", "opened"} /\ (next = "opened" => w.others \ {w.s} = {})
    OBVIOUS
  <1> HIDE DEF next, n
  <1>7. DbStep(p) /\ Met' = Met /\ owner' = owner /\ rows' = rows
        /\ history.slips \subseteq history'.slips
    BY <1>1, <1>2, KeptTo, QuietDb DEF SameSlips, Met, database
  <1>8. work[p] \in SUBSET ItemOf(Met) /\ tui[p] \in TuiOf(Met) /\ work'[p] = Bumped(work[p] \ G, w.s) \cup N
    BY <1>1, <1>5 DEF BaseInv
  <1>9. Moves(work[p], work'[p], G, N) BY <1>8, BumpMoves
  <1>10. StepOf(p) /\ tui'[p] = tui[p]
    <2>1. Bumped(work[p] \ G, w.s) \in SUBSET ItemOf(Met) BY <1>8, BumpedItems
    <2>2. work'[p] \in SUBSET ItemOf(Met') BY <1>4, <1>7, <1>8, <2>1
    <2>3. work' = [work EXCEPT ![p] = work'[p]] BY <1>1, <1>5, <1>8 DEF BaseInv
    <2>4. tui' = [tui EXCEPT ![p] = tui'[p]] /\ tui'[p] = tui[p] BY <1>1, <1>2 DEF BaseInv
    <2> QED BY <1>7, <1>8, <2>2, <2>3, <2>4 DEF StepOf
  <1>11. OfLine(n) /\ n.kind \notin LKinds \cup ImportKinds /\ TakesItem(n, w.s)
    BY <1>4, <1>6 DEF OfLine, HKinds, LKinds, ImportKinds, TakesItem
  <1> HIDE DEF G
  <1>12. ASSUME p \notin Hasty
         PROVE  /\ PriorAt(tui[p], {n}, LeftNow(p))
                /\ n.kind = "opened" => LeftFor(p, tui[p], work'[p], owner', LeftNow(p), n.s)
    <2>1. PriorAt(tui[p], {w}, LeftNow(p)) BY <1>3, <1>7, <1>12, PriorOf
    <2>2. (LeftNow(p) \/ Within(tui[p], w.others)) /\ (\A r, q \in w.others : r = q)
      BY <1>2, <2>1 DEF PriorAt, Leaving
    <2>3. PriorAt(tui[p], {n}, LeftNow(p))
      <3>1. LeftNow(p) \/ Within(tui[p], n.others \cup {n.s}) BY <1>4, <2>2 DEF Within
      <3>2. \A r, q \in n.others : r = q BY <1>4, <2>2
      <3> QED BY <1>4, <1>6, <3>1, <3>2 DEF PriorAt, LKinds
    <2>4. ASSUME n.kind = "opened" PROVE LeftFor(p, tui[p], work'[p], owner', LeftNow(p), n.s)
      BY <1>4, <1>6, <2>2, <2>4 DEF LeftFor, Within
    <2> QED BY <2>3, <2>4
  <1> QED BY <1>3, <1>7, <1>9, <1>10, <1>11, <1>12, LineCallGood, <1>2 DEF G

LEMMA ValidateGood ==
    ASSUME IInv, NEW p \in Tuis, NEW w \in work[p], Validate(p, w)
    PROVE  Good(p)
  <1>1. BaseInv /\ w \in ItemOf(Met) /\ w.s \in Met /\ w.others \subseteq Met
    BY ItemKind DEF IInv, Nameless, Validate
  <1>2. w.kind = "validate" /\ UNCHANGED <<tui, database>> BY DEF Validate
  <1>3. /\ OfLine(w) /\ w.kind \notin LKinds \cup ImportKinds /\ w.kind # "opened"
        /\ \A s : TakesItem(w, s) => s = w.s
    BY <1>2 DEF OfLine, HKinds, LKinds, ImportKinds, TakesItem
  <1>4. DbStep(p) /\ Met' = Met /\ owner' = owner /\ UNCHANGED tui
        /\ history.slips \subseteq history'.slips
    BY <1>1, <1>2, KeptTo, QuietDb DEF SameSlips, Met, database
  <1>5. CASE Continue(p, w, {Becomes(w, IF w.others = {} THEN "opened" ELSE "leave")})
    <2> DEFINE n == Becomes(w, IF w.others = {} THEN "opened" ELSE "leave")
    <2>1. n \in ItemOf(Met') BY <1>1, <1>4, Items DEF Kinds, HistoryCalls, Messages
    <2>2. /\ n.kind = IF w.others = {} THEN "opened" ELSE "leave"
          /\ n.s = w.s /\ n.others = w.others
      BY <1>1, Single
    <2>3. Continue(p, w, {n}) BY <1>5
    <2> HIDE DEF n
    <2>4. OfLine(n) /\ n.kind \notin LKinds \cup ImportKinds /\ TakesItem(n, w.s)
      BY <2>2 DEF OfLine, HKinds, LKinds, ImportKinds, TakesItem
    <2>5. ASSUME p \notin Hasty
          PROVE  /\ PriorAt(tui[p], {n}, LeftNow(p))
                 /\ n.kind = "opened" => LeftFor(p, tui[p], work'[p], owner', LeftNow(p), n.s)
      <3>1. PriorAt(tui[p], {w}, LeftNow(p)) BY <1>3, <1>4, <2>5, PriorOf
      <3>2. LeftNow(p) \/ Within(tui[p], w.others \cup {w.s}) BY <1>2, <3>1 DEF PriorAt
      <3>3. PriorAt(tui[p], {n}, LeftNow(p)) BY <1>2, <2>2, <3>1 DEF PriorAt, Leaving, LKinds
      <3>4. ASSUME n.kind = "opened" PROVE LeftFor(p, tui[p], work'[p], owner', LeftNow(p), n.s)
        BY <2>2, <3>2, <3>4 DEF LeftFor, Within
      <3> QED BY <3>3, <3>4
    <2> QED BY <1>3, <1>4, <2>1, <2>3, <2>4, <2>5, LineCallOne
  <1>6. ASSUME NEW fork \in BOOLEAN, Continue(p, w, {[To("undo", w.s) EXCEPT !.flag = fork]})
        PROVE  Good(p)
    <2> DEFINE n == [To("undo", w.s) EXCEPT !.flag = fork]
    <2>1. To("undo", w.s) \in ItemOf(Met') BY <1>1, <1>4, Items DEF Kinds, HistoryCalls
    <2>2. n \in ItemOf(Met') BY <2>1, Items
    <2>3. n.kind = "undo" /\ n.s = w.s BY DEF To, Of
    <2>4. Continue(p, w, {n}) BY <1>6
    <2> HIDE DEF n
    <2>5. OfLine(n) /\ n.kind \notin LKinds \cup ImportKinds \cup Leaving /\ n.kind # "opened"
          /\ TakesItem(n, w.s)
      BY <2>3 DEF OfLine, HKinds, LKinds, ImportKinds, TakesItem, Leaving
    <2> QED BY <1>3, <1>4, <2>2, <2>4, <2>5, LineEndGood
  <1> QED BY <1>5, <1>6 DEF Validate

LEMMA LeaveGood ==
    ASSUME IInv, NEW p \in Tuis, NEW w \in work[p], Leave(p, w)
    PROVE  Good(p)
  <1>1. BaseInv /\ w \in ItemOf(Met) /\ w.s \in Met /\ w.others \subseteq Met
    BY ItemKind DEF IInv, Nameless, Leave
  <1>2. w.kind = "leave" /\ UNCHANGED tui BY DEF Leave
  <1>3. /\ OfLine(w) /\ w.kind \notin LKinds \cup ImportKinds /\ w.kind # "opened"
        /\ \A s : TakesItem(w, s) => s = w.s
    BY <1>2 DEF OfLine, HKinds, LKinds, ImportKinds, TakesItem
  <1>4. ASSUME NEW prior \in w.others, Release(p, prior), UNCHANGED history,
               Continue(p, w, {[Becomes(w, "opened") EXCEPT !.others = {}]})
        PROVE  Good(p)
    <2>1. HistoryType /\ history.slips \subseteq history'.slips BY <1>1, <1>4, KeptTo DEF SameSlips
    <2>2. /\ DbStep(p) /\ UNCHANGED rows
          /\ \A r \in Sessions : owner'[r] = IF r = prior /\ owner[r] = p THEN None ELSE owner[r]
      BY <1>1, <1>4, <2>1, ReleaseTo
    <2> DEFINE n == [Becomes(w, "opened") EXCEPT !.others = {}]
    <2>3. n \in ItemOf(Met') BY <1>1, <2>2, Items DEF Kinds, Messages, Met
    <2>4. n.kind = "opened" /\ n.s = w.s /\ n.others = {} BY <1>1 DEF ItemOf, Becomes
    <2>5. Continue(p, w, {n}) BY <1>4
    <2> HIDE DEF n
    <2>6. OfLine(n) /\ n.kind \notin LKinds \cup ImportKinds /\ TakesItem(n, w.s)
      BY <2>4 DEF OfLine, HKinds, LKinds, ImportKinds, TakesItem
    <2>7. ASSUME p \notin Hasty
          PROVE  /\ PriorAt(tui[p], {n}, LeftNow(p))
                 /\ LeftFor(p, tui[p], work'[p], owner', LeftNow(p), n.s)
      <3>1. PriorAt(tui[p], {w}, LeftNow(p)) BY <1>3, <2>1, <2>7, PriorOf
      <3>2. LeftNow(p) \/ Within(tui[p], w.others \cup {w.s}) BY <1>2, <3>1 DEF PriorAt
      <3>3. \A r \in w.others : r = prior BY <1>2, <1>4, <3>1 DEF PriorAt, Leaving
      <3>4. PriorAt(tui[p], {n}, LeftNow(p)) BY <2>4 DEF PriorAt, Leaving, LKinds
      <3>5. prior \in Sessions /\ owner'[prior] # p
        BY <1>1, <1>4, <2>2, NoneAssumption DEF Met
      <3>6. LeftFor(p, tui[p], work'[p], owner', LeftNow(p), n.s)
        BY <2>4, <3>2, <3>3, <3>5 DEF LeftFor, Within
      <3> QED BY <3>4, <3>6
    <2>8. \A s \in Sessions : owner'[s] = p => owner[s] = p BY <2>2, NoneAssumption
    <2> QED BY <1>2, <1>3, <2>2, <2>3, <2>4, <2>5, <2>6, <2>7, <2>8, LineCallOne
  <1>5. ASSUME NEW prior \in w.others, CannotRelease, Continue(p, w, {Of("undo", w.s, {prior})})
        PROVE  Good(p)
    <2>1. DbStep(p) /\ Met' = Met /\ owner' = owner BY <1>1, <1>5, CannotReleaseTo DEF Met
    <2> DEFINE n == Of("undo", w.s, {prior})
    <2>2. n \in ItemOf(Met') BY <1>1, <1>5, <2>1, Items DEF Kinds, HistoryCalls
    <2>3. n.kind = "undo" /\ n.s = w.s BY Single
    <2>4. Continue(p, w, {n}) BY <1>5
    <2> HIDE DEF n
    <2>5. OfLine(n) /\ n.kind \notin LKinds \cup ImportKinds \cup Leaving /\ n.kind # "opened"
          /\ TakesItem(n, w.s)
      BY <2>3 DEF OfLine, HKinds, LKinds, ImportKinds, TakesItem, Leaving
    <2> QED BY <1>2, <1>3, <2>1, <2>2, <2>4, <2>5, LineEndGood
  <1> QED BY <1>4, <1>5 DEF Leave

LEMMA UndoGood ==
    ASSUME IInv, NEW p \in Tuis, NEW w \in work[p], Undo(p, w)
    PROVE  Good(p)
  <1>1. BaseInv /\ w \in ItemOf(Met) /\ w.s \in Met /\ w.others \subseteq Met
    BY ItemKind DEF IInv, Nameless, Undo
  <1>2. w.kind = "undo" /\ UNCHANGED tui BY DEF Undo
  <1>3. /\ OfLine(w) /\ w.kind \notin LKinds \cup ImportKinds /\ w.kind # "opened"
        /\ \A s : TakesItem(w, s) => s \in w.others \cup {w.s}
    BY <1>2 DEF OfLine, HKinds, LKinds, ImportKinds, TakesItem
  <1> DEFINE msg == IF w.flag THEN "needFork" ELSE "openFailed"
  <1>4. msg \in {"needFork", "openFailed"} /\ msg \in LineMessages /\ msg \in Kinds
    BY DEF LineMessages, Kinds, Messages
  <1> HIDE DEF msg
  <1>5. CASE /\ Release(p, w.s) /\ Continue(p, w, {Of(msg, w.s, w.others)})
             /\ IF OwnedByChat(p, w.s) THEN Slip(p, "gone") ELSE UNCHANGED history
    <2>1. HistoryType /\ history.slips \subseteq history'.slips
          /\ (tui[p].leased = w.s => GoneNow(p))
      BY <1>1, <1>5, SlipTo, KeptTo DEF SameSlips, Slipped, GoneNow, OwnedByChat
    <2>2. /\ DbStep(p) /\ UNCHANGED rows
          /\ \A r \in Sessions : owner'[r] = IF r = w.s /\ owner[r] = p THEN None ELSE owner[r]
      BY <1>1, <1>5, <2>1, ReleaseTo
    <2> DEFINE n == Of(msg, w.s, w.others)
    <2>3. n \in ItemOf(Met') BY <1>1, <1>4, <2>2, Items DEF Met
    <2>4. n.kind = msg /\ n.others = w.others BY Single
    <2>5. Continue(p, w, {n}) BY <1>5
    <2> HIDE DEF n
    <2>6. /\ OfLine(n) /\ n.kind \notin Leaving \cup LKinds \cup ImportKinds /\ n.kind # "opened"
          /\ \A s \in w.others : TakesItem(n, s)
      BY <1>4, <2>4, LineMessage
    <2>7. PriorAt(tui[p], {n}, LeftNow(p)) BY <2>6 DEF PriorAt, Leaving
    <2>8. \A s \in Sessions : owner'[s] = p => owner[s] = p /\ s # w.s BY <2>2, NoneAssumption
    <2>9. (tui[p].leased \in Sessions /\ owner[tui[p].leased] = p /\ owner'[tui[p].leased] # p)
             => GoneNow(p)
      BY <2>1, <2>2
    <2> QED BY <1>2, <1>3, <2>2, <2>3, <2>5, <2>6, <2>7, <2>8, <2>9, LineCallOne
  <1>6. CASE CannotRelease /\ Continue(p, w, {Of(msg, w.s, w.others \cup {w.s})})
    <2>1. DbStep(p) /\ Met' = Met /\ owner' = owner BY <1>1, <1>6, CannotReleaseTo DEF Met
    <2> DEFINE ids == w.others \cup {w.s}
               n == Of(msg, w.s, ids)
    <2>2. ids \in SUBSET Met' BY <1>1, <2>1
    <2>3. n \in ItemOf(Met') BY <1>1, <1>4, <2>1, <2>2, Items
    <2>4. n.kind = msg /\ n.others = ids BY Single
    <2>5. Continue(p, w, {n}) BY <1>6
    <2> HIDE DEF n
    <2>6. /\ OfLine(n) /\ n.kind \notin Leaving \cup LKinds \cup ImportKinds /\ n.kind # "opened"
          /\ \A s \in ids : TakesItem(n, s)
      BY <1>4, <2>4, LineMessage
    <2> QED BY <1>2, <1>3, <2>1, <2>3, <2>5, <2>6, LineEndGood
  <1> QED BY <1>5, <1>6 DEF Undo, msg

LEMMA ImportGood ==
    ASSUME IInv, NEW p \in Tuis, NEW w \in work[p], Import(p, w)
    PROVE  Good(p)
  <1>1. BaseInv /\ w \in ItemOf(Met) /\ w.s \in Met BY ItemKind DEF IInv, Nameless, Import
  <1>2. w.kind = "import" /\ UNCHANGED <<tui, database>> BY DEF Import
  <1>3. DbStep(p) /\ Met' = Met /\ owner' = owner /\ UNCHANGED tui
    BY <1>1, <1>2, KeptTo, QuietDb DEF SameSlips, Met, database
  <1>4. PICK msg \in {"imported", "importFailed"} : Continue(p, w, {To(msg, w.s)}) BY DEF Import
  <1> DEFINE n == To(msg, w.s)
  <1>5. n \in ItemOf(Met') BY <1>1, <1>3, Items DEF Kinds, Messages
  <1>6. n.kind = msg /\ n.s = w.s BY Single
  <1>7. Continue(p, w, {n}) BY <1>4
  <1> HIDE DEF n
  <1>8. /\ OfLine(w) /\ w.kind \notin LKinds /\ w.kind \in ImportKinds /\ w.kind # "opened"
        /\ \A s : TakesItem(w, s) => s = w.s
    BY <1>2 DEF OfLine, HKinds, LKinds, ImportKinds, TakesItem
  <1>9. /\ OfLine(n) /\ n.kind \notin LKinds \cup Leaving /\ n.kind \in ImportKinds
        /\ n.kind # "opened" /\ TakesItem(n, w.s)
    BY <1>6 DEF OfLine, HKinds, LKinds, ImportKinds, TakesItem, Leaving
  <1> QED BY <1>3, <1>5, <1>6, <1>7, <1>8, <1>9, LineEndGood

LEMMA LoadGood ==
    ASSUME IInv, NEW p \in Tuis, NEW w \in work[p], Load(p, w)
    PROVE  Good(p)
  <1>1. BaseInv /\ w \in ItemOf(Met) /\ w.s \in Met BY ItemKind DEF IInv, Nameless, Load
  <1>2. w.kind = "load" /\ UNCHANGED <<rows, owner, left, tui>> BY DEF Load
  <1>3. HistoryType /\ SameSlips BY <1>1, FailsUnlessTo, KeptTo DEF Load
  <1>4. DbStep(p) /\ Met' = Met BY <1>1, <1>2, <1>3, QuietDb DEF SameSlips, Met
  <1>5. PICK msg \in {"restored", "notRestored"} : Continue(p, w, {To(msg, w.s)}) BY DEF Load
  <1> DEFINE n == To(msg, w.s)
  <1>6. n \in ItemOf(Met') BY <1>1, <1>4, Items DEF Kinds, Messages
  <1>7. n.kind = msg /\ n.s = w.s BY Single
  <1>8. Continue(p, w, {n}) BY <1>5
  <1> HIDE DEF n
  <1>9. /\ OfLine(w) /\ w.kind \in LKinds /\ w.kind \notin ImportKinds /\ w.kind # "opened"
        /\ \A s : ~TakesItem(w, s)
    BY <1>2 DEF OfLine, HKinds, LKinds, ImportKinds, TakesItem
  <1>10. /\ OfLine(n) /\ n.kind \in LKinds /\ n.kind \notin Leaving \cup ImportKinds
         /\ n.kind # "opened"
    BY <1>7 DEF OfLine, HKinds, LKinds, ImportKinds, Leaving
  <1> QED BY <1>2, <1>4, <1>6, <1>7, <1>8, <1>9, <1>10, LineEndGood

LEMMA ArchiveGood ==
    ASSUME IInv, NEW p \in Tuis, NEW w \in work[p], Archive(p, w)
    PROVE  Good(p)
  <1>1. BaseInv /\ w \in ItemOf(Met) /\ w.s \in Met BY ItemKind DEF IInv, Nameless, Archive
  <1>2. w.kind = "archive" /\ UNCHANGED <<rows, owner, left, tui>> BY DEF Archive
  <1>3. HistoryType /\ SameSlips BY <1>1, FailsUnlessTo, KeptTo DEF Archive
  <1>4. DbStep(p) /\ Met' = Met BY <1>1, <1>2, <1>3, QuietDb DEF SameSlips, Met
  <1>5. PICK msg \in {"removed", "removeFailed"} : Continue(p, w, {To(msg, w.s)}) BY DEF Archive
  <1> DEFINE n == To(msg, w.s)
  <1>6. n.kind \in LineMessages /\ n.kind = msg BY Single DEF LineMessages
  <1>7. n \in ItemOf(Met') BY <1>1, <1>4, Items DEF Kinds, Messages
  <1>8. Continue(p, w, {n}) BY <1>5
  <1> HIDE DEF n
  <1>9. /\ OfLine(w) /\ w.kind \notin LKinds \cup ImportKinds /\ w.kind # "opened"
        /\ \A s : ~TakesItem(w, s)
    BY <1>2 DEF OfLine, HKinds, LKinds, ImportKinds, TakesItem
  <1> QED BY <1>2, <1>4, <1>6, <1>7, <1>8, <1>9, LineMessage, LineEndGood

LEMMA DeleteGood ==
    ASSUME IInv, NEW p \in Tuis, NEW w \in work[p], Delete(p, w)
    PROVE  Good(p)
  <1>1. BaseInv /\ w \in ItemOf(Met) /\ w.s \in Met BY ItemKind DEF IInv, Nameless, Delete
  <1>2. w.kind = "delete" /\ UNCHANGED tui BY DEF Delete
  <1>3. /\ OfLine(w) /\ w.kind \notin LKinds \cup ImportKinds /\ w.kind # "opened"
        /\ \A s : ~TakesItem(w, s)
    BY <1>2 DEF OfLine, HKinds, LKinds, ImportKinds, TakesItem
  <1>4. HistoryType /\ SameSlips BY <1>1, FailsUnlessTo, FailsTo, KeptTo DEF Delete
  <1>5. PICK k \in {"removed", "removeFailed"} : Continue(p, w, {Becomes(w, k)}) BY DEF Delete
  <1> DEFINE n == Becomes(w, k)
  <1>6. n.kind \in LineMessages /\ n.kind = k BY <1>1, Single DEF LineMessages
  <1>7. n \in ItemOf(Met) BY <1>1, Items DEF Kinds, Messages
  <1>8. Continue(p, w, {n}) BY <1>5
  <1> HIDE DEF n
  <1>9. CASE /\ w.s \in Exist /\ rows' = [rows EXCEPT ![w.s] = "deleted"]
             /\ owner' = [owner EXCEPT ![w.s] = None] /\ left' = [left EXCEPT ![w.s] = 0]
    <2>1. 0 \in 0..TTL BY TTLAssumption
    <2>2. w.s \in Sessions /\ rows[w.s] = "kept" BY <1>9 DEF Exist
    <2>3. \A s \in Sessions :
             IF s = w.s THEN rows'[s] = "deleted" /\ owner'[s] = None /\ left'[s] = 0
                        ELSE rows'[s] = rows[s] /\ owner'[s] = owner[s] /\ left'[s] = left[s]
      BY <1>1, <1>9 DEF BaseInv
    <2>4. /\ rows' \in [Sessions -> {"new", "kept", "deleted"}]
          /\ owner' \in [Sessions -> Tuis \cup {None}] /\ left' \in [Sessions -> 0..TTL]
      BY <1>1, <1>9, <2>1 DEF BaseInv
    <2>5. DbStep(p) BY <1>4, <2>2, <2>3, <2>4 DEF DbStep, HistoryType, SameSlips
    <2>6. n \in ItemOf(Met') BY <1>7, <2>5, MetGrows
    <2>7. \A s \in Sessions : owner'[s] = p => owner[s] = p BY <2>3, NoneAssumption
    <2>8. (tui[p].leased \in Sessions /\ owner[tui[p].leased] = p /\ owner'[tui[p].leased] # p)
             => rows'[tui[p].leased] # "kept"
      BY <2>3
    <2>9. /\ OfLine(n) /\ n.kind \notin Leaving \cup LKinds \cup ImportKinds /\ n.kind # "opened"
      BY <1>6, LineMessage
    <2>10. PriorAt(tui[p], {n}, LeftNow(p)) BY <2>9 DEF PriorAt, Leaving
    <2> QED BY <1>2, <1>3, <1>8, <2>5, <2>6, <2>7, <2>8, <2>9, <2>10, LineCallOne
  <1>10. CASE UNCHANGED <<rows, owner, left>>
    <2>1. DbStep(p) /\ Met' = Met BY <1>1, <1>4, <1>10, QuietDb DEF SameSlips, Met
    <2> QED BY <1>2, <1>3, <1>6, <1>7, <1>8, <1>10, <2>1, LineMessage, LineEndGood
  <1> QED BY <1>9, <1>10 DEF Delete

-----------------------------------------------------------------------------
(* Messages that end the line.                                             *)

\* Message w of the line after which History rests, with the model u: its lease
\* is the one it had, unless History had left it, and no lease is lost from view.
LEMMA CloseGood ==
    ASSUME IInv, NEW p \in Tuis, NEW w \in work[p], OfLine(w),
           NEW N, NoLine(N), StepOf(p), UNCHANGED <<rows, owner>>,
           Moves(work[p], work'[p], {w}, N),
           NEW u, u = tui'[p], p \notin Hasty => ~u.busy /\ u.asks \in {"nothing", "fork"},
           u.streaming = tui[p].streaming, u.live => tui[p].live,
           \A s \in u.pending : s \in tui[p].pending \/ Some(N, Trying, s),
           p \notin Hasty => ChatAt(u, LeftNow(p)),
           \/ u.leased = None \/ GoneNow(p) \/ Some(N, Settling, u.leased)
           \/ u.leased = tui[p].leased /\ w.kind \notin {"opened"} \cup ImportKinds,
           p \notin Hasty =>
              \A s \in Sessions : (owner[s] = p /\ (s \in Counts(tui[p]) \/ TakesItem(w, s)))
                                     => s \in Counts(u) \/ LeftNow(p)
    PROVE  Good(p)
  <1> DEFINE G == {w}
             t == tui[p]
  <1>1. InLine(G) BY DEF InLine
  <1>2. Moves(work[p], work'[p], G, N) OBVIOUS
  <1>3. history.slips \subseteq history'.slips BY DEF StepOf, DbStep
  <1>4. ASSUME p \notin Hasty PROVE CalmNow(p)
    <2>1. /\ Line(work[p]) = {w} /\ Opens(p)
          /\ t.asks = "import" => w.kind \in ImportKinds
          /\ w.kind \in ImportKinds => w.s = t.subject
      BY <1>4, OneLine DEF OfLine
    <2>2. Line(work'[p]) = {}
      <3>1. Line(N) = {} BY DEF Line, NoLine
      <3> QED BY <1>2, <1>4, <2>1, <3>1, LineIs
    <2>3. /\ TurnAt(t, {w})
          /\ HeldAt(p, t, work[p], owner, rows, GoneNow(p))
          /\ BehindAt(p, t, work[p], owner, LeftNow(p))
      BY <1>3, <1>4, <2>1, CalmParts
    <2>4. \A K \in {Trying, Settling, Arriving, Cleaning} : \A s :
             Some(work[p], K, s) \/ Some(N, K, s) => Some(work'[p], K, s)
      BY <1>1, <1>2, LineSome
    <2>5. LineAt(u, {}) BY DEF LineAt
    <2>6. TurnAt(u, {})
      <3>1. ~t.streaming BY <2>1, <2>3 DEF TurnAt, Opens
      <3> QED BY <2>3, <3>1 DEF TurnAt
    <2>7. PriorAt(u, {}, LeftNow(p)) BY DEF PriorAt
    <2>8. LeftAt(p, u, work'[p], owner', LeftNow(p)) BY <1>4, <2>2 DEF LeftAt
    <2>9. HeldAt(p, u, work'[p], owner', rows', GoneNow(p))
      <3>1. SwitchingAt(t, {w}) => w.kind \in {"opened"} \cup ImportKinds
        BY <2>1 DEF SwitchingAt
      <3> QED BY <2>1, <2>3, <2>4, <3>1, NoneAssumption DEF HeldAt
    <2>10. BehindAt(p, u, work'[p], owner', LeftNow(p))
      <3>1. ASSUME NEW s, t.asks = "import", t.subject = s PROVE TakesItem(w, s)
        BY <2>1, <3>1 DEF TakesItem
      <3> QED BY <1>4, <2>1, <2>3, <2>4, <3>1 DEF BehindAt, Counts
    <2> QED BY <1>4, <2>2, <2>5, <2>6, <2>7, <2>8, <2>9, <2>10 DEF CalmNow, CalmAt, LeftNow, GoneNow
  <1> HIDE DEF G
  <1> QED BY <1>1, <1>2, <1>4, LineGood

\* The message that frees History, keeps the chat, and releases what it lists.
LEMMA ReportGood ==
    ASSUME IInv, NEW p \in Tuis, NEW w \in work[p], OfLine(w), w.kind \in HKinds,
           NEW ids \in SUBSET Met, Continue(p, w, Cleanups(ids)),
           UNCHANGED <<rows, owner, left>>, HistoryType, history.slips \subseteq history'.slips,
           NEW t \in TuiOf(Met), tui' = [tui EXCEPT ![p] = CleanUp(t, ids)],
           ~t.busy, t.asks \in {"nothing", "fork"}, t.chat = tui[p].chat,
           t.leased = tui[p].leased, t.pending = tui[p].pending,
           t.streaming = tui[p].streaming, t.live = tui[p].live,
           w.kind \notin {"opened"} \cup ImportKinds \/ GoneNow(p) \/ t.leased \in ids \cup {None},
           \A s : TakesItem(w, s) => s \in ids
    PROVE  Good(p)
  <1> DEFINE u == CleanUp(t, ids)
             N == Cleanups(ids)
  <1>1. /\ u \in TuiOf(Met) /\ u.pending = t.pending \cup ids /\ u.busy = t.busy
        /\ u.asks = t.asks /\ u.chat = t.chat /\ u.leased = t.leased
        /\ u.streaming = t.streaming /\ u.live = t.live
    <2>1. u \in TuiOf(Met) BY Fields
    <2> QED BY <2>1 DEF CleanUp, TuiOf
  <1>2. N \in SUBSET ItemOf(Met) /\ NoLine(N)
        /\ \A K, s : Some(N, K, s) <=> ("release" \in K /\ s \in ids)
    BY CleanupsTo
  <1>3. Continue(p, w, N) /\ tui' = [tui EXCEPT ![p] = u] OBVIOUS
  <1> HIDE DEF u, N
  <1>4. StepOf(p) /\ tui'[p] = u BY <1>1, <1>2, <1>3, MessageOf DEF IInv
  <1>5. Moves(work[p], work'[p], {w}, N) BY <1>3, ContinueMoves DEF IInv
  <1>6. \A s \in u.pending : s \in tui[p].pending \/ Some(N, Trying, s)
    BY <1>1, <1>2 DEF Trying, Releasing
  <1>7. p \notin Hasty => ChatAt(u, LeftNow(p))
    <2>1. ASSUME p \notin Hasty PROVE ChatAt(tui[p], LeftNow(p)) BY <2>1, CalmParts
    <2> QED BY <1>1, <2>1 DEF ChatAt
  <1>8. \/ u.leased = None
        \/ w.kind \notin {"opened"} \cup ImportKinds \/ GoneNow(p)
        \/ Some(N, Settling, u.leased)
    BY <1>1, <1>2 DEF Settling, LeaseCalls
  <1>9. \A s : (s \in Counts(tui[p]) \/ TakesItem(w, s)) => s \in Counts(u)
    BY <1>1 DEF Counts
  <1> QED BY <1>1, <1>2, <1>4, <1>5, <1>6, <1>7, <1>8, <1>9, CloseGood

LEMMA OpenFailedGood ==
    ASSUME IInv, NEW p \in Tuis, NEW w \in work[p], OpenFailed(p, w)
    PROVE  Good(p)
  <1>1. BaseInv /\ tui[p] \in TuiOf(Met) /\ w.others \in SUBSET Met
    BY ItemKind DEF IInv, BaseInv
  <1> DEFINE t == [tui[p] EXCEPT !.busy = FALSE, !.asks = "nothing", !.subject = None]
  <1>2. /\ t \in TuiOf(Met) /\ ~t.busy /\ t.asks = "nothing" /\ t.chat = tui[p].chat
        /\ t.leased = tui[p].leased /\ t.pending = tui[p].pending
        /\ t.streaming = tui[p].streaming /\ t.live = tui[p].live
    BY <1>1 DEF TuiOf
  <1>3. /\ tui' = [tui EXCEPT ![p] = CleanUp(t, w.others)] /\ Continue(p, w, Cleanups(w.others))
        /\ w.kind = "openFailed" /\ UNCHANGED database
    BY DEF OpenFailed
  <1> HIDE DEF t
  <1>4. HistoryType /\ history.slips \subseteq history'.slips /\ UNCHANGED <<rows, owner, left>>
    BY <1>1, <1>3, KeptTo DEF SameSlips, database
  <1>5. /\ OfLine(w) /\ w.kind \in HKinds /\ w.kind \notin {"opened"} \cup ImportKinds
        /\ \A s : TakesItem(w, s) => s \in w.others
    BY <1>3 DEF OfLine, HKinds, ImportKinds, TakesItem
  <1> QED BY <1>1, <1>2, <1>3, <1>4, <1>5, ReportGood

LEMMA NeedForkGood ==
    ASSUME IInv, NEW p \in Tuis, NEW w \in work[p], NeedFork(p, w)
    PROVE  Good(p)
  <1>1. BaseInv /\ tui[p] \in TuiOf(Met) /\ w.others \in SUBSET Met /\ w.s \in Met
    BY ItemKind DEF IInv, BaseInv, Nameless, NeedFork
  <1> DEFINE t == [tui[p] EXCEPT !.busy = FALSE, !.asks = "fork", !.subject = w.s]
  <1>2. /\ t \in TuiOf(Met) /\ ~t.busy /\ t.asks = "fork" /\ t.chat = tui[p].chat
        /\ t.leased = tui[p].leased /\ t.pending = tui[p].pending
        /\ t.streaming = tui[p].streaming /\ t.live = tui[p].live
    BY <1>1 DEF TuiOf
  <1>3. /\ tui' = [tui EXCEPT ![p] = CleanUp(t, w.others)] /\ Continue(p, w, Cleanups(w.others))
        /\ w.kind = "needFork" /\ UNCHANGED database
    BY DEF NeedFork
  <1> HIDE DEF t
  <1>4. HistoryType /\ history.slips \subseteq history'.slips /\ UNCHANGED <<rows, owner, left>>
    BY <1>1, <1>3, KeptTo DEF SameSlips, database
  <1>5. /\ OfLine(w) /\ w.kind \in HKinds /\ w.kind \notin {"opened"} \cup ImportKinds
        /\ \A s : TakesItem(w, s) => s \in w.others
    BY <1>3 DEF OfLine, HKinds, ImportKinds, TakesItem
  <1> QED BY <1>1, <1>2, <1>3, <1>4, <1>5, ReportGood

LEMMA ImportFailedGood ==
    ASSUME IInv, NEW p \in Tuis, NEW w \in work[p], ImportFailed(p, w)
    PROVE  Good(p)
  <1>1. BaseInv /\ tui[p] \in TuiOf(Met) /\ w.s \in Met
    BY ItemKind DEF IInv, BaseInv, Nameless, ImportFailed
  <1> DEFINE t == [NotBusy(tui[p]) EXCEPT !.asks = "nothing", !.subject = None]
             ids == {w.s}
  <1>2. /\ t \in TuiOf(Met) /\ ~t.busy /\ t.asks = "nothing" /\ t.chat = tui[p].chat
        /\ t.leased = tui[p].leased /\ t.pending = tui[p].pending
        /\ t.streaming = tui[p].streaming /\ t.live = tui[p].live
    BY <1>1 DEF TuiOf, NotBusy
  <1>3. /\ tui' = [tui EXCEPT ![p] = CleanUp(t, ids)] /\ Continue(p, w, Cleanups(ids))
        /\ w.kind = "importFailed" /\ UNCHANGED <<rows, owner, left>>
    BY DEF ImportFailed
  <1>4. ids \in SUBSET Met BY <1>1
  <1> HIDE DEF t
  <1>5. /\ HistoryType /\ history.slips \subseteq history'.slips
        /\ tui[p].leased \in {None, w.s} \/ GoneNow(p)
    BY <1>1, SlipTo, KeptTo DEF ImportFailed, SameSlips, Slipped, GoneNow
  <1>6. /\ OfLine(w) /\ w.kind \in HKinds /\ \A s : TakesItem(w, s) => s \in ids
    BY <1>3 DEF OfLine, HKinds, ImportKinds, TakesItem
  <1>7. t.leased \in ids \cup {None} \/ GoneNow(p) BY <1>2, <1>5
  <1> HIDE DEF ids
  <1> QED BY <1>2, <1>3, <1>4, <1>5, <1>6, <1>7, ReportGood

LEMMA AnsweredTo ==
    ASSUME NEW S, NEW t \in TuiOf(S), NEW w \in ItemOf(S)
    PROVE  LET u == Answered(t, w)
           IN /\ u \in TuiOf(S) /\ ~u.busy /\ u.asks = "nothing" /\ u.chat = t.chat
              /\ u.leased = t.leased /\ u.pending = t.pending
              /\ u.streaming = t.streaming /\ u.live = t.live
  <1>1. Answered(t, w) \in TuiOf(S) BY Fields
  <1> QED BY <1>1 DEF Answered, TuiOf

LEMMA RemoveFailedGood ==
    ASSUME IInv, NEW p \in Tuis, NEW w \in work[p], RemoveFailed(p, w)
    PROVE  Good(p)
  <1>1. BaseInv /\ tui[p] \in TuiOf(Met) /\ w \in ItemOf(Met)
    BY ItemKind DEF IInv, BaseInv
  <1> DEFINE u == Answered(tui[p], w)
             N == {}
  <1>2. /\ u \in TuiOf(Met) /\ ~u.busy /\ u.asks = "nothing" /\ u.chat = tui[p].chat
        /\ u.leased = tui[p].leased /\ u.pending = tui[p].pending
        /\ u.streaming = tui[p].streaming /\ u.live = tui[p].live
    BY <1>1, AnsweredTo
  <1>3. /\ tui' = [tui EXCEPT ![p] = u] /\ Continue(p, w, N)
        /\ w.kind = "removeFailed" /\ UNCHANGED database
    BY DEF RemoveFailed
  <1>4. N \in SUBSET ItemOf(Met) /\ NoLine(N) BY DEF NoLine
  <1> HIDE DEF u, N
  <1>5. HistoryType /\ history.slips \subseteq history'.slips /\ UNCHANGED <<rows, owner, left>>
    BY <1>1, <1>3, KeptTo DEF SameSlips, database
  <1>6. /\ OfLine(w) /\ w.kind \in HKinds /\ w.kind \notin {"opened"} \cup ImportKinds
        /\ \A s : ~TakesItem(w, s)
    BY <1>3 DEF OfLine, HKinds, ImportKinds, TakesItem
  <1>7. StepOf(p) /\ tui'[p] = u BY <1>1, <1>2, <1>3, <1>4, <1>5, MessageOf
  <1>8. Moves(work[p], work'[p], {w}, N) BY <1>1, <1>3, ContinueMoves
  <1>9. p \notin Hasty => ChatAt(u, LeftNow(p))
    <2>1. ASSUME p \notin Hasty PROVE ChatAt(tui[p], LeftNow(p)) BY <1>5, <2>1, CalmParts
    <2> QED BY <1>2, <2>1 DEF ChatAt
  <1>10. Counts(u) = Counts(tui[p]) BY <1>2 DEF Counts
  <1> QED BY <1>2, <1>4, <1>5, <1>6, <1>7, <1>8, <1>9, <1>10, CloseGood

LEMMA RemovedGood ==
    ASSUME IInv, NEW p \in Tuis, NEW w \in work[p], Removed(p, w)
    PROVE  Good(p)
  <1>1. BaseInv /\ tui[p] \in TuiOf(Met) /\ w \in ItemOf(Met) /\ w.s \in Met
    BY ItemKind DEF IInv, BaseInv, Nameless, Removed
  <1> DEFINE t == Answered(tui[p], w)
  <1>2. /\ t \in TuiOf(Met) /\ ~t.busy /\ t.asks = "nothing" /\ t.chat = tui[p].chat
        /\ t.leased = tui[p].leased /\ t.pending = tui[p].pending
        /\ t.streaming = tui[p].streaming /\ t.live = tui[p].live
    BY <1>1, AnsweredTo
  <1>3. w.kind = "removed" /\ UNCHANGED <<rows, owner, left>> BY DEF Removed
  <1>4. /\ OfLine(w) /\ w.kind \in HKinds /\ w.kind \notin {"opened"} \cup ImportKinds
        /\ \A s : ~TakesItem(w, s)
    BY <1>3 DEF OfLine, HKinds, ImportKinds, TakesItem
  <1>5. CASE /\ w.s = t.chat /\ tui' = [tui EXCEPT ![p] = CleanUp(Reset(t), {w.s})]
             /\ Continue(p, w, Cleanups({w.s}))
             /\ IF t.leased \in {None, w.s} THEN UNCHANGED history ELSE Slip(p, "left")
    <2> DEFINE ids == {w.s}
               u == CleanUp(Reset(t), ids)
               N == Cleanups(ids)
    <2>1. ids \in SUBSET Met BY <1>1
    <2> HIDE DEF t, ids
    <2>2. /\ u \in TuiOf(Met) /\ u.chat = None /\ u.leased = None
          /\ u.pending = t.pending \cup ids
          /\ u.busy = t.busy /\ u.asks = t.asks /\ u.streaming = t.streaming /\ ~u.live
      BY <1>2, <2>1, ResetTo
    <2>3. /\ N \in SUBSET ItemOf(Met) /\ NoLine(N)
          /\ \A K, s : Some(N, K, s) <=> ("release" \in K /\ s \in ids)
      BY <2>1, CleanupsTo
    <2>4. tui' = [tui EXCEPT ![p] = u] /\ Continue(p, w, N) BY <1>5 DEF t, ids
    <2> HIDE DEF u, N
    <2>5. /\ HistoryType /\ history.slips \subseteq history'.slips
          /\ tui[p].leased \in {None, w.s} \/ LeftNow(p)
      BY <1>1, <1>2, <1>5, SlipTo, KeptTo DEF SameSlips, Slipped, LeftNow
    <2>6. StepOf(p) /\ tui'[p] = u BY <1>1, <1>3, <2>2, <2>3, <2>4, <2>5, MessageOf
    <2>7. Moves(work[p], work'[p], {w}, N) BY <1>1, <2>4, ContinueMoves
    <2>8. \A s \in u.pending : s \in tui[p].pending \/ Some(N, Trying, s)
      BY <1>2, <2>2, <2>3 DEF Trying, Releasing
    <2>9. ChatAt(u, LeftNow(p)) BY <2>2 DEF ChatAt
    <2>10. w.s \in ids /\ tui[p].chat = w.s BY <1>2, <1>5 DEF ids
    <2>11. \A s \in Sessions : s \in Counts(tui[p]) => s \in Counts(u) \/ LeftNow(p)
      BY <1>2, <2>2, <2>5, <2>10, NoneAssumption DEF Counts
    <2> QED BY <1>2, <1>3, <1>4, <2>2, <2>3, <2>6, <2>7, <2>8, <2>9, <2>11, CloseGood
  <1>6. CASE tui' = [tui EXCEPT ![p] = t] /\ Continue(p, w, {}) /\ UNCHANGED history
    <2> DEFINE N == {}
    <2>1. tui' = [tui EXCEPT ![p] = t] /\ Continue(p, w, N) BY <1>6
    <2>2. N \in SUBSET ItemOf(Met) /\ NoLine(N) BY DEF NoLine
    <2> HIDE DEF t, N
    <2>3. HistoryType /\ history.slips \subseteq history'.slips BY <1>1, <1>6, KeptTo DEF SameSlips
    <2>4. StepOf(p) /\ tui'[p] = t BY <1>1, <1>2, <1>3, <2>1, <2>2, <2>3, MessageOf
    <2>5. Moves(work[p], work'[p], {w}, N) BY <1>1, <2>1, ContinueMoves
    <2>6. p \notin Hasty => ChatAt(t, LeftNow(p))
      <3>1. ASSUME p \notin Hasty PROVE ChatAt(tui[p], LeftNow(p)) BY <2>3, <3>1, CalmParts
      <3> QED BY <1>2, <3>1 DEF ChatAt
    <2>7. Counts(t) = Counts(tui[p]) BY <1>2 DEF Counts
    <2> QED BY <1>2, <1>3, <1>4, <2>2, <2>4, <2>5, <2>6, <2>7, CloseGood
  <1> QED BY <1>5, <1>6 DEF Removed

-----------------------------------------------------------------------------
(* Messages and keys that open a session.                                  *)

\* The chat becomes that of s, for which History has left what the chat had.
LEMMA OpensGood ==
    ASSUME IInv, NEW p \in Tuis, NEW w, NEW t \in TuiOf(Met), NEW s \in Met,
           OpensInChat(p, t, w, s), UNCHANGED database,
           NEW G, InLine(G), work[p] \ {w} = work[p] \ G,
           t.pending = tui[p].pending, t.streaming = tui[p].streaming,
           p \notin Hasty =>
              /\ ~t.busy /\ Opens(p) /\ Line(work[p]) \subseteq G
              /\ LeftFor(p, tui[p], work[p], owner, LeftNow(p), s)
              /\ tui[p].asks = "import" => tui[p].subject = s
              /\ \A v \in Line(work[p]) : \A r : TakesItem(v, r) => r = s
    PROVE  Good(p)
  <1> DEFINE u == [Reset(t) EXCEPT !.leased = s, !.lost = FALSE, !.asks = "nothing", !.subject = None]
             N == {To("beat", s), To("load", s)}
  <1>1. BaseInv /\ work[p] \in SUBSET ItemOf(Met) /\ tui[p] \in TuiOf(Met) BY DEF IInv, BaseInv
  <1>2. /\ u \in TuiOf(Met) /\ u.chat = None /\ u.leased = s /\ u.busy = t.busy
        /\ u.asks = "nothing" /\ u.pending = tui[p].pending /\ u.streaming = tui[p].streaming
        /\ ~u.live
    BY DEF TuiOf, Reset
  <1>3. N \in SUBSET ItemOf(Met)
    <2>1. To("beat", s) \in ItemOf(Met) /\ To("load", s) \in ItemOf(Met)
      BY Items DEF Kinds, LeaseCalls, HistoryCalls
    <2> QED BY <2>1
  <1>4. Line(N) = {To("load", s)} BY Single DEF Line, HKinds, LKinds
  <1>5. Some(N, Settling, s) BY Single DEF Some, Settling, LeaseCalls
  <1>6. To("load", s).kind = "load" /\ To("load", s).s = s BY Single
  <1>7. /\ tui' = [tui EXCEPT ![p] = u]
        /\ work' = [work EXCEPT ![p] = Bumped(work[p] \ G, s) \cup N]
    BY DEF OpensInChat
  <1> HIDE DEF u, N
  <1>8. work'[p] = Bumped(work[p] \ G, s) \cup N /\ tui'[p] = u BY <1>1, <1>7 DEF BaseInv
  <1>9. /\ DbStep(p) /\ Met' = Met /\ owner' = owner /\ rows' = rows
        /\ history.slips \subseteq history'.slips
    BY <1>1, KeptTo, QuietDb DEF SameSlips, Met, database
  <1>10. StepOf(p)
    <2>1. Bumped(work[p] \ G, s) \in SUBSET ItemOf(Met) BY <1>1, BumpedItems
    <2>2. work'[p] \in SUBSET ItemOf(Met') BY <1>3, <1>8, <1>9, <2>1
    <2> QED BY <1>2, <1>7, <1>8, <1>9, <2>2 DEF StepOf
  <1>11. Moves(work[p], work'[p], G, N) BY <1>1, <1>8, BumpMoves
  <1>12. ASSUME p \notin Hasty PROVE CalmNow(p)
    <2>1. Line(work'[p]) = {To("load", s)} BY <1>4, <1>11, <1>12, LineIs
    <2>2. /\ TurnAt(tui[p], Line(work[p]))
          /\ BehindAt(p, tui[p], work[p], owner, LeftNow(p))
      BY <1>9, <1>12, CalmParts
    <2>3. \A K \in {Trying, Settling, Arriving, Cleaning} : \A r :
             Some(work[p], K, r) \/ Some(N, K, r) => Some(work'[p], K, r)
      BY <1>11, LineSome
    <2> DEFINE Q == {To("load", s)}
    <2>4. \A v \in Q : v.kind = "load" /\ v.s = s BY <1>6
    <2>5. \A v, x \in Q : v = x OBVIOUS
    <2> HIDE DEF Q
    <2>6. LineAt(u, Q) BY <1>2, <1>12, <2>4, <2>5 DEF LineAt, HKinds, LKinds, ImportKinds
    <2>7. TurnAt(u, Q) BY <1>2, <1>12, <2>2 DEF TurnAt, Opens
    <2>8. ChatAt(u, LeftNow(p)) BY <1>2 DEF ChatAt
    <2>9. PriorAt(u, Q, LeftNow(p))
      BY <1>2, <2>4 DEF PriorAt, Within, Leaving
    <2>10. LeftAt(p, u, work'[p], owner', LeftNow(p))
      BY <1>2, <2>1, <2>4 DEF LeftAt, Q
    <2>11. HeldAt(p, u, work'[p], owner', rows', GoneNow(p))
      BY <1>2, <1>5, <2>3 DEF HeldAt
    <2>12. BehindAt(p, u, work'[p], owner', LeftNow(p))
      <3> SUFFICES ASSUME NEW r \in Sessions, owner[r] = p, ~LeftNow(p), r # s,
                          r \notin tui[p].pending
                   PROVE  Some(work'[p], Cleaning, r)
        BY <1>2, <1>9 DEF BehindAt
      <3>1. r \in {tui[p].chat, tui[p].leased} \/ Some(work[p], Cleaning, r)
        BY <1>12, <2>2 DEF BehindAt
      <3>2. CASE Some(work[p], Cleaning, r) BY <2>3, <3>2
      <3>3. CASE r \in {tui[p].chat, tui[p].leased}
        <4>1. r # None BY NoneAssumption
        <4>2. Some(work[p], Arriving, r) BY <1>12, <3>3, <4>1 DEF LeftFor
        <4>3. Some(work[p], Cleaning, r) BY <4>2 DEF Some, Cleaning
        <4> QED BY <2>3, <4>3
      <3> QED BY <3>1, <3>2, <3>3
    <2> QED BY <1>8, <2>1, <2>6, <2>7, <2>8, <2>9, <2>10, <2>11, <2>12
            DEF CalmNow, CalmAt, LeftNow, GoneNow, Q
  <1> QED BY <1>2, <1>8, <1>10, <1>11, <1>12, LineGood

LEMMA ImportedGood ==
    ASSUME IInv, NEW p \in Tuis, NEW w \in work[p], Imported(p, w)
    PROVE  Good(p)
  <1>1. BaseInv /\ tui[p] \in TuiOf(Met) /\ w.s \in Met
    BY ItemKind DEF IInv, BaseInv, Nameless, Imported
  <1> DEFINE t == NotBusy(tui[p])
             G == {w}
  <1>2. /\ t \in TuiOf(Met) /\ ~t.busy /\ t.pending = tui[p].pending
        /\ t.streaming = tui[p].streaming
    BY <1>1 DEF TuiOf, NotBusy
  <1>3. OpensInChat(p, t, w, w.s) /\ w.kind = "imported" /\ UNCHANGED database BY DEF Imported
  <1>4. /\ OfLine(w) /\ w.kind \in HKinds /\ w.kind \in ImportKinds
        /\ \A s : TakesItem(w, s) => s = w.s
    BY <1>3 DEF OfLine, HKinds, ImportKinds, TakesItem
  <1>5. InLine(G) /\ work[p] \ {w} = work[p] \ G BY <1>4 DEF InLine
  <1> HIDE DEF t
  <1>6. ASSUME p \notin Hasty
        PROVE  /\ Opens(p) /\ Line(work[p]) \subseteq G
               /\ LeftFor(p, tui[p], work[p], owner, LeftNow(p), w.s)
               /\ tui[p].asks = "import" => tui[p].subject = w.s
               /\ \A v \in Line(work[p]) : v = w
    <2>1. /\ Line(work[p]) = {w} /\ Opens(p) /\ tui[p].asks = "import" /\ w.s = tui[p].subject
      BY <1>4, <1>6, OneLine
    <2>2. history.slips \subseteq history'.slips BY <1>3 DEF database
    <2>3. LeftAt(p, tui[p], work[p], owner, LeftNow(p)) BY <1>6, <2>2, CalmParts
    <2> QED BY <2>1, <2>3 DEF LeftAt
  <1> HIDE DEF G
  <1> QED BY <1>1, <1>2, <1>3, <1>4, <1>5, <1>6, OpensGood

LEMMA SkipImportGood ==
    ASSUME IInv, NEW p \in Tuis, SkipImport(p)
    PROVE  Good(p)
  <1>1. BaseInv /\ tui[p] \in TuiOf(Met) /\ work[p] \in SUBSET ItemOf(Met) BY DEF IInv, BaseInv
  <1> DEFINE w == To("opened", None)
             G == {}
  <1>2. tui[p].asks = "import" /\ (p \in Hasty \/ ~tui[p].busy) /\ UNCHANGED database
        /\ OpensInChat(p, tui[p], w, tui[p].subject)
    BY DEF SkipImport, Answers
  <1>3. tui[p].subject \in Met BY <1>1, <1>2 DEF TuiOf
  <1>4. w \notin work[p]
    <2>1. w.kind = "opened" /\ w.s = None BY Single
    <2>2. None \notin Met BY NoneAssumption DEF Met
    <2> QED BY <1>1, <2>1, <2>2 DEF ItemOf, Nameless
  <1>5. work[p] \ {w} = work[p] \ G BY <1>4
  <1>6. InLine(G) BY DEF InLine
  <1> HIDE DEF w, G
  <1>7. ASSUME p \notin Hasty
        PROVE  /\ Opens(p) /\ Line(work[p]) = {}
               /\ LeftFor(p, tui[p], work[p], owner, LeftNow(p), tui[p].subject)
    <2>1. LineAt(tui[p], Line(work[p])) BY <1>7 DEF IInv, CalmAt
    <2>2. Line(work[p]) = {} BY <1>2, <1>7, <2>1 DEF LineAt, Line
    <2>3. history.slips \subseteq history'.slips BY <1>2 DEF database
    <2>4. LeftAt(p, tui[p], work[p], owner, LeftNow(p)) BY <1>7, <2>3, CalmParts
    <2> QED BY <1>2, <2>2, <2>4 DEF LeftAt, Opens, OpeningAt
  <1> QED BY <1>1, <1>2, <1>3, <1>5, <1>6, <1>7, OpensGood

LEMMA OpenedGood ==
    ASSUME IInv, NEW p \in Tuis, NEW w \in work[p], Opened(p, w)
    PROVE  Good(p)
  <1>1. BaseInv /\ tui[p] \in TuiOf(Met) /\ w.s \in Met
    BY ItemKind DEF IInv, BaseInv, Nameless, Opened
  <1> DEFINE G == {w}
  <1>2. w.kind = "opened" /\ UNCHANGED database BY DEF Opened
  <1>3. /\ OfLine(w) /\ w.kind \in HKinds /\ w.kind \notin ImportKinds
        /\ \A s : TakesItem(w, s) => s = w.s
    BY <1>2 DEF OfLine, HKinds, ImportKinds, TakesItem
  <1>4. InLine(G) /\ work[p] \ {w} = work[p] \ G BY <1>3 DEF InLine
  <1>5. history.slips \subseteq history'.slips BY <1>2 DEF database
  <1>6. ASSUME p \notin Hasty
        PROVE  /\ Opens(p) /\ Line(work[p]) \subseteq G /\ Line(work[p]) = {w}
               /\ LeftFor(p, tui[p], work[p], owner, LeftNow(p), w.s)
               /\ tui[p].asks # "import"
               /\ \A v \in Line(work[p]) : v = w
    <2>1. Line(work[p]) = {w} /\ Opens(p) /\ tui[p].asks # "import" BY <1>3, <1>6, OneLine
    <2>2. LeftAt(p, tui[p], work[p], owner, LeftNow(p)) BY <1>5, <1>6, CalmParts
    <2>3. LeftFor(p, tui[p], work[p], owner, LeftNow(p), w.s) BY <1>2, <2>1, <2>2 DEF LeftAt
    <2> QED BY <2>1, <2>3
  <1>7. CASE OpensInChat(p, [tui[p] EXCEPT !.busy = FALSE], w, w.s)
    <2> DEFINE t == [tui[p] EXCEPT !.busy = FALSE]
    <2>1. /\ t \in TuiOf(Met) /\ ~t.busy /\ t.pending = tui[p].pending
          /\ t.streaming = tui[p].streaming
      BY <1>1 DEF TuiOf
    <2>2. OpensInChat(p, t, w, w.s) BY <1>7
    <2> HIDE DEF t, G
    <2> QED BY <1>1, <1>2, <1>3, <1>4, <1>6, <2>1, <2>2, OpensGood
  <1>8. CASE /\ tui' = [tui EXCEPT ![p].busy = FALSE, ![p].asks = "import", ![p].subject = w.s]
             /\ Continue(p, w, {})
    <2> DEFINE u == [tui[p] EXCEPT !.busy = FALSE, !.asks = "import", !.subject = w.s]
               N == {}
    <2>1. /\ u \in TuiOf(Met) /\ ~u.busy /\ u.asks = "import" /\ u.subject = w.s
          /\ u.chat = tui[p].chat /\ u.leased = tui[p].leased /\ u.pending = tui[p].pending
          /\ u.streaming = tui[p].streaming /\ u.live = tui[p].live
      BY <1>1 DEF TuiOf
    <2>2. tui' = [tui EXCEPT ![p] = u] /\ Continue(p, w, N) BY <1>8
    <2>3. N \in SUBSET ItemOf(Met) /\ Line(N) = {} BY DEF Line
    <2>4. UNCHANGED <<rows, owner, left>> /\ HistoryType BY <1>1, <1>2, KeptTo DEF database
    <2> HIDE DEF u, N
    <2>5. StepOf(p) /\ tui'[p] = u BY <1>1, <1>5, <2>1, <2>2, <2>3, <2>4, MessageOf
    <2>6. Moves(work[p], work'[p], G, N) BY <1>1, <2>2, ContinueMoves
    <2> HIDE DEF G
    <2>7. ASSUME p \notin Hasty PROVE CalmNow(p)
      <3>1. Line(work'[p]) = {} BY <1>6, <2>3, <2>6, <2>7, LineIs
      <3>2. /\ TurnAt(tui[p], Line(work[p]))
            /\ ChatAt(tui[p], LeftNow(p))
            /\ BehindAt(p, tui[p], work[p], owner, LeftNow(p))
        BY <1>5, <2>7, CalmParts
      <3>3. \A K \in {Trying, Settling, Arriving, Cleaning} : \A r :
               Some(work[p], K, r) => Some(work'[p], K, r)
        BY <1>4, <2>6, LineSome
      <3>4. LineAt(u, {}) BY DEF LineAt
      <3>5. TurnAt(u, {}) BY <1>6, <2>1, <2>7, <3>2 DEF TurnAt, Opens
      <3>6. ChatAt(u, LeftNow(p)) BY <2>1, <3>2 DEF ChatAt
      <3>7. PriorAt(u, {}, LeftNow(p)) BY DEF PriorAt
      <3>8. LeftAt(p, u, work'[p], owner', LeftNow(p))
        BY <1>6, <2>1, <2>4, <2>7, <3>1, <3>3 DEF LeftAt, LeftFor
      <3>9. HeldAt(p, u, work'[p], owner', rows', GoneNow(p))
        BY <2>1 DEF HeldAt, SwitchingAt
      <3>10. BehindAt(p, u, work'[p], owner', LeftNow(p))
        BY <1>3, <1>6, <2>1, <2>4, <2>7, <3>2, <3>3 DEF BehindAt
      <3> QED BY <2>5, <3>1, <3>4, <3>5, <3>6, <3>7, <3>8, <3>9, <3>10
              DEF CalmNow, CalmAt, LeftNow, GoneNow
    <2> QED BY <1>4, <2>1, <2>5, <2>6, <2>7, LineGood
  <1> QED BY <1>7, <1>8 DEF Opened

\* A transcript that is there, or not.
LEMMA RestoredGood ==
    ASSUME IInv, NEW p \in Tuis, NEW w \in work[p], Restored(p, w)
    PROVE  Good(p)
  <1>1. BaseInv /\ tui[p] \in TuiOf(Met) /\ w.s \in Met
    BY ItemKind DEF IInv, BaseInv, Nameless, Restored
  <1> DEFINE t == [tui[p] EXCEPT !.chat = w.s, !.leased = w.s, !.lost = FALSE]
             u == Drained(t)
             N == Drains(tui[p])
  <1>2. /\ t \in TuiOf(Met) /\ t.chat = w.s /\ t.leased = w.s /\ t.pending = tui[p].pending
        /\ t.busy = tui[p].busy /\ t.asks = tui[p].asks /\ t.streaming = tui[p].streaming
        /\ t.live = tui[p].live
    BY <1>1 DEF TuiOf
  <1> HIDE DEF t
  <1>3. /\ u \in TuiOf(Met) /\ u.chat = w.s /\ u.leased = w.s /\ u.pending = tui[p].pending
        /\ u.busy = tui[p].busy /\ u.asks = tui[p].asks /\ u.streaming = tui[p].streaming
        /\ u.live = tui[p].live
    BY <1>2, DrainedTo DEF SameChat
  <1>4. N \in SUBSET ItemOf(Met) /\ NoLine(N) BY <1>1, DrainedTo
  <1>5. /\ tui' = [tui EXCEPT ![p] = u] /\ Continue(p, w, N) /\ w.kind = "restored"
        /\ UNCHANGED <<rows, owner, left>>
    BY DEF Restored, t
  <1>6. /\ HistoryType /\ history.slips \subseteq history'.slips
        /\ tui[p].leased = w.s \/ GoneNow(p)
    BY <1>1, SlipTo, KeptTo DEF Restored, SameSlips, Slipped, GoneNow
  <1> HIDE DEF u, N
  <1>7. StepOf(p) /\ tui'[p] = u BY <1>1, <1>3, <1>4, <1>5, <1>6, MessageOf
  <1>8. Moves(work[p], work'[p], {w}, N) BY <1>1, <1>5, ContinueMoves
  <1>9. /\ OfLine(w) /\ w.kind \in LKinds /\ w.kind \notin {"opened"} \cup ImportKinds
        /\ \A s : ~TakesItem(w, s)
    BY <1>5 DEF OfLine, LKinds, ImportKinds, TakesItem
  <1>10. ChatAt(u, LeftNow(p)) BY <1>3 DEF ChatAt
  <1>11. ASSUME p \notin Hasty
         PROVE  /\ ~u.busy /\ u.asks = "nothing"
                /\ \A s \in Sessions : s \in Counts(tui[p]) => s \in Counts(u) \/ LeftNow(p)
    <2>1. ~u.busy /\ u.asks = "nothing" BY <1>3, <1>9, <1>11, OneLine
    <2>2. PriorAt(tui[p], {w}, LeftNow(p)) BY <1>6, <1>9, <1>11, PriorOf
    <2>3. LeftNow(p) \/ Within(tui[p], {w.s}) BY <1>9, <2>2 DEF PriorAt
    <2> QED BY <1>3, <2>1, <2>3, NoneAssumption DEF Counts, Within
  <1> QED BY <1>3, <1>4, <1>5, <1>6, <1>7, <1>8, <1>9, <1>10, <1>11, CloseGood

LEMMA NotRestoredGood ==
    ASSUME IInv, NEW p \in Tuis, NEW w \in work[p], NotRestored(p, w)
    PROVE  Good(p)
  <1>1. BaseInv /\ tui[p] \in TuiOf(Met) BY DEF IInv, BaseInv
  <1> DEFINE u == Drained(tui[p])
             N == Drains(tui[p])
  <1>2. /\ u \in TuiOf(Met) /\ u.chat = tui[p].chat /\ u.leased = tui[p].leased
        /\ u.pending = tui[p].pending /\ u.busy = tui[p].busy /\ u.asks = tui[p].asks
        /\ u.streaming = tui[p].streaming /\ u.live = tui[p].live
    BY <1>1, DrainedTo DEF SameChat
  <1>3. N \in SUBSET ItemOf(Met) /\ NoLine(N) BY <1>1, DrainedTo
  <1>4. /\ tui' = [tui EXCEPT ![p] = u] /\ Continue(p, w, N) /\ w.kind = "notRestored"
        /\ UNCHANGED database
    BY DEF NotRestored
  <1>5. HistoryType /\ history.slips \subseteq history'.slips /\ UNCHANGED <<rows, owner, left>>
    BY <1>1, <1>4, KeptTo DEF SameSlips, database
  <1> HIDE DEF u, N
  <1>6. StepOf(p) /\ tui'[p] = u BY <1>1, <1>2, <1>3, <1>4, <1>5, MessageOf
  <1>7. Moves(work[p], work'[p], {w}, N) BY <1>1, <1>4, ContinueMoves
  <1>8. /\ OfLine(w) /\ w.kind \in LKinds /\ w.kind \notin {"opened"} \cup ImportKinds
        /\ \A s : ~TakesItem(w, s)
    BY <1>4 DEF OfLine, LKinds, ImportKinds, TakesItem
  <1>9. ASSUME p \notin Hasty PROVE ~u.busy /\ u.asks = "nothing" /\ ChatAt(u, LeftNow(p))
    <2>1. ~u.busy /\ u.asks = "nothing" BY <1>2, <1>8, <1>9, OneLine
    <2>2. ChatAt(tui[p], LeftNow(p)) BY <1>5, <1>9, CalmParts
    <2> QED BY <1>2, <2>1, <2>2 DEF ChatAt
  <1>10. Counts(u) = Counts(tui[p]) BY <1>2 DEF Counts
  <1> QED BY <1>2, <1>3, <1>5, <1>6, <1>7, <1>8, <1>9, <1>10, CloseGood

-----------------------------------------------------------------------------
(* Keys by which History begins.                                           *)

\* The user's item n is the line, of a TUI that had none.
LEMMA BeginGood ==
    ASSUME IInv, NEW p \in Tuis, NEW n \in ItemOf(Met), n.kind \in HKinds, n.kind # "opened",
           work' = [work EXCEPT ![p] = @ \cup {n}],
           UNCHANGED <<rows, owner, left>>, HistoryType, history.slips \subseteq history'.slips,
           NEW u \in TuiOf(Met), tui' = [tui EXCEPT ![p] = u], u.busy,
           u.asks = tui[p].asks, u.subject = tui[p].subject, u.chat = tui[p].chat,
           u.leased = tui[p].leased, u.pending = tui[p].pending,
           u.streaming = tui[p].streaming, u.live = tui[p].live,
           u.asks = "import" => n.kind \in ImportKinds,
           n.kind \in ImportKinds => u.asks = "import" /\ n.s = u.subject,
           p \notin Hasty => /\ Line(work[p]) = {} /\ ~tui[p].streaming
                             /\ PriorAt(tui[p], {n}, LeftNow(p))
    PROVE  Good(p)
  <1> DEFINE N == {n}
             G == {}
  <1>1. BaseInv BY DEF IInv
  <1>2. N \in SUBSET ItemOf(Met) /\ Line(N) = {n} BY DEF Line
  <1>3. work' = [work EXCEPT ![p] = @ \cup N] OBVIOUS
  <1>4. InLine(G) BY DEF InLine
  <1> HIDE DEF N
  <1>5. StepOf(p) /\ tui'[p] = u BY <1>1, <1>2, <1>3, CommandOf
  <1>6. Moves(work[p], work'[p], G, N) BY <1>1, <1>3, AddMoves
  <1>7. ASSUME p \notin Hasty PROVE CalmNow(p)
    <2>1. Line(work'[p]) = {n} BY <1>2, <1>6, <1>7, LineIs
    <2>2. /\ TurnAt(tui[p], {}) /\ ChatAt(tui[p], LeftNow(p))
          /\ LeftAt(p, tui[p], work[p], owner, LeftNow(p))
          /\ HeldAt(p, tui[p], work[p], owner, rows, GoneNow(p))
          /\ BehindAt(p, tui[p], work[p], owner, LeftNow(p))
      BY <1>7, CalmParts
    <2>3. \A K \in {Trying, Settling, Arriving, Cleaning} : \A s :
             Some(work[p], K, s) => Some(work'[p], K, s)
      BY <1>4, <1>6, LineSome
    <2>4. LineAt(u, {n}) BY DEF LineAt, HKinds, LKinds
    <2>5. TurnAt(u, {n}) BY <1>7, <2>2 DEF TurnAt
    <2>6. ChatAt(u, LeftNow(p)) BY <2>2 DEF ChatAt
    <2>7. PriorAt(u, {n}, LeftNow(p)) BY <1>7 DEF PriorAt, Within
    <2>8. LeftAt(p, u, work'[p], owner', LeftNow(p)) BY <2>1, <2>2, <2>3 DEF LeftAt, LeftFor
    <2>9. HeldAt(p, u, work'[p], owner', rows', GoneNow(p))
      BY <1>7, <2>1, <2>2, <2>3 DEF HeldAt, SwitchingAt
    <2>10. BehindAt(p, u, work'[p], owner', LeftNow(p)) BY <1>7, <2>1, <2>2, <2>3 DEF BehindAt
    <2> QED BY <1>5, <2>1, <2>4, <2>5, <2>6, <2>7, <2>8, <2>9, <2>10
            DEF CalmNow, CalmAt, LeftNow, GoneNow
  <1> HIDE DEF G
  <1> QED BY <1>4, <1>5, <1>6, <1>7, LineGood

\* History is at rest when it answers no key, or asks for one.
LEMMA AtRest ==
    ASSUME IInv, NEW p \in Tuis, p \notin Hasty, ~tui[p].busy,
           tui[p].asks # "nothing" \/ ~Opens(p)
    PROVE  Line(work[p]) = {}
  <1>1. LineAt(tui[p], Line(work[p])) BY DEF IInv, CalmAt
  <1>2. ASSUME NEW w \in Line(work[p]) PROVE FALSE
    <2>1. CASE w.kind \in HKinds BY <1>1, <2>1 DEF LineAt
    <2>2. CASE w.kind \in LKinds BY <1>1, <2>2 DEF LineAt, Opens, OpeningAt
    <2> QED BY <2>1, <2>2 DEF Line
  <1> QED BY <1>2

\* What History is told to leave is the chat's session.
LEMMA PriorLeft ==
    ASSUME IInv, NEW p \in Tuis, p \notin Hasty, history.slips \subseteq history'.slips
    PROVE  LET ids == Known({Prior(tui[p])})
           IN (LeftNow(p) \/ Within(tui[p], ids)) /\ (\A r, q \in ids : r = q)
  <1>1. ChatAt(tui[p], LeftNow(p)) BY CalmParts
  <1> QED BY <1>1 DEF ChatAt, Within, Known, Prior

LEMMA PriorMet ==
    ASSUME BaseInv, NEW p \in Tuis
    PROVE  Known({Prior(tui[p])}) \in SUBSET Met
  BY DEF BaseInv, Known, Prior, TuiOf

LEMMA BeginOpenGood ==
    ASSUME IInv, NEW p \in Tuis, BeginOpen(p)
    PROVE  Good(p)
  <1>1. BaseInv /\ tui[p] \in TuiOf(Met) BY DEF IInv, BaseInv
  <1> DEFINE ids == Known({Prior(tui[p])})
             u == [tui[p] EXCEPT !.busy = TRUE]
  <1>2. PICK s \in Exist : HistoryCommand(p, Of("open", s, ids)) BY DEF BeginOpen
  <1> DEFINE n == Of("open", s, ids)
  <1>3. ids \in SUBSET Met /\ s \in Met BY <1>1, PriorMet DEF Exist, Met
  <1>4. n \in ItemOf(Met) BY <1>3, Items DEF Kinds, HistoryCalls
  <1>5. n.kind = "open" /\ n.others = ids BY Single
  <1>6. /\ u \in TuiOf(Met) /\ u.busy
        /\ u.asks = tui[p].asks /\ u.subject = tui[p].subject /\ u.chat = tui[p].chat
        /\ u.leased = tui[p].leased /\ u.pending = tui[p].pending
        /\ u.streaming = tui[p].streaming /\ u.live = tui[p].live
    BY <1>1 DEF TuiOf
  <1>7. /\ work' = [work EXCEPT ![p] = @ \cup {n}] /\ tui' = [tui EXCEPT ![p] = u]
        /\ Command(p) /\ CanMutate(p)
    BY <1>2 DEF HistoryCommand
  <1> HIDE DEF n, u
  <1>8. HistoryType /\ history.slips \subseteq history'.slips /\ UNCHANGED <<rows, owner, left>>
    BY <1>1, <1>7, CommandTo DEF SameSlips
  <1>9. ~tui[p].busy /\ tui[p].asks = "nothing" /\ ~tui[p].streaming BY <1>7 DEF CanMutate
  <1>10. ASSUME p \notin Hasty PROVE Line(work[p]) = {} /\ PriorAt(tui[p], {n}, LeftNow(p))
    <2>1. ~Opens(p) BY <1>7, <1>10, Attending DEF CanMutate
    <2>2. Line(work[p]) = {} BY <1>9, <1>10, <2>1, AtRest
    <2>3. (LeftNow(p) \/ Within(tui[p], ids)) /\ (\A r, q \in ids : r = q)
      BY <1>8, <1>10, PriorLeft
    <2>4. PriorAt(tui[p], {n}, LeftNow(p)) BY <1>5, <2>3 DEF PriorAt, LKinds
    <2> QED BY <2>2, <2>4
  <1>11. n.kind \in HKinds /\ n.kind \notin ImportKinds BY <1>5 DEF HKinds, ImportKinds
  <1> QED BY <1>4, <1>5, <1>6, <1>7, <1>8, <1>9, <1>10, <1>11, BeginGood

LEMMA BeginArchiveGood ==
    ASSUME IInv, NEW p \in Tuis, BeginArchive(p)
    PROVE  Good(p)
  <1>1. BaseInv /\ tui[p] \in TuiOf(Met) BY DEF IInv, BaseInv
  <1> DEFINE u == [tui[p] EXCEPT !.busy = TRUE]
  <1>2. PICK s \in Exist : HistoryCommand(p, To("archive", s)) BY DEF BeginArchive
  <1> DEFINE n == To("archive", s)
  <1>3. s \in Met BY DEF Exist, Met
  <1>4. n \in ItemOf(Met) BY <1>3, Items DEF Kinds, HistoryCalls
  <1>5. n.kind = "archive" BY Single
  <1>6. /\ u \in TuiOf(Met) /\ u.busy
        /\ u.asks = tui[p].asks /\ u.subject = tui[p].subject /\ u.chat = tui[p].chat
        /\ u.leased = tui[p].leased /\ u.pending = tui[p].pending
        /\ u.streaming = tui[p].streaming /\ u.live = tui[p].live
    BY <1>1 DEF TuiOf
  <1>7. /\ work' = [work EXCEPT ![p] = @ \cup {n}] /\ tui' = [tui EXCEPT ![p] = u]
        /\ Command(p) /\ CanMutate(p)
    BY <1>2 DEF HistoryCommand
  <1> HIDE DEF n, u
  <1>8. HistoryType /\ history.slips \subseteq history'.slips /\ UNCHANGED <<rows, owner, left>>
    BY <1>1, <1>7, CommandTo DEF SameSlips
  <1>9. ~tui[p].busy /\ tui[p].asks = "nothing" /\ ~tui[p].streaming BY <1>7 DEF CanMutate
  <1>10. ASSUME p \notin Hasty PROVE Line(work[p]) = {}
    <2>1. ~Opens(p) BY <1>7, <1>10, Attending DEF CanMutate
    <2> QED BY <1>9, <1>10, <2>1, AtRest
  <1>11. n.kind \in HKinds /\ n.kind \notin ImportKinds BY <1>5 DEF HKinds, ImportKinds
  <1>12. PriorAt(tui[p], {n}, LeftNow(p)) BY <1>5 DEF PriorAt, LKinds, Leaving
  <1> QED BY <1>4, <1>5, <1>6, <1>7, <1>8, <1>9, <1>10, <1>11, <1>12, BeginGood

LEMMA BeginDeleteGood ==
    ASSUME IInv, NEW p \in Tuis, BeginDelete(p)
    PROVE  Good(p)
  <1>1. BaseInv /\ tui[p] \in TuiOf(Met) BY DEF IInv, BaseInv
  <1> DEFINE u == [tui[p] EXCEPT !.busy = TRUE, !.dialogBusy = TRUE]
  <1>2. PICK s \in Exist : work' = [work EXCEPT ![p] = @ \cup {[To("delete", s) EXCEPT !.flag = TRUE]}]
    BY DEF BeginDelete
  <1> DEFINE n == [To("delete", s) EXCEPT !.flag = TRUE]
  <1>3. To("delete", s) \in ItemOf(Met) BY Items DEF Kinds, HistoryCalls, Exist, Met
  <1>4. n \in ItemOf(Met) BY <1>3, Items
  <1>5. n.kind = "delete" BY DEF To, Of
  <1>6. /\ u \in TuiOf(Met) /\ u.busy
        /\ u.asks = tui[p].asks /\ u.subject = tui[p].subject /\ u.chat = tui[p].chat
        /\ u.leased = tui[p].leased /\ u.pending = tui[p].pending
        /\ u.streaming = tui[p].streaming /\ u.live = tui[p].live
    BY <1>1 DEF TuiOf
  <1>7. /\ work' = [work EXCEPT ![p] = @ \cup {n}] /\ tui' = [tui EXCEPT ![p] = u]
        /\ Command(p) /\ CanMutate(p)
    BY <1>2 DEF BeginDelete
  <1> HIDE DEF n, u
  <1>8. HistoryType /\ history.slips \subseteq history'.slips /\ UNCHANGED <<rows, owner, left>>
    BY <1>1, <1>7, CommandTo DEF SameSlips
  <1>9. ~tui[p].busy /\ tui[p].asks = "nothing" /\ ~tui[p].streaming BY <1>7 DEF CanMutate
  <1>10. ASSUME p \notin Hasty PROVE Line(work[p]) = {}
    <2>1. ~Opens(p) BY <1>7, <1>10, Attending DEF CanMutate
    <2> QED BY <1>9, <1>10, <2>1, AtRest
  <1>11. n.kind \in HKinds /\ n.kind \notin ImportKinds BY <1>5 DEF HKinds, ImportKinds
  <1>12. PriorAt(tui[p], {n}, LeftNow(p)) BY <1>5 DEF PriorAt, LKinds, Leaving
  <1> QED BY <1>4, <1>5, <1>6, <1>7, <1>8, <1>9, <1>10, <1>11, <1>12, BeginGood

\* A dialog is answered while no turn streams.
LEMMA Answering ==
    ASSUME IInv, NEW p \in Tuis, p \notin Hasty, NEW d \in {"import", "fork"}, Answers(p, d)
    PROVE  Line(work[p]) = {} /\ ~tui[p].streaming
  <1>1. tui[p].asks # "nothing" /\ ~tui[p].busy BY DEF Answers
  <1>2. TurnAt(tui[p], Line(work[p])) BY DEF IInv, CalmAt
  <1> QED BY <1>1, <1>2, AtRest DEF TurnAt, OpeningAt

LEMMA ConfirmForkGood ==
    ASSUME IInv, NEW p \in Tuis, ConfirmFork(p)
    PROVE  Good(p)
  <1>1. BaseInv /\ tui[p] \in TuiOf(Met) BY DEF IInv, BaseInv
  <1> DEFINE ids == Known({Prior(tui[p])})
             u == [tui[p] EXCEPT !.busy = TRUE, !.dialogBusy = TRUE]
             n == Of("fork", tui[p].subject, ids)
  <1>2. Answers(p, "fork") /\ tui[p].asks = "fork" BY DEF ConfirmFork, Answers
  <1>3. ids \in SUBSET Met /\ tui[p].subject \in Met BY <1>1, <1>2, PriorMet DEF TuiOf
  <1>4. n \in ItemOf(Met) BY <1>3, Items DEF Kinds, HistoryCalls
  <1>5. n.kind = "fork" /\ n.others = ids BY Single
  <1>6. /\ u \in TuiOf(Met) /\ u.busy
        /\ u.asks = tui[p].asks /\ u.subject = tui[p].subject /\ u.chat = tui[p].chat
        /\ u.leased = tui[p].leased /\ u.pending = tui[p].pending
        /\ u.streaming = tui[p].streaming /\ u.live = tui[p].live
    BY <1>1 DEF TuiOf
  <1>7. work' = [work EXCEPT ![p] = @ \cup {n}] /\ tui' = [tui EXCEPT ![p] = u] /\ Command(p)
    BY DEF ConfirmFork
  <1> HIDE DEF n, u
  <1>8. HistoryType /\ history.slips \subseteq history'.slips /\ UNCHANGED <<rows, owner, left>>
    BY <1>1, <1>7, CommandTo DEF SameSlips
  <1>9. ASSUME p \notin Hasty
        PROVE  /\ Line(work[p]) = {} /\ ~tui[p].streaming
               /\ PriorAt(tui[p], {n}, LeftNow(p))
    <2>1. Line(work[p]) = {} /\ ~tui[p].streaming BY <1>2, <1>9, Answering
    <2>2. (LeftNow(p) \/ Within(tui[p], ids)) /\ (\A r, q \in ids : r = q)
      BY <1>8, <1>9, PriorLeft
    <2>3. PriorAt(tui[p], {n}, LeftNow(p)) BY <1>5, <2>2 DEF PriorAt, LKinds
    <2> QED BY <2>1, <2>3
  <1>10. n.kind \in HKinds /\ n.kind \notin ImportKinds BY <1>5 DEF HKinds, ImportKinds
  <1> QED BY <1>2, <1>4, <1>5, <1>6, <1>7, <1>8, <1>9, <1>10, BeginGood

LEMMA ConfirmImportGood ==
    ASSUME IInv, NEW p \in Tuis, ConfirmImport(p)
    PROVE  Good(p)
  <1>1. BaseInv /\ tui[p] \in TuiOf(Met) BY DEF IInv, BaseInv
  <1> DEFINE u == [tui[p] EXCEPT !.busy = TRUE, !.dialogBusy = TRUE]
             n == To("import", tui[p].subject)
  <1>2. Answers(p, "import") /\ tui[p].asks = "import" BY DEF ConfirmImport, Answers
  <1>3. tui[p].subject \in Met BY <1>1, <1>2 DEF TuiOf
  <1>4. n \in ItemOf(Met) BY <1>3, Items DEF Kinds, HistoryCalls
  <1>5. n.kind = "import" /\ n.s = tui[p].subject BY Single
  <1>6. /\ u \in TuiOf(Met) /\ u.busy
        /\ u.asks = tui[p].asks /\ u.subject = tui[p].subject /\ u.chat = tui[p].chat
        /\ u.leased = tui[p].leased /\ u.pending = tui[p].pending
        /\ u.streaming = tui[p].streaming /\ u.live = tui[p].live
    BY <1>1 DEF TuiOf
  <1>7. /\ work' = [work EXCEPT ![p] = @ \cup {n}] /\ tui' = [tui EXCEPT ![p] = u]
        /\ UNCHANGED database
    BY DEF ConfirmImport
  <1> HIDE DEF n, u
  <1>8. HistoryType /\ history.slips \subseteq history'.slips /\ UNCHANGED <<rows, owner, left>>
    BY <1>1, <1>7, KeptTo DEF SameSlips, database
  <1>9. p \notin Hasty => Line(work[p]) = {} /\ ~tui[p].streaming BY <1>2, Answering
  <1>10. PriorAt(tui[p], {n}, LeftNow(p)) BY <1>5 DEF PriorAt, LKinds, Leaving
  <1>11. n.kind \in HKinds /\ n.kind \in ImportKinds BY <1>5 DEF HKinds, ImportKinds
  <1> QED BY <1>2, <1>4, <1>5, <1>6, <1>7, <1>8, <1>9, <1>10, <1>11, BeginGood

LEMMA DeclineForkGood ==
    ASSUME IInv, NEW p \in Tuis, DeclineFork(p)
    PROVE  Good(p)
  <1>1. BaseInv /\ tui[p] \in TuiOf(Met) BY DEF IInv, BaseInv
  <1> DEFINE u == [tui[p] EXCEPT !.asks = "nothing"]
             G == {}
             N == {}
  <1>2. Answers(p, "fork") /\ tui[p].asks = "fork" /\ UNCHANGED <<database, work>>
    BY DEF DeclineFork, Answers
  <1>3. /\ u \in TuiOf(Met) /\ u.asks = "nothing" /\ u.busy = tui[p].busy
        /\ u.chat = tui[p].chat
        /\ u.leased = tui[p].leased /\ u.pending = tui[p].pending
        /\ u.streaming = tui[p].streaming /\ u.live = tui[p].live
    BY <1>1 DEF TuiOf
  <1>4. tui' = [tui EXCEPT ![p] = u] /\ tui'[p] = u BY <1>1 DEF DeclineFork, BaseInv
  <1>5. DbStep(p) /\ Met' = Met /\ history.slips \subseteq history'.slips
    BY <1>1, <1>2, KeptTo, QuietDb DEF SameSlips, Met, database
  <1>6. StepOf(p)
    <2>1. work' = [work EXCEPT ![p] = work'[p]] /\ work'[p] \in SUBSET ItemOf(Met)
      BY <1>1, <1>2 DEF BaseInv
    <2> QED BY <1>3, <1>4, <1>5, <2>1 DEF StepOf
  <1>7. Moves(work[p], work'[p], G, N) BY <1>2 DEF Moves, Same
  <1>8. InLine(G) BY DEF InLine
  <1> HIDE DEF u, G, N
  <1>9. ASSUME p \notin Hasty PROVE CalmNow(p)
    <2>1. Line(work[p]) = {} /\ ~tui[p].streaming BY <1>2, <1>9, Answering
    <2>2. Line(work'[p]) = {} BY <1>2, <2>1
    <2>3. /\ TurnAt(tui[p], {}) /\ ChatAt(tui[p], LeftNow(p))
          /\ HeldAt(p, tui[p], work[p], owner, rows, GoneNow(p))
          /\ BehindAt(p, tui[p], work[p], owner, LeftNow(p))
      BY <1>5, <1>9, <2>1, CalmParts
    <2>4. LineAt(u, {}) BY DEF LineAt
    <2>5. TurnAt(u, {}) BY <1>3, <2>1, <2>3 DEF TurnAt
    <2>6. ChatAt(u, LeftNow(p)) BY <1>3, <2>3 DEF ChatAt
    <2>7. PriorAt(u, {}, LeftNow(p)) BY DEF PriorAt
    <2>8. LeftAt(p, u, work'[p], owner', LeftNow(p)) BY <1>3, <2>2 DEF LeftAt
    <2>9. HeldAt(p, u, work'[p], owner', rows', GoneNow(p))
      BY <1>2, <1>3, <2>1, <2>3 DEF HeldAt, SwitchingAt, database
    <2>10. BehindAt(p, u, work'[p], owner', LeftNow(p))
      BY <1>2, <1>3, <2>1, <2>3 DEF BehindAt, database
    <2> QED BY <1>4, <2>2, <2>4, <2>5, <2>6, <2>7, <2>8, <2>9, <2>10
            DEF CalmNow, CalmAt, LeftNow, GoneNow
  <1> QED BY <1>3, <1>4, <1>6, <1>7, <1>8, <1>9, LineGood

-----------------------------------------------------------------------------
(* The clock, and the steps together.                                      *)

\* Time only lets leases expire.
LEMMA TickKeeps ==
    ASSUME IInv, Tick
    PROVE  IInv'
  <1>1. BaseInv /\ ExpiryInv BY DEF IInv
  <1> DEFINE late == {<<owner[s], "late">> : s \in {r \in Sessions : left[r] = 1}}
  <1>2. history' = [history EXCEPT !.slips = history.slips \cup late]
        /\ UNCHANGED <<rows, owner, tui, work>>
        /\ left' = [s \in Sessions |-> IF left[s] > 0 THEN left[s] - 1 ELSE 0]
    BY DEF Tick
  <1>3. late \subseteq Slips
    BY <1>1 DEF ExpiryInv, Slips
  <1>4. \A s \in Sessions : left[s] = 1 => <<owner[s], "late">> \in late OBVIOUS
  <1> HIDE DEF late
  <1>5. /\ HistoryType /\ history.slips \subseteq history'.slips /\ late \subseteq history'.slips
    <2>1. history.slips \cup late \in SUBSET Slips BY <1>1, <1>3 DEF BaseInv
    <2> QED BY <1>1, <1>2, <2>1 DEF BaseInv, HistoryType
  <1>6. \A s \in Sessions : left[s] \in 0..TTL /\ left'[s] = IF left[s] > 0 THEN left[s] - 1 ELSE 0
    BY <1>1, <1>2 DEF BaseInv
  <1>7. Met' = Met BY <1>2 DEF Met
  <1>8. BaseInv'
    <2>1. TTL \in Nat BY TTLAssumption
    <2>2. \A s \in Sessions : left'[s] \in 0..TTL BY <1>6, <2>1
    <2>3. left' \in [Sessions -> 0..TTL] BY <1>2, <2>2
    <2> QED BY <1>1, <1>2, <1>5, <1>7, <2>3 DEF BaseInv, HistoryType
  <1>9. ExpiryInv'
    <2> SUFFICES ASSUME NEW s \in Sessions
                 PROVE  /\ left'[s] > 0 => owner[s] \in Tuis
                        /\ (owner[s] # None /\ left'[s] = 0) => <<owner[s], "late">> \in history'.slips
      BY <1>2 DEF ExpiryInv, Has
    <2>1. left[s] \in Nat BY <1>6, TTLAssumption
    <2>2. CASE left[s] > 1
      BY <1>1, <1>6, <2>1, <2>2 DEF ExpiryInv
    <2>3. CASE left[s] = 1 BY <1>4, <1>5, <1>6, <2>3
    <2>4. CASE left[s] = 0 BY <1>1, <1>5, <1>6, <2>4 DEF ExpiryInv, Has
    <2> QED BY <2>1, <2>2, <2>3, <2>4
  <1>10. ASSUME NEW p \in Tuis PROVE PendingAt(tui'[p], work'[p])
    BY <1>2 DEF IInv
  <1>11. ASSUME NEW p \in Tuis \ Hasty PROVE CalmNow(p)
    <2> DEFINE G == {}
               N == {}
    <2>1. Calm(p) BY DEF IInv, Calm
    <2>2. NoLine(G) /\ NoLine(N) /\ \A K, s : ~Some(G, K, s) BY DEF NoLine, Some
    <2>3. Moves(work[p], work'[p], G, N) BY <1>2 DEF Moves, Same
    <2> HIDE DEF G, N
    <2>4. FieldStep(p) BY <1>2, <2>1 DEF FieldStep, Calm, CalmAt, TurnAt
    <2>5. ChatStep(p, G)
      <3>1. ChatAt(tui'[p], LeftNow(p)) BY <1>2, <1>5, <2>1 DEF Calm, CalmAt, ChatAt, LeftNow
      <3> QED BY <1>2, <2>2, <3>1 DEF ChatStep
    <2>6. BeliefStep(p, G) BY <1>2, <2>2 DEF BeliefStep
    <2>7. AccountStep(p, G) BY <1>2, <2>2 DEF AccountStep
    <2>8. AsideStep(p, G, N) BY <1>5, <2>2, <2>3, <2>4, <2>5, <2>6, <2>7 DEF AsideStep
    <2> QED BY <1>1, <1>8, <2>1, <2>8, AsideKeepsCalm
  <1> QED BY <1>8, <1>9, <1>10, <1>11 DEF IInv, CalmNow

LEMMA InitOK == Init => IInv
  <1> SUFFICES ASSUME Init PROVE IInv
    OBVIOUS
  <1>1. \A s \in Sessions : owner[s] = None /\ left[s] = 0 BY DEF Init
  <1>2. \A p \in Tuis : tui[p] = Started /\ work[p] = {} BY DEF Init
  <1>3. PICK budget \in Budgets :
           history = [commands |-> budget.commands, failures |-> budget.failures, slips |-> {}]
    BY DEF Init
  <1>4. Started \in TuiOf(Met) BY DEF Started, TuiOf
  <1>5. BaseInv
    <2>1. rows \in [Sessions -> {"new", "kept", "deleted"}] BY DEF Init
    <2>2. owner \in [Sessions -> Tuis \cup {None}] BY DEF Init
    <2>3. left \in [Sessions -> 0..TTL]
      <3>1. 0 \in 0..TTL BY TTLAssumption
      <3> QED BY <3>1 DEF Init
    <2>4. tui \in [Tuis -> TuiOf(Met)] BY <1>4 DEF Init
    <2>5. work \in [Tuis -> SUBSET ItemOf(Met)] BY DEF Init
    <2>6. history \in [commands : [Tuis -> Nat], failures : Nat, slips : SUBSET Slips]
      BY <1>3, BudgetsAssumption
    <2> QED BY <2>1, <2>2, <2>3, <2>4, <2>5, <2>6 DEF BaseInv
  <1>6. ExpiryInv BY <1>1 DEF ExpiryInv
  <1>7. \A p \in Tuis : PendingAt(tui[p], work[p]) BY <1>2 DEF PendingAt, Started
  <1>8. ASSUME NEW p \in Tuis \ Hasty
        PROVE  CalmAt(p, tui[p], work[p], rows, owner, history.slips)
    <2>1. Line({}) = {} BY DEF Line
    <2>2. LineAt(Started, {}) BY DEF LineAt
    <2>3. TurnAt(Started, {}) BY DEF TurnAt, OpeningAt, Started
    <2>4. \A b : ChatAt(Started, b) BY DEF ChatAt, Started
    <2>5. \A b : PriorAt(Started, {}, b) BY DEF PriorAt
    <2>6. \A b : LeftAt(p, Started, {}, owner, b) BY <2>1 DEF LeftAt, Started
    <2>7. \A b : HeldAt(p, Started, {}, owner, rows, b) BY NoneAssumption DEF HeldAt, Started
    <2>8. \A b : BehindAt(p, Started, {}, owner, b) BY <1>1, NoneAssumption DEF BehindAt
    <2> QED BY <1>2, <2>1, <2>2, <2>3, <2>4, <2>5, <2>6, <2>7, <2>8 DEF CalmAt
  <1> QED BY <1>5, <1>6, <1>7, <1>8 DEF IInv

LEMMA SameKeeps ==
    ASSUME IInv, UNCHANGED vars
    PROVE  IInv'
  <1>1. rows' = rows /\ owner' = owner /\ left' = left /\ tui' = tui /\ work' = work
        /\ history' = history
    BY DEF vars
  <1>2. Met' = Met BY <1>1 DEF Met
  <1>3. BaseInv' BY <1>1, <1>2 DEF IInv, BaseInv
  <1>4. ExpiryInv' BY <1>1 DEF IInv, ExpiryInv, Has
  <1> QED BY <1>1, <1>3, <1>4 DEF IInv

\* A key of p, or its timer.
LEMMA KeysKeep ==
    ASSUME IInv, NEW p \in Tuis, Heartbeat(p) \/ UserStep(p)
    PROVE  IInv'
  <1>1. Good(p)
    BY HeartbeatGood, BeginOpenGood, BeginArchiveGood, BeginDeleteGood, SkipImportGood,
       ConfirmImportGood, DeclineForkGood, ConfirmForkGood, NewChatGood, SubmitGood,
       RetrySaveGood, CancelGood
       DEF UserStep
  <1> QED BY <1>1, GoodKeeps

\* A database call or message of p.
LEMMA WorkKeeps ==
    ASSUME IInv, NEW p \in Tuis, WorkStep(p)
    PROVE  IInv'
  <1>1. PICK w \in work[p] :
           \/ Beat(p, w) \/ LeaseLost(p, w)
           \/ ReleaseLease(p, w) \/ CompareEpochs(p, w) \/ Reacquire(p, w) \/ RestoreLease(p, w)
           \/ Released(p, w) \/ ReleaseFailed(p, w) \/ RetryRelease(p, w)
           \/ OpenTarget(p, w) \/ BumpEpoch(p, w) \/ Validate(p, w) \/ Leave(p, w) \/ Undo(p, w)
           \/ OpenFailed(p, w) \/ NeedFork(p, w) \/ Opened(p, w)
           \/ Import(p, w) \/ Imported(p, w) \/ ImportFailed(p, w)
           \/ Fork(p, w) \/ ForkLease(p, w) \/ Load(p, w)
           \/ Restored(p, w) \/ NotRestored(p, w)
           \/ Archive(p, w) \/ Delete(p, w) \/ Removed(p, w) \/ RemoveFailed(p, w)
           \/ CreateSession(p, w) \/ FirstLease(p, w) \/ AppendTurn(p, w) \/ Bound(p, w)
           \/ Run(p, w) \/ Done(p, w) \/ Failed(p, w) \/ Cancelled(p, w)
           \/ Drain(p, w) \/ Attach(p, w) \/ PersistFailed(p, w) \/ Persisted(p, w)
           \/ Attached(p, w)
    BY DEF WorkStep
  <1>2. ASSUME \/ Beat(p, w) \/ LeaseLost(p, w)
               \/ ReleaseLease(p, w) \/ CompareEpochs(p, w) \/ Reacquire(p, w) \/ RestoreLease(p, w)
               \/ Released(p, w) \/ ReleaseFailed(p, w) \/ RetryRelease(p, w)
        PROVE  Good(p)
    BY <1>2, BeatGood, LeaseLostGood, ReleaseLeaseGood, CompareEpochsGood, ReacquireGood,
       RestoreLeaseGood, ReleasedGood, ReleaseFailedGood, RetryReleaseGood
  <1>3. ASSUME \/ OpenTarget(p, w) \/ BumpEpoch(p, w) \/ Validate(p, w) \/ Leave(p, w) \/ Undo(p, w)
               \/ OpenFailed(p, w) \/ NeedFork(p, w) \/ Opened(p, w)
               \/ Import(p, w) \/ Imported(p, w) \/ ImportFailed(p, w)
        PROVE  Good(p)
    BY <1>3, OpenTargetGood, BumpEpochGood, ValidateGood, LeaveGood, UndoGood, OpenFailedGood,
       NeedForkGood, OpenedGood, ImportGood, ImportedGood, ImportFailedGood
  <1>4. ASSUME \/ Fork(p, w) \/ ForkLease(p, w) \/ Load(p, w)
               \/ Restored(p, w) \/ NotRestored(p, w)
               \/ Archive(p, w) \/ Delete(p, w) \/ Removed(p, w) \/ RemoveFailed(p, w)
        PROVE  Good(p)
    BY <1>4, ForkGood, ForkLeaseGood, LoadGood, RestoredGood, NotRestoredGood, ArchiveGood,
       DeleteGood, RemovedGood, RemoveFailedGood
  <1>5. ASSUME \/ CreateSession(p, w) \/ FirstLease(p, w) \/ AppendTurn(p, w) \/ Bound(p, w)
               \/ Run(p, w) \/ Done(p, w) \/ Failed(p, w) \/ Cancelled(p, w)
               \/ Drain(p, w) \/ Attach(p, w) \/ PersistFailed(p, w) \/ Persisted(p, w)
               \/ Attached(p, w)
        PROVE  Good(p)
    BY <1>5, CreateSessionGood, FirstLeaseGood, AppendTurnGood, BoundGood, RunGood, DoneGood,
       FailedGood, CancelledGood, DrainGood, AttachGood, PersistFailedGood, PersistedGood,
       AttachedGood
  <1>6. Good(p) BY <1>1, <1>2, <1>3, <1>4, <1>5
  <1> QED BY <1>6, GoodKeeps

LEMMA NextKeeps == IInv /\ [Next]_vars => IInv'
  <1> SUFFICES ASSUME IInv, [Next]_vars PROVE IInv'
    OBVIOUS
  <1>1. CASE Tick BY <1>1, TickKeeps
  <1>2. ASSUME NEW p \in Tuis, Heartbeat(p) \/ UserStep(p) PROVE IInv'
    BY <1>2, KeysKeep
  <1>3. ASSUME NEW p \in Tuis, WorkStep(p) PROVE IInv'
    BY <1>3, WorkKeeps
  <1>4. CASE UNCHANGED vars BY <1>4, SameKeeps
  <1> QED BY <1>1, <1>2, <1>3, <1>4 DEF Next

\* The inductive invariant holds in every state of a run: whatever the users, the
\* commands and the other TUIs do, what each calm TUI counts on stays true.
THEOREM Invariance == Spec => []IInv
  <1> QED BY InitOK, NextKeeps, PTL DEF Spec

-----------------------------------------------------------------------------
(* What it says of the properties of the runs.                             *)

\* Every variable has its type: no field of a TUI and no command ever refers to
\* something that is not a session.
THEOREM TypeCorrect == Spec => []TypeOK
  <1>1. IInv => TypeOK
    <2> SUFFICES ASSUME IInv PROVE TypeOK
      OBVIOUS
    <2>1. Met \subseteq Sessions BY DEF Met
    <2>2. TuiOf(Met) \subseteq TuiOf(Sessions) /\ ItemOf(Met) \subseteq ItemOf(Sessions)
      BY <2>1, Larger
    <2>3. TuiOf(Sessions) \subseteq Tui BY DEF TuiOf, Tui, MaybeSession
    <2>4. ItemOf(Sessions) \subseteq Item BY DEF ItemOf, Item, Kinds, MaybeSession
    <2>5. tui \in [Tuis -> Tui] BY <2>2, <2>3 DEF IInv, BaseInv
    <2>6. work \in [Tuis -> SUBSET Item] BY <2>2, <2>4 DEF IInv, BaseInv
    <2> QED BY <2>5, <2>6 DEF IInv, BaseInv, TypeOK
  <1> QED BY <1>1, Invariance, PTL

\* What a TUI believes about its lease is true (sessionLeaseLost,
\* heroLeasedSessionID): the session that it continues is leased to it, unless it
\* is just leaving it, or something on its way will find out, or one of its
\* leases has expired or was given up by its own stale release.
THEOREM LeaseHeld == Spec => []LeaseIsHeld
  <1>1. IInv => LeaseIsHeld
    <2> SUFFICES ASSUME IInv, NEW p \in Tuis \ Hasty, tui[p].leased \in Exist
                 PROVE  \/ owner[tui[p].leased] = p
                        \/ Switching(p) \/ Unsettled(p, tui[p].leased)
                        \/ <<p, "late">> \in history.slips
                        \/ <<p, "gone">> \in history.slips
      BY DEF LeaseIsHeld
    <2>1. HeldAt(p, tui[p], work[p], owner, rows,
                 <<p, "late">> \in history.slips \/ <<p, "gone">> \in history.slips)
      BY DEF IInv, CalmAt
    <2>2. SwitchingAt(tui[p], Line(work[p])) => Switching(p)
      BY DEF SwitchingAt, Switching, Line, ImportKinds
    <2>3. Some(work[p], Settling, tui[p].leased) => Unsettled(p, tui[p].leased)
      BY DEF Some, Settling, Unsettled
    <2> QED BY <2>1, <2>2, <2>3 DEF HeldAt, Exist
  <1> QED BY <1>1, Invariance, PTL

\* A release that failed is never forgotten (pendingLeaseReleaseIDs), also of a
\* hasty user: something on its way tries it again, or reports that it is done.
THEOREM PendingRetried == Spec => []PendingIsCleanedUp
  <1>1. IInv => PendingIsCleanedUp
    BY DEF IInv, PendingAt, PendingIsCleanedUp, Some, Trying
  <1> QED BY <1>1, Invariance, PTL

\* No lease outlives its use: one that a TUI holds is that of its chat, of the
\* import that it offers, of a pending release, or of something on its way, but
\* for the places of the code where the run records that it is left over.
THEOREM NothingLeft == Spec => []NoLeaseLeftBehind
  <1>1. IInv => NoLeaseLeftBehind
    <2> SUFFICES ASSUME IInv, NEW p \in Tuis \ Hasty, NEW s \in Sessions, owner[s] = p
                 PROVE  \/ s \in {tui[p].chat, tui[p].leased} \cup tui[p].pending
                        \/ tui[p].asks = "import" /\ tui[p].subject = s
                        \/ Concerned(p, s)
                        \/ <<p, "left">> \in history.slips
      BY DEF NoLeaseLeftBehind
    <2>1. BehindAt(p, tui[p], work[p], owner, <<p, "left">> \in history.slips)
      BY DEF IInv, CalmAt
    <2>2. Some(work[p], Cleaning, s) => Concerned(p, s)
      BY DEF Some, Cleaning, Arriving, Concerned, Taking
    <2>3. ASSUME NEW w \in Line(work[p]), TakesItem(w, s) PROVE Concerned(p, s)
      <3>1. w \in work[p] BY DEF Line
      <3>2. CASE w.s = s /\ w.kind \in {"bump", "validate", "leave", "undo", "opened"} \cup ImportKinds
        BY <3>1, <3>2 DEF Concerned, Taking, ImportKinds
      <3>3. CASE s \in w.others /\ w.kind \in {"undo", "openFailed", "needFork"}
        BY <3>1, <3>3 DEF Concerned
      <3> QED BY <2>3, <3>2, <3>3 DEF TakesItem
    <2> QED BY <2>1, <2>2, <2>3 DEF BehindAt
  <1> QED BY <1>1, Invariance, PTL
=============================================================================
