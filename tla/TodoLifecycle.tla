----------------------------- MODULE TodoLifecycle -----------------------------
(***************************************************************************)
(* What a project may count on about its ToDos, whatever commands, crashes *)
(* and retries they go through: TodoProjection implements this.            *)
(*                                                                         *)
(* A ToDo is created once.  One cycle at a time holds it, which gives it   *)
(* up with all that it holds, and what is resolved stays resolved.  The    *)
(* document never shows a mixture: it is replaced as a whole, by a draft   *)
(* that was the true list when it was taken.                               *)
(***************************************************************************)
CONSTANTS Ids, Cycles, None

VARIABLES
    todos,      \* status of each ToDo, and the cycle it is adopted by
    cycles,     \* status of each cycle: none, active or one of its ends
    drafts,     \* lists taken that may still be installed
    document    \* the list on display

vars == <<todos, cycles, drafts, document>>

\* The list as it is: pending and adopted ToDos, with who holds them.
List == {<<i, todos[i].by>> : i \in {j \in Ids : todos[j].status \in {"pending", "adopted"}}}
Held(c) == {i \in Ids : todos[i].status = "adopted" /\ todos[i].by = c}

Init ==
    /\ \A i \in Ids : todos[i].status = "none" /\ todos[i].by = None
    /\ \E c \in Cycles : \A o \in Cycles : cycles[o] = IF o = c THEN "active" ELSE "none"
    /\ drafts = {} /\ document = {}

\* The ToDos of S are set to a status and a holder, the others stay.
Set(S, status, c) ==
    \A i \in Ids : IF i \in S THEN todos'[i].status = status /\ todos'[i].by = c
                   ELSE todos'[i] = todos[i]

Create(i) == todos[i].status = "none" /\ Set({i}, "pending", None)

\* An adoption may come late, when its cycle has ended.
Adopt(i, c) == todos[i].status = "pending" /\ cycles[c] # "none" /\ Set({i}, "adopted", c)

\* The active cycle gives up or resolves everything it holds, at once.
GiveUp(c) == cycles[c] = "active" /\ (Set(Held(c), "pending", None) \/ Set(Held(c), "resolved", None))

\* A ToDo that a cycle holds is not completed behind its back.
Complete(i) == todos[i].status \in {"pending", "resolved"} /\ Set({i}, "resolved", None)

Change ==
    /\ \/ \E i \in Ids : Create(i) \/ Complete(i)
       \/ \E c \in Cycles : GiveUp(c) \/ \E i \in Ids : Adopt(i, c)
    /\ UNCHANGED <<cycles, drafts, document>>

\* The draft of an earlier command may be replaced, or removed.
Draft ==
    /\ drafts' \subseteq drafts \cup {List}
    /\ UNCHANGED <<todos, cycles, document>>

Install ==
    /\ document' \in drafts
    /\ UNCHANGED <<todos, cycles, drafts>>

\* A cycle begins, another or the same one ends, for good.
Turn ==
    /\ \A c \in Cycles : cycles'[c] # cycles[c] =>
          \/ cycles[c] = "none" /\ cycles'[c] = "active"
          \/ cycles[c] = "active" /\ cycles'[c] # "none"
    /\ UNCHANGED <<todos, drafts, document>>

Next == Draft \/ Install \/ Change \/ Turn

Spec == Init /\ [][Next]_vars
=============================================================================
