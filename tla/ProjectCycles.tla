---------------------------- MODULE ProjectCycles ----------------------------
(***************************************************************************)
(* The cycles of one project and the processes that work on them: the TUI  *)
(* and commands in other terminals.  A process creates a cycle, resumes an *)
(* old one, ends the active one under the cycle lock, or archives one,     *)
(* which moves files, rows and credentials in steps that may fail or be    *)
(* cut short (internal/cycle: service.go, archive_move.go, idea_archive.go;*)
(* internal/store: cycles.go, archive_lock.go; internal/engine).           *)
(*                                                                         *)
(* Every step of a process is one statement on the database or one call on *)
(* the file system; between two of them other processes run, agents write  *)
(* evidence, and the process may die.                                      *)
(***************************************************************************)
EXTENDS Naturals, Sequences, FiniteSets

CONSTANTS Procs,      \* processes of the project
          NoProc,     \* no process
          Notes,      \* entries of docs/idea
          MaxCycles,  \* bound: cycles of the project
          MaxDay,     \* bound: midnights passed
          MaxInodes,  \* bound: directories created
          MaxCommands,\* bound: commands started
          MaxDeaths   \* bound: processes that die in a command

ASSUME NoProcAssumption == NoProc \notin Procs
ASSUME BoundsAssumption ==
    /\ MaxCycles \in Nat \ {0} /\ MaxDay \in Nat /\ MaxInodes \in Nat \ {0}
    /\ MaxCommands \in Nat /\ MaxDeaths \in Nat

VARIABLES
    cycles,   \* rows of the cycles table, by id
    intents,  \* archive_move_intent events
    lease,    \* process that holds testaccess.lock, or none
    files,    \* cycles/current, cycles/archive/*, and the last inode given
    env,      \* .env.hero, the OpenSpec change, the notes of docs/idea
    procs,    \* what each process is doing
    day,      \* date of the clock
    history   \* commands started, deaths, and what they did to each other

vars == <<cycles, intents, lease, files, env, procs, day, history>>

None == 0
Ids == 1..MaxCycles
Days == 0..MaxDay
Names == Ids \X Days               \* C<number>-<date>; titles are all alike
Config == 0                        \* workflow-config.yml among the evidence
Dirs == [ino : 1..MaxInodes, has : SUBSET (Ids \cup {Config})]
NoDir == [ino |-> 0, has |-> {}]
Free == <<"none", NoProc>>
Dead == <<"dead", NoProc>>           \* lock of a command whose process is gone
Holders == {Free, Dead} \cup ({"cli", "archive"} \X Procs)
Statuses == {"active", "completed", "cancelled", "archived"}

Idle == [pc |-> "idle", op |-> "none", id |-> None, number |-> None,
         others |-> {}, done |-> None, plan |-> {}, dest |-> <<1, 0>>,
         moved |-> FALSE]
Steps == {"idle", "locks", "applies", "releases", "unlocks",
          "prepares", "numbers", "demotes", "demoting", "inserts", "promotes",
          "leases", "recovers", "claims", "openspec", "plans", "ideas",
          "records", "moves", "recreates", "finalizes", "unmakes",
          "restores", "fails", "ends"}
Process == [pc : Steps, op : {"none", "stage", "complete", "cancel", "new",
                              "resume", "archive"},
            id : Nat, number : Nat, others : SUBSET Ids, done : Nat,
            plan : SUBSET Notes, dest : Names, moved : BOOLEAN]

TypeOK ==
    /\ cycles \in Seq([number : Ids, status : Statuses,
                       done : 0..(MaxDay + 1), holder : Holders])
    /\ intents \subseteq (Ids \X Names \X (1..MaxInodes))
    /\ lease \in Procs \cup {NoProc}
    /\ files.current \in Dirs \cup {NoDir} /\ files.last \in 0..MaxInodes
    /\ files.archive \in [Names -> Dirs \cup {NoDir}]
    /\ env.creds \in BOOLEAN /\ env.spec \in {"open", "archived"}
    /\ env.idea \subseteq Notes /\ env.archived \subseteq Notes
    /\ procs \in [Procs -> Process]
    /\ day \in Days

Init ==
    /\ \E s \in {"active", "completed", "cancelled"} :
          cycles = <<[number |-> 1, status |-> s, holder |-> Free,
                      done |-> IF s = "active" THEN None ELSE 1]>>
    /\ intents = {} /\ lease = NoProc
    /\ files = [current |-> [ino |-> 1, has |-> {1}], last |-> 1,
                archive |-> [n \in Names |-> NoDir]]
    /\ \E c \in BOOLEAN, old \in SUBSET Notes :
          env = [creds |-> c, spec |-> "open", idea |-> Notes, archived |-> old]
    /\ procs = [p \in Procs |-> Idle]
    /\ day = 0
    /\ history = [commands |-> 0, deaths |-> 0, crossed |-> FALSE, raced |-> FALSE,
                  late |-> {}, sealed |-> {}]

-----------------------------------------------------------------------------
\* The rows.  number orders cycles; equal numbers are possible.
Max(S) == CHOOSE n \in S : \A o \in S : o <= n
Latest(S) == CHOOSE c \in S : \A o \in S : cycles[o].number <= cycles[c].number
With(status) == {c \in DOMAIN cycles : cycles[c].status = status}
GetActiveCycle == IF With("active") = {} THEN None ELSE Latest(With("active"))
UpdateCycleStatus(c, status, done) ==
    cycles' = [cycles EXCEPT ![c].status = status, ![c].done = done]
SetCycleLock(c, holder) == cycles' = [cycles EXCEPT ![c].holder = holder]
Now == day + 1                     \* a date; 0 is an empty completed_at
Held(p, kind) ==
    procs[p].id # None /\ cycles[procs[p].id].holder = <<kind, p>>

At(p, pc) == procs[p].pc = pc
To(p, pc) == procs' = [procs EXCEPT ![p].pc = pc]
Return(p) == procs' = [procs EXCEPT ![p] = Idle]

\* Whether another process is within one of these steps of such a command.
Overlaps(p, ops, pcs) ==
    \E q \in Procs \ {p} : procs[q].op \in ops /\ procs[q].pc \in pcs
Locked == {"stage", "complete", "cancel"}
Switching == {"new", "resume"}

\* history: two commands that read the free lock before either wrote it both
\* go on (crossed); two commands change the active cycle at a time (raced).
Start(p, command) ==
    /\ At(p, "idle") /\ history.commands < MaxCommands
    /\ procs' = [procs EXCEPT ![p] = command]
    /\ history' = [history EXCEPT !.commands = @ + 1,
          !.crossed = @ \/ (command.op \in Locked /\ Overlaps(p, Locked, {"locks"})),
          !.raced = @ \/ (command.op \in Switching /\ Overlaps(p, Switching, Steps))]

-----------------------------------------------------------------------------
\* Operations under the cycle lock: withLock(holder, fn).  AcquireLock reads
\* the row and then writes the holder whatever the row holds by then.
Reads(p) ==
    /\ GetActiveCycle # None
    /\ cycles[GetActiveCycle].holder = Free
    /\ \E op \in Locked :
          Start(p, [Idle EXCEPT !.op = op, !.pc = "locks", !.id = GetActiveCycle])
    /\ UNCHANGED <<cycles, intents, lease, files, env, day>>

Locks(p) ==
    /\ At(p, "locks")
    /\ SetCycleLock(procs[p].id, <<"cli", p>>)
    /\ To(p, "applies")
    /\ UNCHANGED <<intents, lease, files, env, day, history>>

Applies(p) ==
    /\ At(p, "applies")
    /\ CASE procs[p].op = "complete" ->
              UpdateCycleStatus(procs[p].id, "completed", Now)
         [] procs[p].op = "cancel" ->
              UpdateCycleStatus(procs[p].id, "cancelled", Now)
         [] OTHER -> UNCHANGED cycles     \* its writes are in CycleEngine
    /\ To(p, "releases")
    /\ UNCHANGED <<intents, lease, files, env, day, history>>

ReadsLock(p) ==
    /\ At(p, "releases")
    /\ IF Held(p, "cli") \/ cycles[procs[p].id].holder = Free
       THEN To(p, "unlocks") ELSE Return(p)
    /\ UNCHANGED <<cycles, intents, lease, files, env, day, history>>

UnlocksKind(p) ==
    /\ At(p, "unlocks")
    /\ SetCycleLock(procs[p].id, <<"none", p>>)
    /\ Return(p)
    /\ UNCHANGED <<intents, lease, files, env, day, history>>

Unlocks(p) ==
    /\ At(p, "unlocks")
    /\ SetCycleLock(procs[p].id, Free)
    /\ Return(p)
    /\ UNCHANGED <<intents, lease, files, env, day, history>>

-----------------------------------------------------------------------------
\* PrepareCycle and Resume change the active cycle without the lock.
StartsNew(p) ==
    /\ Start(p, [Idle EXCEPT !.op = "new", !.pc = "prepares"])
    /\ UNCHANGED <<cycles, intents, lease, files, env, day>>

Mkdir == IF files.current # NoDir THEN files
         ELSE [files EXCEPT !.current = [ino |-> files.last + 1, has |-> {}],
                            !.last = @ + 1]
Removed == [files EXCEPT !.current = NoDir]
Writes(fs, x) == [fs EXCEPT !.current.has = @ \cup {x}]

Prepares(p) ==
    /\ At(p, "prepares")
    /\ Mkdir.last <= MaxInodes
    /\ files' = Writes(Mkdir, Config)
    /\ To(p, "numbers")
    /\ UNCHANGED <<cycles, intents, lease, env, day, history>>

Numbers(p) ==
    /\ At(p, "numbers")
    /\ LET next == Max({cycles[c].number : c \in DOMAIN cycles}) + 1
       IN  /\ next <= MaxCycles
           /\ procs' = [procs EXCEPT ![p].pc = "demotes", ![p].number = next]
    /\ UNCHANGED <<cycles, intents, lease, files, env, day, history>>

ReadsPrevious(p) ==
    /\ At(p, "demotes")
    /\ procs' = [procs EXCEPT ![p].id = GetActiveCycle,
          ![p].pc = IF GetActiveCycle = None THEN "inserts" ELSE "demoting"]
    /\ UNCHANGED <<cycles, intents, lease, files, env, day, history>>

Demotes(p) ==
    /\ At(p, "demoting")
    /\ UpdateCycleStatus(procs[p].id, "archived", Now)
    /\ To(p, "inserts")
    /\ UNCHANGED <<intents, lease, files, env, day, history>>

Inserts(p) ==
    /\ At(p, "inserts")
    /\ Len(cycles) < MaxCycles
    /\ cycles' = Append(cycles, [number |-> procs[p].number, status |-> "active",
                                 done |-> None, holder |-> Free])
    /\ Return(p)
    /\ UNCHANGED <<intents, lease, files, env, day, history>>

\* A cycle by number, or the last ended one, or the last that is not archived.
ResumeTargets ==
    LET ended == With("completed") \cup With("cancelled")
        open  == DOMAIN cycles \ With("archived")
    IN  DOMAIN cycles \cup (IF ended # {} THEN {Latest(ended)}
                            ELSE IF open # {} THEN {Latest(open)} ELSE {})

StartsResumeAlone(p) ==
    /\ \E c \in ResumeTargets :
          Start(p, [Idle EXCEPT !.op = "resume", !.pc = "promotes", !.id = c])
    /\ UNCHANGED <<cycles, intents, lease, files, env, day>>

StartsResume(p) ==
    /\ \E c \in ResumeTargets :
          Start(p, [Idle EXCEPT !.op = "resume", !.pc = "promotes", !.id = c,
                                !.others = With("active") \ {c}])
    /\ UNCHANGED <<cycles, intents, lease, files, env, day>>

\* The cycles that were active in the list read at the start.
DemotesOther(p) ==
    /\ At(p, "promotes")
    /\ \E c \in procs[p].others :
          /\ UpdateCycleStatus(c, "archived", None)
          /\ procs' = [procs EXCEPT ![p].others = @ \ {c}]
    /\ UNCHANGED <<intents, lease, files, env, day, history>>

Promotes(p) ==
    /\ At(p, "promotes") /\ procs[p].others = {}
    /\ UpdateCycleStatus(procs[p].id, "active", None)
    /\ Return(p)
    /\ UNCHANGED <<intents, lease, files, env, day, history>>

-----------------------------------------------------------------------------
\* Archive.  The cycle is chosen before the project lease is taken.
ResolveArchiveCycle ==
    LET current == IF With("active") # {} THEN With("active") ELSE With("completed")
        last    == Latest(DOMAIN cycles)
    IN  IF current # {} THEN Latest(current)
        ELSE IF cycles[last].status = "archived" THEN None ELSE last

StartsArchive(p) ==
    /\ LET c == ResolveArchiveCycle
       IN  /\ c # None
           /\ Start(p, [Idle EXCEPT !.op = "archive", !.pc = "leases", !.id = c,
                                    !.done = cycles[c].done])
    /\ UNCHANGED <<cycles, intents, lease, files, env, day>>

\* The lease is an flock on testaccess.lock, which the system releases when
\* its process ends.
OpenSafeStore(p) ==
    /\ At(p, "leases")
    /\ IF lease = NoProc THEN lease' = p /\ To(p, "recovers")
                       ELSE UNCHANGED lease /\ Return(p)
    /\ UNCHANGED <<cycles, intents, files, env, day, history>>

RecoverArchiveLock(p) ==
    /\ At(p, "recovers")
    /\ IF cycles[procs[p].id].holder[1] = "archive"
       THEN SetCycleLock(procs[p].id, Free) ELSE UNCHANGED cycles
    /\ To(p, "claims")
    /\ UNCHANGED <<intents, lease, files, env, day, history>>

AcquireArchiveLock(p) ==
    /\ At(p, "claims")
    /\ LET c == cycles[procs[p].id]
       IN  IF c.holder = Free /\ c.status # "archived"
           THEN /\ SetCycleLock(procs[p].id, <<"archive", p>>)
                /\ To(p, "openspec") /\ UNCHANGED lease
           ELSE UNCHANGED cycles /\ lease' = NoProc /\ Return(p)
    /\ UNCHANGED <<intents, files, env, day, history>>

\* The change is archived, was before, or fails to be; then the cycle is
\* archived only if that is forced and no credentials exist.
ForcedPast == ~env.creds
ArchiveOpenspec(p) ==
    /\ At(p, "openspec")
    /\ \/ env' = [env EXCEPT !.spec = "archived"] /\ To(p, "plans")
       \/ env.spec = "open" /\ ForcedPast /\ UNCHANGED env /\ To(p, "plans")
       \/ env.spec = "open" /\ UNCHANGED env /\ To(p, "ends")
    /\ UNCHANGED <<cycles, intents, lease, files, day, history>>

\* All entries of docs/idea, unless one of them is in the archive already.
PrepareIdeaArchive(p) ==
    /\ At(p, "plans")
    /\ IF env.idea \cap env.archived # {} THEN To(p, "ends")
       ELSE procs' = [procs EXCEPT ![p].plan = env.idea, ![p].pc = "ideas"]
    /\ UNCHANGED <<cycles, intents, lease, files, env, day, history>>

MoveIdea(p) ==
    /\ At(p, "ideas")
    /\ \E n \in procs[p].plan \cap env.idea :
          env' = [env EXCEPT !.idea = @ \ {n}, !.archived = @ \cup {n}]
    /\ UNCHANGED <<cycles, intents, lease, files, procs, day, history>>

RollbackIdeasNot(p) == UNCHANGED env
\* Entries that are back, or whose name is taken again, are left alone.
RollbackIdeas(p) ==
    LET back == (procs[p].plan \cap env.archived) \ env.idea
    IN  env' = [env EXCEPT !.idea = @ \cup back, !.archived = @ \ back]

MoveIdeaFails(p) ==
    /\ At(p, "ideas") /\ procs[p].plan \cap env.idea # {}
    /\ RollbackIdeas(p)
    /\ To(p, "ends")
    /\ UNCHANGED <<cycles, intents, lease, files, day, history>>

\* C<N>-<date>-<slug>: the date of completion, or today's.
Name(p) == <<cycles[procs[p].id].number,
             IF procs[p].done = None THEN day ELSE procs[p].done - 1>>
Dest(p) == procs[p].dest
Goes(p, pc, moved) ==
    procs' = [procs EXCEPT ![p].pc = pc, ![p].dest = Name(p), ![p].moved = moved]

\* A destination must be the directory of an intent of this cycle, with nothing
\* in current since: then the interrupted move is taken up.
Inspect(p) ==
    /\ At(p, "ideas") /\ procs[p].plan \cap env.idea = {}
    /\ LET dest == files.archive[Name(p)]
           ours == <<procs[p].id, Name(p), dest.ino>> \in intents
       IN  \/ /\ dest = NoDir
              /\ Goes(p, IF files.current = NoDir THEN "recreates" ELSE "records", FALSE)
              /\ UNCHANGED files
           \/ /\ dest # NoDir /\ ours /\ files.current.has = {}
              /\ files' = Removed
              /\ Goes(p, "recreates", TRUE)
           \/ /\ dest # NoDir /\ (ours => files.current.has # {})
              /\ Goes(p, "fails", FALSE)
              /\ UNCHANGED files
    /\ UNCHANGED <<cycles, intents, lease, env, day, history>>

RecordArchiveMoveOnce(p) ==
    /\ At(p, "records")
    /\ intents' = intents \cup
          (IF \E i \in intents : i[1] = procs[p].id THEN {}
           ELSE {<<procs[p].id, Dest(p), files.current.ino>>})
    /\ To(p, "moves")
    /\ UNCHANGED <<cycles, lease, files, env, day, history>>

RecordArchiveMove(p) ==
    /\ At(p, "records")
    /\ intents' = intents \cup {<<procs[p].id, Dest(p), files.current.ino>>}
    /\ To(p, "moves")
    /\ UNCHANGED <<cycles, lease, files, env, day, history>>

MoveCurrent(p) ==
    /\ At(p, "moves")
    /\ \/ /\ files' = [files EXCEPT !.current = NoDir,
                                    !.archive[Dest(p)] = files.current]
          /\ procs' = [procs EXCEPT ![p].pc = "recreates", ![p].moved = TRUE]
       \/ UNCHANGED files /\ To(p, "fails")
    /\ UNCHANGED <<cycles, intents, lease, env, day, history>>

Recreate(p) ==
    /\ At(p, "recreates")
    /\ \/ Mkdir.last <= MaxInodes /\ files' = Mkdir /\ To(p, "finalizes")
       \/ UNCHANGED files /\ To(p, IF procs[p].moved THEN "restores" ELSE "fails")
    /\ UNCHANGED <<cycles, intents, lease, env, day, history>>

ClaimedByAnyone(p) == cycles[procs[p].id].holder # Free
Claimed(p) == Held(p, "archive")

FinalizeArchiveEarly(p) ==
    /\ At(p, "finalizes") /\ Claimed(p)
    /\ cycles' = [cycles EXCEPT ![procs[p].id].status = "archived"]
    /\ \E removed \in BOOLEAN : env' = [env EXCEPT !.creds = @ /\ ~removed]
    /\ history' = [history EXCEPT !.sealed = @ \cup {procs[p].id}]
    /\ To(p, "ends")
    /\ UNCHANGED <<intents, lease, files, day>>

\* A transaction that writes the status, removes the credentials and commits.
\* It fails before or after the removal; a death in between is a failure after
\* it of which nothing further is done.
FinalizeArchive(p) ==
    /\ At(p, "finalizes")
    /\ \/ /\ Claimed(p)
          /\ cycles' = [cycles EXCEPT ![procs[p].id].status = "archived"]
          /\ env' = [env EXCEPT !.creds = FALSE]
          /\ history' = [history EXCEPT !.sealed = @ \cup {procs[p].id}]
          /\ To(p, "ends")
       \/ /\ \E removed \in {FALSE, Claimed(p)} :
                env' = [env EXCEPT !.creds = @ /\ ~removed]
          /\ To(p, IF procs[p].moved THEN "unmakes" ELSE "fails")
          /\ UNCHANGED <<cycles, history>>
    /\ UNCHANGED <<intents, lease, files, day>>

UnmakeAll(p) ==
    /\ At(p, "unmakes")
    /\ files' = Removed /\ To(p, "restores")
    /\ UNCHANGED <<cycles, intents, lease, env, day, history>>

\* os.Remove removes an empty directory only.
Unmake(p) ==
    /\ At(p, "unmakes")
    /\ IF files.current # NoDir /\ files.current.has = {}
       THEN files' = Removed /\ To(p, "restores")
       ELSE UNCHANGED files /\ To(p, "fails")
    /\ UNCHANGED <<cycles, intents, lease, env, day, history>>

Restore(p) ==
    /\ At(p, "restores")
    /\ \/ /\ files.current.has = {}
          /\ files' = [files EXCEPT !.current = files.archive[Dest(p)],
                                    !.archive[Dest(p)] = NoDir]
       \/ UNCHANGED files
    /\ To(p, "fails")
    /\ UNCHANGED <<cycles, intents, lease, env, day, history>>

Fails(p) ==
    /\ At(p, "fails")
    /\ RollbackIdeas(p)
    /\ To(p, "ends")
    /\ UNCHANGED <<cycles, intents, lease, files, day, history>>

\* ReleaseArchiveLock, only if the claim is its own, and the lease.
Ends(p) ==
    /\ At(p, "ends")
    /\ IF Claimed(p) THEN SetCycleLock(procs[p].id, Free) ELSE UNCHANGED cycles
    /\ lease' = NoProc
    /\ Return(p)
    /\ UNCHANGED <<intents, files, env, day, history>>

Archives(p) ==
    \/ OpenSafeStore(p) \/ RecoverArchiveLock(p) \/ AcquireArchiveLock(p)
    \/ ArchiveOpenspec(p) \/ PrepareIdeaArchive(p) \/ MoveIdea(p)
    \/ MoveIdeaFails(p) \/ Inspect(p) \/ RecordArchiveMove(p)
    \/ MoveCurrent(p) \/ Recreate(p) \/ FinalizeArchive(p) \/ Unmake(p)
    \/ Restore(p) \/ Fails(p) \/ Ends(p)

-----------------------------------------------------------------------------
\* The rest of the world: agents of the active cycle write evidence, the human
\* configures credentials (under the lease), midnight passes.
WriteEvidence ==
    /\ GetActiveCycle # None /\ files.current # NoDir
    /\ files' = Writes(files, GetActiveCycle)
    /\ history' = [history EXCEPT !.late = @ \cup
          {c \in {GetActiveCycle} : cycles[c].holder[1] = "archive"}]
    /\ UNCHANGED <<cycles, intents, lease, env, procs, day>>

Configure ==
    /\ ~env.creds /\ lease = NoProc
    /\ env' = [env EXCEPT !.creds = TRUE]
    /\ UNCHANGED <<cycles, intents, lease, files, procs, day, history>>

Midnight ==
    /\ day < MaxDay
    /\ day' = day + 1
    /\ UNCHANGED <<cycles, intents, lease, files, env, procs, history>>

\* A process dies: the system drops its lease, the locks stay in the rows.
Die(p) ==
    /\ ~At(p, "idle") /\ history.deaths < MaxDeaths
    /\ history' = [history EXCEPT !.deaths = @ + 1]
    /\ lease' = IF lease = p THEN NoProc ELSE lease
    /\ cycles' = [c \in DOMAIN cycles |->
                     IF cycles[c].holder = <<"cli", p>>
                     THEN [cycles[c] EXCEPT !.holder = Dead] ELSE cycles[c]]
    /\ Return(p)
    /\ UNCHANGED <<intents, files, env, day>>

Next ==
    \/ \E p \in Procs :
          \/ Reads(p) \/ Locks(p) \/ Applies(p) \/ ReadsLock(p) \/ Unlocks(p)
          \/ StartsNew(p) \/ Prepares(p) \/ Numbers(p) \/ ReadsPrevious(p)
          \/ Demotes(p) \/ Inserts(p)
          \/ StartsResume(p) \/ DemotesOther(p) \/ Promotes(p)
          \/ StartsArchive(p) \/ Archives(p) \/ Die(p)
    \/ WriteEvidence \/ Configure \/ Midnight

Spec == Init /\ [][Next]_vars

-----------------------------------------------------------------------------
\* No failed, repeated or interrupted archive loses evidence: what agents wrote
\* stays in one of the cycle's directories (Unmake and Restore undo a move).
Evidence == files.current.has \cup UNION {files.archive[n].has : n \in Names}
EvidenceIsNeverLost == [][Evidence \subseteq Evidence']_vars

\* A directory is in the archive only under an intent recorded for it, so that a
\* later archive can tell its own interrupted move from another's directory.
MovesAreRecorded ==
    \A n \in Names : files.archive[n] # NoDir =>
        \E c \in DOMAIN cycles : <<c, n, files.archive[n].ino>> \in intents

\* The evidence of a cycle is in the archive, unless agents of the cycle wrote
\* while it was being archived.
Archived(c) ==
    c \in Evidence \ history.late => \E n \in Names : c \in files.archive[n].has

\* "Never report completed archive until cleanup succeeds": whichever process
\* finishes an archive, and after whatever failures, no credentials are left and
\* the evidence of the cycle is in the archive.
ArchivedMeansDone ==
    [][\A c \in history'.sealed \ history.sealed : ~env'.creds /\ Archived(c)]_vars

\* Notes of docs/idea go to the archive with a cycle: those of an archive that
\* fails are back in their place when it ends, or a new one has the name, unless
\* its process died.
IdeasFollowTheCycle ==
    lease = NoProc /\ history.deaths = 0 /\ history.sealed = {}
        => env.archived \subseteq env.idea

\* Archive and locked commands exclude each other although a command may take
\* over a claim made after it read the free lock: the archive then fails.  Only
\* commands that crossed each other's reading leave one without its lock.
FinalizesAlone ==
    [][~history.crossed => \A c \in history'.sealed \ history.sealed :
        \A p \in Procs : procs[p].id = c => procs[p].pc \notin {"applies", "releases"}]_vars

\* One cycle is active, unless two creations or resumptions overlapped, also
\* when one dies between its writes.
OneActiveCycle == ~history.raced => Cardinality(With("active")) <= 1
=============================================================================
