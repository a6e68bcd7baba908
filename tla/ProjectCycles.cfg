SPECIFICATION Spec
CONSTANTS
  Procs = {p1, p2}
  NoProc = NoProc
  Notes = {1}
  MaxCycles = 2
  MaxDay = 1
  MaxInodes = 3
  MaxCommands = 3
  MaxDeaths = 1
SYMMETRY Symmetry
INVARIANT TypeOK
INVARIANT MovesAreRecorded
INVARIANT IdeasFollowTheCycle
INVARIANT OneActiveCycle
PROPERTY EvidenceIsNeverLost
PROPERTY ArchivedMeansDone
PROPERTY FinalizesAlone
\* All commands of the bound may have been given.
CHECK_DEADLOCK FALSE
