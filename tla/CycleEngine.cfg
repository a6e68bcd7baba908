SPECIFICATION Spec
CONSTANTS
  Last = 4
  Planning = 1
  Implementation = 2
  Judge = 3
  Callers = {p1}
  Snapshots <- MCSnapshots
INVARIANT TypeOK
INVARIANT OneStageRuns
INVARIANT StagesRunInOrder
INVARIANT ValidationIsCurrent
PROPERTY RepairLoopEnds
\* The cycle rests on an agent, the human, or a stage that cannot start.
CHECK_DEADLOCK FALSE
