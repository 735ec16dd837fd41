CONSTANTS
  NBda = 2
  RangeDays = {0, 2}
  MonthDays = 1
  MaxDay = 3
  MaxWrites = 2
SPECIFICATION Spec
INVARIANT TypeOK
INVARIANT RankChangesCancel
INVARIANT WindowsMeet
INVARIANT CyclesMatchQuarters
INVARIANT TeamFiguresGrow
PROPERTY EffortNeverDemotes
PROPERTY ClosedCyclesAreFinal
