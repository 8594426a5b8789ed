CONSTANTS
  Absent = Absent
  Plans <- MCPlans
  Subjects <- MCSubjects
  Concurrency = 2
  Extract <- ExtractFieldMap
  SelfCheckStatus <- SelfCheck
  FoundRows <- SearchRows
SPECIFICATION Spec
CHECK_DEADLOCK FALSE
INVARIANTS
  RowsMeanTheirDefinitions
  ItemsAreIndependent
  WrittenFilesLoad
  ReportsAgree
  LinesKeepApart
  ChosenSubjectsFit
PROPERTIES
  ReleaseOfOnePiece
  FailedRunsKeepReports
