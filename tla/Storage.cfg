SPECIFICATION Spec
CONSTANTS
  Writers = {w1}
  MaxDay = 3
  MaxLine = 3
  MaxInode = 3
  Environments = {{"disk"}, {"crash"}, {"remove"}, {"follow", "once"}}
  Nil = Nil
  Appenders = {a1, a2}
  Names = {"x"}
  MaxDate = 3
  MaxRecord = 3
  KeepDays = 2
  MaxTail = 2
  Limits = {2}
  DiskMayFail = TRUE
INVARIANTS TypeOK LinesAreKept RotationIsExact LeadingBlockIsArchived FollowerIsComplete
INVARIANTS RecordsAreFound AnswerIsSound
CHECK_DEADLOCK FALSE
