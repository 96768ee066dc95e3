SPECIFICATION FairLoop
CONSTANTS
  NoWindow = NoWindow
  Windows = {mail, vault}
  Allowed = {mail}
  FailureLimit = 2
  FailureWindow = 2
  BarrenLimit = 2
  BarrenAfter = 2
  MaxTime = 4
  MaxGeneration = 4
INVARIANT LoopTypeOK
PROPERTIES IngestsAllowedOnly NoticeIsEarned BlamedForThisRun OwedRoundsBegin
