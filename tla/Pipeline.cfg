SPECIFICATION Spec
CONSTANTS
  None = None
  MaxAge = 3
  IdleAfter = 2
  AwayAfter = 1
  MaxSpan = 3
  QueueMax = 1
  MaxTime = 5
  MaxReads = 2
INVARIANTS TypeOK SpansInOrder QueueIsServed
PROPERTY TextExpires
