CONSTANTS
  beat = beat
  heavy = heavy
  immediate = immediate
  Task <- MCTask
  Wait <- MCWait
  Looping <- MCLooping
  Borrowed <- MCBorrowed
  Failing <- MCFailing
  Cancels <- MCCancels
  MaxTaskIx = 3
SPECIFICATION FairSpec
INVARIANTS
  CancelledNeverRuns
  OnlyCancelledIsDropped
  FiresOnTime
  DeallocatedByItsOwner
PROPERTIES
  DueTaskIsCalled
CHECK_DEADLOCK FALSE
