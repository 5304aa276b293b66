SPECIFICATION FairSpec
CONSTANTS
  a1 = a1
  a2 = a2
  Failure = Failure
  Unset = Unset
  NFrames = 3
  Concurrency = 2
  Answers = {a1, a2}
INVARIANTS
  TypeOK
  IInv
  InFlightBound
  NoGoroutineOutlivesCall
PROPERTIES
  Termination
  ImplementsContract
