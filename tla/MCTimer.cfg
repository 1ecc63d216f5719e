SPECIFICATION FairSpec
CONSTANTS
  TimerMax = 2
  NoCallback = NoCallback
  NoArg = NoArg
  Callbacks = {cb}
  Args = {a1}
  Times <- MCTimes
INVARIANTS
  TypeOK
  ArmedAsAsked
PROPERTIES
  Punctual
  ImplementsService
  ArmedIsServed
