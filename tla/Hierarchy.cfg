CONSTANT
  none = none
SPECIFICATION Spec
CHECK_DEADLOCK FALSE
INVARIANTS
  JudgementsAreBacked
  DecisionsAgree
  EventsAreServed
PROPERTY
  StepsAreAllowed
