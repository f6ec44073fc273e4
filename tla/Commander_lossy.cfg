CONSTANTS
  Printable = {"a"}
  Capacity = 2
  QueueRoom = 2
  MaxTyped = 5
SPECIFICATION FairSpec
CHECK_DEADLOCK FALSE
INVARIANTS TypeOK NoneStranded LineIsEdited InputKept
PROPERTY Drains
