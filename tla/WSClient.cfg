SPECIFICATION FairSpec
CONSTANTS
  Capacity = 2
  MaxDiscrete = 4
  MaxParams = 2
  Big = {1}
  Fragments = 2
INVARIANTS TypeOK NoneLost WireInOrder
PROPERTIES BackToRecv CloseTakesEffect ImplementsChannel
CHECK_DEADLOCK FALSE
