SPECIFICATION Spec

CONSTANTS
  Items <- Entries
  MaxBuffer = 3
  Delay = 1
  MaxAge = 2
  MaxTime = 6
  MaxPuts = 6

INVARIANT TimeOrdered
PROPERTY DeliveredInOrder
PROPERTY UpdateForgetsOld
PROPERTY DropsJustified
PROPERTY ImplementsDelayLine
