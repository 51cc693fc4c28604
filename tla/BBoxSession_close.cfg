SPECIFICATION FairSpec

CONSTANTS
  Answers = {0, 1, 2}
  Conns = {c1}
  Items = {c1}
  MaxBuffer = 2

PROPERTY CloseCompletes

CHECK_DEADLOCK FALSE
