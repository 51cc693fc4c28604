SPECIFICATION FairSpec

CONSTANTS
  Answers = {0}
  Conns = {c1, c2}
  Items = {c1, c2}
  MaxBuffer = 1

PROPERTY StopCompletes
PROPERTY CloseWithoutParserCompletes

CHECK_DEADLOCK FALSE
