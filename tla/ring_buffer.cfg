CONSTANTS
  Item = {x1, x2}
  Capacity = 3
  None = None
SPECIFICATION RingSpec
PROPERTY ImplementsFifo
