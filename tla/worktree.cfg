SPECIFICATION AllSpec
CONSTANT Sessions = {1, 2, 3}
 
PROPERTIES
  EveryoneGetsTheCode
  SeenIsSpared
CHECK_DEADLOCK FALSE
