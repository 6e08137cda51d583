SPECIFICATION Spec
CONSTANTS
  Skill = {"s1", "s2"}
  Command = {"/a", "/b"}
  Raises = FALSE
  Offers = {}
  Kept = {graph1}
  Type = None
  Prompted = {}
  Run = {}
  None = None
PROPERTY CreatesAreServed
CHECK_DEADLOCK FALSE
