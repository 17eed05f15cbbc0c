\* Two sections and verification data that just fit into the area.
SPECIFICATION Spec
CONSTANTS
  Secs = 2
  Size = 3
  Faults = {"cfgwrite", "cfgread"}
INVARIANTS BootsWhole UpdateTakes 
PROPERTIES RunningKept
