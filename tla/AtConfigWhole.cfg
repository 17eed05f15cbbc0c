\* A write cut short leaves the old record, the new one, or an area without a
\* header, as a rewrite of it may.
SPECIFICATION Spec
CONSTANTS
  Cfgs = {c1, c2}
  Default = c0
  W = 8
  CutLeaves = {"missing"}
 
PROPERTIES SaveSparesLoaded AreasAreRegisters
