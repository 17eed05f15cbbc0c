\* Three sizes of a record: three slots of 3 bytes, two of 5 bytes that end
\* with the area, and one of 16 bytes, which never fits.
SPECIFICATION Spec
CONSTANTS
  Vals = {v1, v2}
  RecSizes = {3, 5, 16}
  Size = 19
  HeaderSize = 8
  IndexMax = 1024
INVARIANTS StableIsRead
PROPERTIES NeverOverprograms IsRegister
