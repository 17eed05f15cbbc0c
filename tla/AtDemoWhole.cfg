\* Bursts shorter than a record: the frames of a burst come in one record.
\* The cache holds fewer records than there are frames, and the network fails
\* and comes back at any time.
SPECIFICATION DemoFairSpec
CONSTANTS
  Frames <- ShortFrames
  BufLen = 48
  RecSize = 32
  Cap = 2
  MaxFrames = 3
  MaxBurst = 31
  LinkFails = TRUE
INVARIANTS DemoTypeOK DoneWasAsked AcceptedInOrder
PROPERTY Settles
