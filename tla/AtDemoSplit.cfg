\* Bursts longer than a record: two reports back to back are cut.
SPECIFICATION DemoSpec
CONSTANTS
  Frames <- ReportFrames
  BufLen = 48
  RecSize = 32
  Cap = 4
  MaxFrames = 3
  MaxBurst = 34
  LinkFails = FALSE
INVARIANT DoneWasAsked
