\* The port is started and read, stopped, disabled, closed and reopened between
\* reads, and some callers' buffers do not take a full record.
SPECIFICATION FairSpec
CONSTANTS
  BufNum = 2
  BufSize = 2
  FifoLen = 3
  ReadSizes = {1, 2}
  MaxBytes = 6
  MaxStops = 2
INVARIANTS TokensExact StreamInOrder
PROPERTIES IsRecordQueue RecordIsRead
