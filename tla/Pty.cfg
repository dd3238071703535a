SPECIFICATION PtySpec
INVARIANTS
  PtyInv
  NoGapNoRepeat
PROPERTIES
  RemovedIsReaped
  DroppedIsLetGo
CONSTANTS
  c1 = c1
  c2 = c2
  Client <- MCClient
  Reads <- MCReads
  Cursors <- MCCursors
  Ticket = {t1}
  BufferLimit = 3
  BufferChunk = 2
  SubBuffer = 1
  MaxUnits = 4
CHECK_DEADLOCK FALSE
