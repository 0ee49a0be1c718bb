SPECIFICATION FairSpec
CONSTANTS
  Size = 5
  Buffer = 2
  Pipe = 1
  TaskId = id
  FileName = name
  MayCancel = TRUE
  MaxAttempts = 2
  MaxAgain = 1
INVARIANTS TypeOK UploadReadsAllReceived NobodyLeftBehind
PROPERTIES ShownInOrder EndsUnlessPeerHangs CancelEnds
