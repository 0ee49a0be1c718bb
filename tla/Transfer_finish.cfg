SPECIFICATION Spec
CONSTANTS
  Size = 1
  Buffer = 1
  Pipe = 1
  TaskId = id
  FileName = name
  MayCancel = FALSE
  MaxAttempts = 1
  MaxAgain = 0
PROPERTIES FinishFindsUpload
