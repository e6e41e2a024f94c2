SPECIFICATION Spec
CONSTANTS
  PipeSize = 2
  MaxStdout = 2
  MaxStderr = 1
  MaxOutput = 3
  InputSize = 3
INVARIANTS
  OkIsComplete
  ErrorHasCause
  NothingLeftRunning
PROPERTIES
  Answered
  ImplementsCall
