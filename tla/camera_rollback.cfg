CONSTANTS
  BurstFrames = 1
  ImageBufs = 1
  Word = 8
  Calls = {"startPreview", "stopPreview", "takePicture"}
  MaxMsgs = 1
  MaxFaults = 0
SPECIFICATION Spec
INVARIANT RollbackCompletes
CHECK_DEADLOCK FALSE
