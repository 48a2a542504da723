CONSTANTS
  BurstFrames = 1
  ImageBufs = 1
  Word = 8
  Calls = {"startPreview", "stopPreview", "takePicture", "cancelPicture",
           "restart", "restartPaused", "startRecording", "stopRecording"}
  MaxMsgs = 1
  MaxFaults = 1
SPECIFICATION Spec
INVARIANTS TypeOK PreviewHasBuffers FlagsTrue OnlyKnownCycles
PROPERTY AlongTable
CHECK_DEADLOCK FALSE
