CONSTANTS
  BurstFrames = 1
  ImageBufs = 1
  Word = 8
  Calls = {"startPreview", "stopPreview", "restart", "startRecording",
           "stopRecording", "autoFocus", "cancelAutoFocus", "zoom",
           "getParameters"}
  MaxMsgs = 1
  MaxFaults = 1
SPECIFICATION LiveSpec
INVARIANTS NextInStep RecordingInStep
PROPERTY CallsReturn
CHECK_DEADLOCK FALSE
