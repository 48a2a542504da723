CONSTANTS
  BurstFrames = 1
  ImageBufs = 1
  Word = 8
  Calls = {"startPreview", "stopPreview", "takePicture", "cancelPicture"}
  MaxMsgs = 1
  MaxFaults = 0
SPECIFICATION LiveSpec
PROPERTY CaptureEnds
CHECK_DEADLOCK FALSE
