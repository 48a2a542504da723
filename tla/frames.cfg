CONSTANTS
  Bufs = {b1, b2}
  Undequeued = {}
  None = None
  Follow = FALSE
SPECIFICATION LiveSpec
INVARIANTS TypeOK CountsAgree BufferConserved DisplayPaced
PROPERTIES FramesFlow CallsReturn
CHECK_DEADLOCK FALSE
