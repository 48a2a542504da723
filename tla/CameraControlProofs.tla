------------------------ MODULE CameraControlProofs ------------------------
(***************************************************************************)
(* Theorems about CameraControl, for any capture length, number of image   *)
(* buffers, set of calls, queue bound and number of faults.                *)
(***************************************************************************)
EXTENDS CameraControl, TLAPS

-----------------------------------------------------------------------------
(* The table.                                                              *)

\* A row leads from a state by a command to a state.
LEMMA TableTypes ==
  \A row \in Table : /\ row = <<row[1], row[2], row[3]>>
                     /\ row[1] \in States /\ row[3] \in States
  BY SMTT(60) DEF Table, Stay, InitRows, PreviewRows, CaptureRows,
                  FocusRows, ZoomRows, VideoRows, MixedZoomRows, States

\* Only the two video commands change whether a state records.
LEMMA TableVideo ==
  \A row \in Table :
    /\ row[2] = "START_VIDEO" => row[1] \notin VIDEO_ACTIVE /\ row[3] \in VIDEO_ACTIVE
    /\ row[2] = "STOP_VIDEO" => row[1] \in VIDEO_ACTIVE /\ row[3] \notin VIDEO_ACTIVE
    /\ row[2] \notin {"START_VIDEO", "STOP_VIDEO"} =>
         (row[1] \in VIDEO_ACTIVE <=> row[3] \in VIDEO_ACTIVE)
  BY SMTT(60) DEF Table, Stay, InitRows, PreviewRows, CaptureRows,
                  FocusRows, ZoomRows, VideoRows, MixedZoomRows, VIDEO_ACTIVE

\* The commands that start and end a preview, and what they start from.
LEMMA TablePreview ==
  \A row \in Table :
    /\ row[1] = "INIT" => \/ row[3] = "INIT"
                          \/ row[2] = "USE_PREVIEW" /\ row[3] = "LOADED_PREVIEW"
    /\ row[1] = "LOADED_PREVIEW" =>
         \/ row[3] = "LOADED_PREVIEW"
         \/ row[2] = "START_PREVIEW" /\ row[3] = "PREVIEW"
         \/ row[2] = "STOP_PREVIEW" /\ row[3] = "INIT"
    /\ row[2] = "QUERY_RES" => row[1] = "INIT" /\ row[3] = "INIT"
    /\ row[2] = "USE_PREVIEW" => row[1] = "INIT"
    /\ row[2] = "START_PREVIEW" => row[1] = "LOADED_PREVIEW"
    /\ row[3] \in {"INIT", "LOADED_PREVIEW"} =>
         row[1] \in {"INIT", "LOADED_PREVIEW"} \/ row[2] = "STOP_PREVIEW"
  BY SMTT(60) DEF Table, Stay, InitRows, PreviewRows, CaptureRows,
                  FocusRows, ZoomRows, VideoRows, MixedZoomRows
-----------------------------------------------------------------------------
(* Type correctness.                                                       *)

\* The commands that sendCommand is called with are commands.
LEMMA CommandNames ==
  {"QUERY_RES", "QUERY_IMG", "USE_PREVIEW", "USE_IMG", "START_PREVIEW",
   "STOP_PREVIEW", "START_IMG", "STOP_IMG", "AF", "CANCEL_AF", "START_VIDEO",
   "STOP_VIDEO", "START_ZOOM", "STOP_ZOOM", "STOP_BRACKET"} \subseteq Commands
  <1>1. \A r1, r2, r3 : <<r1, r2, r3>> \in Table => r2 \in Commands
    BY DEF Commands
  <1> QED
    BY <1>1, SMTT(60) DEF Table, Stay, InitRows, PreviewRows, CaptureRows,
                  FocusRows, ZoomRows, VideoRows, MixedZoomRows

\* A rollback sends one of them.
LEMMA RollbackCommands ==
  \A s \in DOMAIN RollbackCommand :
     RollbackCommand[s] \in {"STOP_PREVIEW", "STOP_IMG", "STOP_BRACKET", "CANCEL_AF",
                             "STOP_ZOOM", "STOP_VIDEO"}
  BY SMTT(60) DEF RollbackCommand

\* Moving a thread keeps the types of the threads.
LEMMA GotoTypes ==
  ASSUME ThreadTypes, NEW t \in Threads, NEW p \in Pcs, Goto(t, p)
  PROVE  ThreadTypes'
  BY DEF ThreadTypes, Goto

\* Calling sendCommand keeps them.
LEMMA SendTypes ==
  ASSUME ThreadTypes, NEW t \in Threads, NEW c \in Commands, NEW k \in Pcs,
         Send(t, c, k)
  PROVE  ThreadTypes'
  <1>1. "set" \in Pcs
    BY DEF Pcs
  <1> QED
    BY <1>1 DEF ThreadTypes, Send

\* Returning keeps them.
LEMMA ReturnTypes ==
  ASSUME ThreadTypes, HalTypes, NEW t \in Threads, Return(t)
  PROVE  ThreadTypes' /\ call' \in Calls \cup {None}
  <1>1. "idle" \in Pcs
    BY DEF Pcs
  <1> QED
    BY <1>1 DEF ThreadTypes, HalTypes, Return

\* Ending an operation keeps them.
LEMMA OperatedTypes ==
  ASSUME ThreadTypes, HalTypes, NEW t \in Threads, NEW c, NEW r \in BOOLEAN,
         Operated(t, c, r)
  PROVE  /\ ThreadTypes' /\ HalTypes'
         /\ adapter' = adapter /\ next' = next /\ fresh' = fresh
  <1>1. "finish" \in Pcs
    BY DEF Pcs
  <1> QED
    BY <1>1 DEF ThreadTypes, HalTypes, Operated, stateVars, halVars

\* Locking and unlocking keep the type of the locks.
LEMMA LockTypes ==
  ASSUME AdapterTypes, NEW t \in Threads, NEW l \in Locks, Take(l, t) \/ Release(l)
  PROVE  owner' \in [Locks -> Threads \cup {None}]
  BY DEF AdapterTypes, Take, Release

\* Counting a fault, or none, keeps the type of the count.
LEMMA FaultTypes ==
  ASSUME AdapterTypes, Fails \/ UNCHANGED faults
  PROVE  faults' \in 0..MaxFaults
  BY CameraAssumption DEF AdapterTypes, Fails

\* The threads and the locks.
LEMMA Names ==
  /\ "app" \in Threads /\ "cmd" \in Threads /\ "ret" \in Threads /\ "omx" \in Threads
  /\ "mLock" \in Locks /\ "hal" \in Locks /\ "img" \in Locks /\ "burst" \in Locks
  /\ "zoom" \in Locks /\ "switch" \in Locks
  BY DEF Threads, Locks

\* Every position the code goes to.
LEMMA PcNames ==
  /\ "idle" \in Pcs
  /\ "set" \in Pcs
  /\ "op" \in Pcs
  /\ "finish" \in Pcs
  /\ "sp.begin" \in Pcs
  /\ "sp.query" \in Pcs
  /\ "sp.use" \in Pcs
  /\ "sp.display" \in Pcs
  /\ "aborted" \in Pcs
  /\ "sp.start" \in Pcs
  /\ "sp.fail" \in Pcs
  /\ "pm.lock" \in Pcs
  /\ "pm.zoom" \in Pcs
  /\ "rb.read" \in Pcs
  /\ "rb.sent" \in Pcs
  /\ "rb.end" \in Pcs
  /\ "rs.lock" \in Pcs
  /\ "rs.zoom" \in Pcs
  /\ "caf.lock" \in Pcs
  /\ "caf.zoom" \in Pcs
  /\ "caf.done" \in Pcs
  /\ "tp.lock" \in Pcs
  /\ "tp.begin" \in Pcs
  /\ "tp.query" \in Pcs
  /\ "tp.use" \in Pcs
  /\ "hal.done" \in Pcs
  /\ "end.lock" \in Pcs
  /\ "end.done" \in Pcs
  /\ "rec.done" \in Pcs
  /\ "sr.lock" \in Pcs
  /\ "sr.begin" \in Pcs
  /\ "sr.img" \in Pcs
  /\ "sr.done" \in Pcs
  /\ "af.lock" \in Pcs
  /\ "app.done" \in Pcs
  /\ "zoom.done" \in Pcs
  /\ "cap.lock" \in Pcs
  /\ "cap.next" \in Pcs
  /\ "cap.burst" \in Pcs
  /\ "foc.read" \in Pcs
  /\ "foc.wait" \in Pcs
  /\ "fill.lock" \in Pcs
  /\ "img.count" \in Pcs
  BY DEF Pcs

\* Every step keeps the types.
LEMMA TypeStep == TypeOK /\ [Next]_vars => TypeOK'
  <1> SUFFICES ASSUME TypeOK, [Next]_vars PROVE TypeOK'
    OBVIOUS
  <1>c. \A c \in {"QUERY_RES", "QUERY_IMG", "USE_PREVIEW", "USE_IMG",
                  "START_PREVIEW", "STOP_PREVIEW", "START_IMG", "STOP_IMG", "AF",
                  "CANCEL_AF", "START_VIDEO", "STOP_VIDEO", "START_ZOOM",
                  "STOP_ZOOM", "STOP_BRACKET"} : c \in Commands
    BY CommandNames
  <1> USE Names DEF TypeOK, stateVars, omxVars, imageVars, halVars, flagVars, lowVars
  <1>a. ASSUME NEW t \in Threads, SendCommand(t) PROVE TypeOK'
    <2>1. CASE SetState(t)
      BY <2>1, TableTypes, PcNames DEF SetState, ThreadTypes, HalTypes,
         AdapterTypes, ImageTypes, None
    <2>2. CASE Finish(t)
      BY <2>2, PcNames DEF Finish, ThreadTypes, HalTypes, AdapterTypes,
         ImageTypes, None
    <2>3. CASE Query(t)
      BY <2>3, OperatedTypes DEF Query, AdapterTypes, ImageTypes
    <2>4. CASE Fault(t)
      <3>1. ThreadTypes' /\ HalTypes'
        BY <2>4, OperatedTypes DEF Fault, AdapterTypes
      <3>2. AdapterTypes'
        BY <2>4, CameraAssumption DEF Fault, Fails, Operated, AdapterTypes
      <3>3. ImageTypes'
        BY <2>4, CameraAssumption DEF Fault, ImageTypes
      <3> QED
        BY <3>1, <3>2, <3>3
    <2>5. CASE UseBuffersPreview(t)
      <3>1. ThreadTypes' /\ HalTypes'
        BY <2>5, OperatedTypes DEF UseBuffersPreview
      <3>2. AdapterTypes'
        <4>1. dead' = dead \/ dead' = TRUE
          BY <2>5 DEF UseBuffersPreview
        <4>2. faults' \in 0..MaxFaults
          BY <2>5, FaultTypes DEF UseBuffersPreview
        <4>3. /\ owner' \in [Locks -> Threads \cup {None}]
              /\ UNCHANGED <<recording, configured, zoom, msgs>>
          BY <2>5 DEF UseBuffersPreview, AdapterTypes
        <4>4. UNCHANGED <<adapter, next, fresh>>
          BY <2>5 DEF UseBuffersPreview, Operated
        <4> QED
          BY <4>1, <4>2, <4>3, <4>4 DEF AdapterTypes
      <3>3. ImageTypes'
        BY <2>5 DEF UseBuffersPreview, ImageTypes
      <3> QED
        BY <3>1, <3>2, <3>3
    <2>6. CASE StartPreview(t)
      <3>1. ThreadTypes' /\ HalTypes'
        BY <2>6, OperatedTypes DEF StartPreview, AdapterTypes
      <3>2. AdapterTypes'
        <4>1. dead' = dead \/ dead' = TRUE
          BY <2>6 DEF StartPreview
        <4>2. faults' \in 0..MaxFaults
          BY <2>6, FaultTypes DEF StartPreview
        <4>3. /\ owner' \in [Locks -> Threads \cup {None}]
              /\ UNCHANGED <<recording, configured, zoom, msgs>>
          BY <2>6 DEF StartPreview, AdapterTypes
        <4>4. UNCHANGED <<adapter, next, fresh>>
          BY <2>6 DEF StartPreview, Operated
        <4> QED
          BY <4>1, <4>2, <4>3, <4>4 DEF AdapterTypes
      <3>3. ImageTypes'
        BY <2>6, CameraAssumption DEF StartPreview, ImageTypes
      <3> QED
        BY <3>1, <3>2, <3>3
    <2>7. CASE StopPreview(t)
      <3>1. ThreadTypes' /\ HalTypes'
        BY <2>7, OperatedTypes DEF StopPreview, AdapterTypes
      <3>2. AdapterTypes'
        <4>1. dead' = dead \/ dead' = TRUE
          BY <2>7 DEF StopPreview
        <4>2. faults' \in 0..MaxFaults
          BY <2>7, FaultTypes DEF StopPreview
        <4>3. configured' = configured \/ configured' = FALSE
          BY <2>7 DEF StopPreview
        <4>4. /\ owner' \in [Locks -> Threads \cup {None}]
              /\ UNCHANGED <<recording, zoom, msgs>>
          BY <2>7 DEF StopPreview, AdapterTypes
        <4>5. UNCHANGED <<adapter, next, fresh>>
          BY <2>7 DEF StopPreview, Operated
        <4> QED
          BY <4>1, <4>2, <4>3, <4>4, <4>5 DEF AdapterTypes
      <3>3. ImageTypes'
        <4>1. imgs' \in {imgs, [imgs EXCEPT !.ducati = 0]}
          BY <2>7 DEF StopPreview
        <4> QED
          BY <2>7, <4>1 DEF StopPreview, ImageTypes
      <3> QED
        BY <3>1, <3>2, <3>3
    <2>8. CASE UseBuffersCapture(t)
      <3>1. ThreadTypes' /\ HalTypes'
        BY <2>8, OperatedTypes DEF UseBuffersCapture, AdapterTypes
      <3>2. AdapterTypes'
        <4>1. dead' = dead \/ dead' = TRUE
          BY <2>8 DEF UseBuffersCapture
        <4>2. faults' \in 0..MaxFaults
          BY <2>8, FaultTypes DEF UseBuffersCapture
        <4>3. configured' = TRUE \/ configured' = FALSE
          BY <2>8 DEF UseBuffersCapture
        <4>4. UNCHANGED <<owner, recording, zoom, msgs>>
          BY <2>8 DEF UseBuffersCapture
        <4>5. UNCHANGED <<adapter, next, fresh>>
          BY <2>8 DEF UseBuffersCapture, Operated
        <4> QED
          BY <4>1, <4>2, <4>3, <4>4, <4>5 DEF AdapterTypes
      <3>3. ImageTypes'
        <4>1. imgs' \in {imgs, NoImages, [imgs EXCEPT !.ducati = 0]}
          BY <2>8 DEF UseBuffersCapture
        <4> QED
          BY <2>8, <4>1 DEF UseBuffersCapture, ImageTypes, NoImages
      <3> QED
        BY <3>1, <3>2, <3>3
    <2>9. CASE TakePicture(t)
      <3>1. ThreadTypes' /\ HalTypes'
        BY <2>9, OperatedTypes DEF TakePicture, AdapterTypes
      <3>2. AdapterTypes'
        BY <2>9, CameraAssumption DEF TakePicture, Operated, AdapterTypes
      <3>3. ImageTypes'
        BY <2>9, CameraAssumption DEF TakePicture, ImageTypes
      <3> QED
        BY <3>1, <3>2, <3>3
    <2>10. CASE StopImageCapture(t)
      <3>1. ThreadTypes' /\ HalTypes'
        BY <2>10, OperatedTypes DEF StopImageCapture, AdapterTypes
      <3>2. AdapterTypes'
        <4>1. dead' = dead \/ dead' = TRUE
          BY <2>10 DEF StopImageCapture
        <4>2. faults' \in 0..MaxFaults
          BY <2>10, FaultTypes DEF StopImageCapture
        <4>3. /\ owner' \in [Locks -> Threads \cup {None}]
              /\ UNCHANGED <<recording, configured, zoom, msgs>>
          BY <2>10 DEF StopImageCapture, AdapterTypes
        <4>4. UNCHANGED <<adapter, next, fresh>>
          BY <2>10 DEF StopImageCapture, Operated
        <4> QED
          BY <4>1, <4>2, <4>3, <4>4 DEF AdapterTypes
      <3>3. ImageTypes'
        <4>1. /\ captured' \in {captured, 0} /\ accum' \in {accum, 0}
              /\ queued' \in {queued, 0} /\ imgs' = imgs
          BY <2>10 DEF StopImageCapture
        <4> QED
          BY <4>1, CameraAssumption DEF ImageTypes
      <3> QED
        BY <3>1, <3>2, <3>3
    <2>11. CASE AutoFocus(t)
      <3>1. ThreadTypes' /\ HalTypes'
        BY <2>11, OperatedTypes DEF AutoFocus, AdapterTypes
      <3>2. AdapterTypes'
        BY <2>11, CameraAssumption DEF AutoFocus, Operated, AdapterTypes
      <3>3. ImageTypes'
        BY <2>11, CameraAssumption DEF AutoFocus, ImageTypes
      <3> QED
        BY <3>1, <3>2, <3>3
    <2>12. CASE StartVideoCapture(t)
      BY <2>12, OperatedTypes DEF StartVideoCapture, AdapterTypes, ImageTypes
    <2>13. CASE StopVideoCapture(t)
      <3>1. ThreadTypes' /\ HalTypes'
        BY <2>13, OperatedTypes DEF StopVideoCapture, AdapterTypes
      <3>2. AdapterTypes'
        BY <2>13, CameraAssumption DEF StopVideoCapture, Operated, AdapterTypes
      <3>3. ImageTypes'
        BY <2>13, CameraAssumption DEF StopVideoCapture, ImageTypes
      <3> QED
        BY <3>1, <3>2, <3>3
    <2>14. CASE StartSmoothZoom(t)
      BY <2>14, OperatedTypes DEF StartSmoothZoom, AdapterTypes, ImageTypes
    <2>15. CASE StopSmoothZoom(t)
      BY <2>15, OperatedTypes DEF StopSmoothZoom, AdapterTypes, ImageTypes
    <2> QED
      BY <1>a, <2>1, <2>2, <2>3, <2>4, <2>5, <2>6, <2>7, <2>8, <2>9, <2>10,
         <2>11, <2>12, <2>13, <2>14, <2>15 DEF SendCommand
  <1>1. CASE StartPreviewCall
    BY <1>1, <1>c, GotoTypes, SendTypes, ReturnTypes, LockTypes, PcNames
       DEF StartPreviewCall, Begin, Ready, HalTypes, AdapterTypes, ImageTypes
  <1>2. CASE StopPreviewCall
    BY <1>2, <1>c, GotoTypes, SendTypes, ReturnTypes, LockTypes, PcNames
       DEF StopPreviewCall, Begin, Ready, HalTypes, AdapterTypes, ImageTypes
  <1>3. CASE RestartPreviewCall
    BY <1>3, <1>c, GotoTypes, SendTypes, ReturnTypes, LockTypes, PcNames
       DEF RestartPreviewCall, Begin, Ready, HalTypes, AdapterTypes, ImageTypes
  <1>4. CASE TakePictureCall
    BY <1>4, <1>c, GotoTypes, SendTypes, ReturnTypes, LockTypes, PcNames
       DEF TakePictureCall, Begin, Ready, HalTypes, AdapterTypes, ImageTypes
  <1>5. CASE CancelPictureCall
    BY <1>5, <1>c, GotoTypes, SendTypes, ReturnTypes, LockTypes, PcNames
       DEF CancelPictureCall, Begin, Ready, HalTypes, AdapterTypes, ImageTypes
  <1>6. CASE StartRecordingCall
    BY <1>6, <1>c, GotoTypes, SendTypes, ReturnTypes, LockTypes, PcNames
       DEF StartRecordingCall, Begin, Ready, HalTypes, AdapterTypes, ImageTypes
  <1>7. CASE StopRecordingCall
    BY <1>7, <1>c, GotoTypes, SendTypes, ReturnTypes, LockTypes, PcNames
       DEF StopRecordingCall, Begin, Ready, HalTypes, AdapterTypes, ImageTypes
  <1>8. CASE AutoFocusCall
    BY <1>8, <1>c, GotoTypes, SendTypes, ReturnTypes, LockTypes, PcNames
       DEF AutoFocusCall, Begin, Ready, HalTypes, AdapterTypes, ImageTypes
  <1>9. CASE CancelAutoFocusCall
    BY <1>9, <1>c, GotoTypes, SendTypes, ReturnTypes, LockTypes, PcNames
       DEF CancelAutoFocusCall, Begin, Ready, HalTypes, AdapterTypes, ImageTypes
  <1>10. CASE ZoomCall
    BY <1>10, <1>c, GotoTypes, SendTypes, ReturnTypes, LockTypes, PcNames
       DEF ZoomCall, Begin, Ready, HalTypes, AdapterTypes, ImageTypes
  <1>11. CASE GetParametersCall
    BY <1>11, <1>c, GotoTypes, SendTypes, ReturnTypes, LockTypes, PcNames
       DEF GetParametersCall, Begin, Ready, HalTypes, AdapterTypes, ImageTypes
  <1>12. CASE PreviewInitialization
    BY <1>12, <1>c, GotoTypes, SendTypes, ReturnTypes, LockTypes, PcNames
       DEF PreviewInitialization, Begin, Ready, HalTypes, AdapterTypes, ImageTypes
  <1>13. CASE AllocPreviewBufs
    <2>1. ThreadTypes'
      BY <1>13, GotoTypes, SendTypes, ReturnTypes, PcNames, <1>c DEF
         AllocPreviewBufs
    <2>2. HalTypes'
      BY <1>13, ReturnTypes DEF AllocPreviewBufs, HalTypes
    <2>3. AdapterTypes'
      BY <1>13, CameraAssumption DEF AllocPreviewBufs, Fails, AdapterTypes
    <2>4. ImageTypes'
      BY <1>13, CameraAssumption DEF AllocPreviewBufs, ImageTypes
    <2> QED
      BY <2>1, <2>2, <2>3, <2>4
  <1>14. CASE StartNotifier
    <2>1. ThreadTypes'
      BY <1>14, GotoTypes, SendTypes, ReturnTypes, PcNames, <1>c DEF StartNotifier
    <2>2. HalTypes'
      BY <1>14, ReturnTypes DEF StartNotifier, HalTypes
    <2>3. AdapterTypes'
      BY <1>14, CameraAssumption DEF StartNotifier, Fails, AdapterTypes
    <2>4. ImageTypes'
      BY <1>14, CameraAssumption DEF StartNotifier, ImageTypes
    <2> QED
      BY <2>1, <2>2, <2>3, <2>4
  <1>15. CASE PreviewStarted
    BY <1>15, <1>c, GotoTypes, SendTypes, ReturnTypes, LockTypes, PcNames
       DEF PreviewStarted, Begin, Ready, HalTypes, AdapterTypes, ImageTypes
  <1>16. CASE PreviewFailed
    BY <1>16, <1>c, GotoTypes, SendTypes, ReturnTypes, LockTypes, PcNames
       DEF PreviewFailed, Begin, Ready, HalTypes, AdapterTypes, ImageTypes
  <1>17. CASE RollbackRead
    <2>1. ThreadTypes'
      BY <1>17, GotoTypes, SendTypes, ReturnTypes, PcNames, <1>c,
         RollbackCommands DEF RollbackRead
    <2>2. HalTypes'
      BY <1>17, ReturnTypes DEF RollbackRead, HalTypes
    <2>3. AdapterTypes'
      BY <1>17, CameraAssumption DEF RollbackRead, AdapterTypes, Take, Release
    <2>4. ImageTypes'
      BY <1>17, CameraAssumption DEF RollbackRead, ImageTypes
    <2> QED
      BY <2>1, <2>2, <2>3, <2>4
  <1>18. CASE RollbackSent
    BY <1>18, <1>c, GotoTypes, SendTypes, ReturnTypes, LockTypes, PcNames
       DEF RollbackSent, Begin, Ready, HalTypes, AdapterTypes, ImageTypes
  <1>19. CASE FreePreviewBufs
    BY <1>19, <1>c, GotoTypes, SendTypes, ReturnTypes, LockTypes, PcNames
       DEF FreePreviewBufs, Begin, Ready, HalTypes, AdapterTypes, ImageTypes
  <1>20. CASE CancelAutoFocus
    BY <1>20, <1>c, GotoTypes, SendTypes, ReturnTypes, LockTypes, PcNames
       DEF CancelAutoFocus, Begin, Ready, HalTypes, AdapterTypes, ImageTypes
  <1>21. CASE CancelAutoFocusDone
    BY <1>21, <1>c, GotoTypes, SendTypes, ReturnTypes, LockTypes, PcNames
       DEF CancelAutoFocusDone, Begin, Ready, HalTypes, AdapterTypes, ImageTypes
  <1>22. CASE TakePictureLock
    BY <1>22, <1>c, GotoTypes, SendTypes, ReturnTypes, LockTypes, PcNames
       DEF TakePictureLock, Begin, Ready, HalTypes, AdapterTypes, ImageTypes
  <1>23. CASE TakePictureBegin
    <2>1. ThreadTypes'
      BY <1>23, GotoTypes, SendTypes, ReturnTypes, PcNames, <1>c DEF
         TakePictureBegin
    <2>2. HalTypes'
      BY <1>23, ReturnTypes DEF TakePictureBegin, HalTypes
    <2>3. AdapterTypes'
      BY <1>23, CameraAssumption DEF TakePictureBegin, AdapterTypes, Take, Release
    <2>4. ImageTypes'
      BY <1>23, CameraAssumption DEF TakePictureBegin, ImageTypes
    <2> QED
      BY <2>1, <2>2, <2>3, <2>4
  <1>24. CASE TakePictureNext
    BY <1>24, <1>c, GotoTypes, SendTypes, ReturnTypes, LockTypes, PcNames
       DEF TakePictureNext, Begin, Ready, HalTypes, AdapterTypes, ImageTypes
  <1>25. CASE HalDone
    BY <1>25, <1>c, GotoTypes, SendTypes, ReturnTypes, LockTypes, PcNames
       DEF HalDone, Begin, Ready, HalTypes, AdapterTypes, ImageTypes
  <1>26. CASE RecordingStarted
    BY <1>26, <1>c, GotoTypes, SendTypes, ReturnTypes, LockTypes, PcNames
       DEF RecordingStarted, Begin, Ready, HalTypes, AdapterTypes, ImageTypes
  <1>27. CASE StopRecordingLock
    BY <1>27, <1>c, GotoTypes, SendTypes, ReturnTypes, LockTypes, PcNames
       DEF StopRecordingLock, Begin, Ready, HalTypes, AdapterTypes, ImageTypes
  <1>28. CASE StopRecordingBegin
    BY <1>28, <1>c, GotoTypes, SendTypes, ReturnTypes, LockTypes, PcNames
       DEF StopRecordingBegin, Begin, Ready, HalTypes, AdapterTypes, ImageTypes
  <1>29. CASE StopRecordingNext
    <2>1. ThreadTypes'
      BY <1>29, GotoTypes, SendTypes, ReturnTypes, PcNames, <1>c DEF
         StopRecordingNext
    <2>2. HalTypes'
      BY <1>29, ReturnTypes DEF StopRecordingNext, HalTypes
    <2>3. AdapterTypes'
      BY <1>29, CameraAssumption DEF StopRecordingNext, AdapterTypes, Take, Release
    <2>4. ImageTypes'
      BY <1>29, CameraAssumption DEF StopRecordingNext, ImageTypes
    <2> QED
      BY <2>1, <2>2, <2>3, <2>4
  <1>30. CASE AutoFocusBegin
    BY <1>30, <1>c, GotoTypes, SendTypes, ReturnTypes, LockTypes, PcNames
       DEF AutoFocusBegin, Begin, Ready, HalTypes, AdapterTypes, ImageTypes
  <1>31. CASE AppDone
    BY <1>31, <1>c, GotoTypes, SendTypes, ReturnTypes, LockTypes, PcNames
       DEF AppDone, Begin, Ready, HalTypes, AdapterTypes, ImageTypes
  <1>32. CASE Handler
    BY <1>32, <1>c, GotoTypes, SendTypes, ReturnTypes, LockTypes, PcNames
       DEF Handler, Begin, Ready, HalTypes, AdapterTypes, ImageTypes
  <1>33. CASE StartImageCapture
    BY <1>33, <1>c, GotoTypes, SendTypes, ReturnTypes, LockTypes, PcNames
       DEF StartImageCapture, Begin, Ready, HalTypes, AdapterTypes, ImageTypes
  <1>34. CASE CaptureCancelled
    BY <1>34, <1>c, GotoTypes, SendTypes, ReturnTypes, LockTypes, PcNames
       DEF CaptureCancelled, Begin, Ready, HalTypes, AdapterTypes, ImageTypes
  <1>35. CASE QueueBurst
    <2>1. ThreadTypes'
      BY <1>35, GotoTypes, SendTypes, ReturnTypes, PcNames, <1>c DEF QueueBurst
    <2>2. HalTypes'
      BY <1>35, ReturnTypes DEF QueueBurst, HalTypes
    <2>3. AdapterTypes'
      BY <1>35, CameraAssumption DEF QueueBurst, AdapterTypes, Take, Release
    <2>4. ImageTypes'
      BY <1>35, CameraAssumption DEF QueueBurst, ImageTypes
    <2> QED
      BY <2>1, <2>2, <2>3, <2>4
  <1>36. CASE DoAutoFocus
    BY <1>36, <1>c, GotoTypes, SendTypes, ReturnTypes, LockTypes, PcNames
       DEF DoAutoFocus, Begin, Ready, HalTypes, AdapterTypes, ImageTypes
  <1>37. CASE ReturnFocusStatus
    BY <1>37, <1>c, GotoTypes, SendTypes, ReturnTypes, LockTypes, PcNames
       DEF ReturnFocusStatus, Begin, Ready, HalTypes, AdapterTypes, ImageTypes
  <1>38. CASE FillThisBuffer
    <2>1. ThreadTypes'
      BY <1>38, GotoTypes, SendTypes, ReturnTypes, PcNames, <1>c DEF FillThisBuffer
    <2>2. HalTypes'
      BY <1>38, ReturnTypes DEF FillThisBuffer, HalTypes
    <2>3. AdapterTypes'
      BY <1>38, CameraAssumption DEF FillThisBuffer, AdapterTypes, Take, Release
    <2>4. ImageTypes'
      <3>1. /\ imgs.ducati + 1 \in Nat /\ imgs.lost + 1 \in Nat
            /\ imgs.ducati > 0 => imgs.ducati - 1 \in Nat
            /\ imgs.consumer > 0 => imgs.consumer - 1 \in Nat
        BY DEF ImageTypes
      <3>2. imgs' \in [ducati : Nat, consumer : Nat, filling : Nat, lost : Nat]
        <4>1. /\ imgs.consumer > 0
              /\ \/ imgs' = [imgs EXCEPT !.consumer = @ - 1, !.filling = 1]
                 \/ imgs' = [imgs EXCEPT !.consumer = @ - 1, !.lost = @ + 1]
          BY <1>38 DEF FillThisBuffer
        <4>2. CASE imgs' = [imgs EXCEPT !.consumer = @ - 1, !.filling = 1]
          BY <3>1, <4>1, <4>2 DEF ImageTypes
        <4>3. CASE imgs' = [imgs EXCEPT !.consumer = @ - 1, !.lost = @ + 1]
          BY <3>1, <4>1, <4>3 DEF ImageTypes
        <4> QED
          BY <4>1, <4>2, <4>3
      <3>3. captured' = captured /\ accum' = accum /\ queued' \in {queued, queued + 1}
        BY <1>38 DEF FillThisBuffer
      <3> QED
        BY <3>2, <3>3 DEF ImageTypes
    <2> QED
      BY <2>1, <2>2, <2>3, <2>4
  <1>39. CASE FillThisImage
    <2>1. ThreadTypes'
      BY <1>39, GotoTypes, SendTypes, ReturnTypes, PcNames, <1>c DEF FillThisImage
    <2>2. HalTypes'
      BY <1>39, ReturnTypes DEF FillThisImage, HalTypes
    <2>3. AdapterTypes'
      BY <1>39, CameraAssumption DEF FillThisImage, AdapterTypes, Take, Release
    <2>4. ImageTypes'
      <3>1. /\ imgs.ducati + 1 \in Nat /\ imgs.lost + 1 \in Nat
            /\ imgs.ducati > 0 => imgs.ducati - 1 \in Nat
            /\ imgs.consumer > 0 => imgs.consumer - 1 \in Nat
        BY DEF ImageTypes
      <3>2. imgs' \in [ducati : Nat, consumer : Nat, filling : Nat, lost : Nat]
        <4>1. \/ imgs' = imgs
              \/ imgs' = [imgs EXCEPT !.filling = 0]
              \/ imgs' = [imgs EXCEPT !.filling = 0, !.ducati = @ + 1]
          BY <1>39 DEF FillThisImage
        <4>2. CASE imgs' = imgs \/ imgs' = [imgs EXCEPT !.filling = 0]
          BY <4>2 DEF ImageTypes
        <4>3. CASE imgs' = [imgs EXCEPT !.filling = 0, !.ducati = @ + 1]
          BY <3>1, <4>3 DEF ImageTypes
        <4> QED
          BY <4>1, <4>2, <4>3
      <3>3. captured' = captured /\ accum' = accum /\ queued' \in {queued, queued + 1}
        BY <1>39 DEF FillThisImage
      <3> QED
        BY <3>2, <3>3 DEF ImageTypes
    <2> QED
      BY <2>1, <2>2, <2>3, <2>4
  <1>40. CASE ImageDone
    <2>1. ThreadTypes'
      BY <1>40, GotoTypes, SendTypes, ReturnTypes, PcNames, <1>c DEF ImageDone
    <2>2. HalTypes'
      BY <1>40, ReturnTypes DEF ImageDone, HalTypes
    <2>3. AdapterTypes'
      BY <1>40, CameraAssumption DEF ImageDone, AdapterTypes, Take, Release
    <2>4. ImageTypes'
      <3>1. /\ imgs.ducati + 1 \in Nat /\ imgs.lost + 1 \in Nat
            /\ imgs.ducati > 0 => imgs.ducati - 1 \in Nat
            /\ imgs.consumer > 0 => imgs.consumer - 1 \in Nat
        BY DEF ImageTypes
      <3>2. imgs' \in [ducati : Nat, consumer : Nat, filling : Nat, lost : Nat]
        BY <1>40, <3>1 DEF ImageDone, ImageTypes
      <3>3. captured' = captured /\ accum' = accum /\ queued' \in {queued, queued + 1}
        BY <1>40 DEF ImageDone
      <3> QED
        BY <3>2, <3>3 DEF ImageTypes
    <2> QED
      BY <2>1, <2>2, <2>3, <2>4
  <1>41. CASE CountImage
    <2>1. ThreadTypes'
      BY <1>41, GotoTypes, SendTypes, ReturnTypes, PcNames, <1>c DEF CountImage
    <2>2. HalTypes'
      BY <1>41, ReturnTypes DEF CountImage, HalTypes
    <2>3. AdapterTypes'
      BY <1>41, CameraAssumption DEF CountImage, AdapterTypes, Take, Release
    <2>4. ImageTypes'
      BY <1>41, CameraAssumption DEF CountImage, ImageTypes
    <2> QED
      BY <2>1, <2>2, <2>3, <2>4
  <1>42. CASE AdvanceZoom
    <2>1. ThreadTypes'
      BY <1>42, GotoTypes, SendTypes, ReturnTypes, PcNames, <1>c DEF
         AdvanceZoom, ThreadTypes
    <2>2. HalTypes'
      BY <1>42, ReturnTypes DEF AdvanceZoom, HalTypes
    <2>3. AdapterTypes'
      BY <1>42, CameraAssumption DEF AdvanceZoom, AdapterTypes, Take, Release
    <2>4. ImageTypes'
      BY <1>42, CameraAssumption DEF AdvanceZoom, ImageTypes
    <2> QED
      BY <2>1, <2>2, <2>3, <2>4
  <1>43. ASSUME NEW t \in {"app", "ret"}, SignalEndImageCapture(t) \/ SignalEndDone(t)
        PROVE TypeOK'
    BY <1>43, <1>c, SendTypes, ReturnTypes, LockTypes, PcNames
       DEF SignalEndImageCapture, SignalEndDone, HalTypes, AdapterTypes, ImageTypes
  <1>44. ASSUME NEW t \in {"app", "omx"}, ZoomDone(t) PROVE TypeOK'
    BY <1>44, ReturnTypes, LockTypes DEF ZoomDone, HalTypes, AdapterTypes,
       ImageTypes
  <1>51. CASE EnableDisplay
    <2>1. ThreadTypes'
      BY <1>51, GotoTypes, SendTypes, ReturnTypes, PcNames, <1>c DEF EnableDisplay
    <2>2. HalTypes'
      BY <1>51, ReturnTypes DEF EnableDisplay, HalTypes
    <2>3. AdapterTypes'
      BY <1>51, CameraAssumption DEF EnableDisplay, Fails, AdapterTypes
    <2>4. ImageTypes'
      BY <1>51, CameraAssumption DEF EnableDisplay, ImageTypes
    <2> QED
      BY <2>1, <2>2, <2>3, <2>4
  <1>52. CASE SetParametersLock
    BY <1>52, <1>c, GotoTypes, SendTypes, ReturnTypes, LockTypes, PcNames
       DEF SetParametersLock, Begin, Ready, HalTypes, AdapterTypes, ImageTypes
  <1>53. CASE SetParametersUpdate
    BY <1>53, <1>c, GotoTypes, SendTypes, ReturnTypes, LockTypes, PcNames
       DEF SetParametersUpdate, Begin, Ready, HalTypes, AdapterTypes, ImageTypes
  <1>54. CASE RestartLock
    BY <1>54, <1>c, GotoTypes, SendTypes, ReturnTypes, LockTypes, PcNames
       DEF RestartLock, Begin, Ready, HalTypes, AdapterTypes, ImageTypes
  <1>55. CASE RestartParameters
    BY <1>55, <1>c, GotoTypes, SendTypes, ReturnTypes, LockTypes, PcNames
       DEF RestartParameters, Begin, Ready, HalTypes, AdapterTypes, ImageTypes
  <1>56. CASE CancelAutoFocusLock
    BY <1>56, <1>c, GotoTypes, SendTypes, ReturnTypes, LockTypes, PcNames
       DEF CancelAutoFocusLock, Begin, Ready, HalTypes, AdapterTypes, ImageTypes
  <1>45. CASE NewCall
    BY <1>45, <1>1, <1>2, <1>3, <1>4, <1>5, <1>6, <1>7, <1>8, <1>9, <1>10, <1>11
       DEF NewCall
  <1>46. CASE App
    BY <1>46, <1>a, <1>12, <1>13, <1>14, <1>15, <1>16, <1>17, <1>18, <1>19,
       <1>20, <1>21, <1>22, <1>23, <1>24, <1>25, <1>26, <1>27, <1>28, <1>29,
       <1>30, <1>31, <1>43, <1>44,
       <1>51, <1>52, <1>53, <1>54, <1>55, <1>56 DEF App
  <1>47. CASE Cmd
    BY <1>47, <1>a, <1>32, <1>33, <1>34, <1>35, <1>36, <1>37 DEF Cmd
  <1>48. CASE Ret
    BY <1>48, <1>a, <1>38, <1>39, <1>43 DEF Ret
  <1>49. CASE Omx
    BY <1>49, <1>a, <1>40, <1>41, <1>42, <1>44 DEF Omx
  <1>50. CASE UNCHANGED vars
    BY <1>50 DEF vars, ThreadTypes, HalTypes, AdapterTypes, ImageTypes
  <1> QED
    BY <1>45, <1>46, <1>47, <1>48, <1>49, <1>50 DEF Next


\* The types hold initially ...
LEMMA TypeInit == Init => TypeOK
  <1> SUFFICES ASSUME Init PROVE TypeOK
    OBVIOUS
  <1>1. ThreadTypes
    BY PcNames DEF Init, ThreadTypes
  <1>2. HalTypes
    BY DEF Init, HalTypes
  <1>3. AdapterTypes
    <2>1. "INIT" \in States
      BY DEF States
    <2>2. owner \in [Locks -> Threads \cup {None}]
      BY DEF Init
    <2>3. msgs \in Seq({"capture", "focus"})
      BY DEF Init
    <2>4. faults \in 0..MaxFaults
      BY CameraAssumption DEF Init
    <2> QED
      BY <2>1, <2>2, <2>3, <2>4 DEF Init, AdapterTypes
  <1>4. ImageTypes
    BY CameraAssumption DEF Init, ImageTypes, NoImages
  <1> QED
    BY <1>1, <1>2, <1>3, <1>4 DEF TypeOK

\* ... and always: in particular mCapturedFrames stays in its word although it
\* is decremented without mBurstLock.
THEOREM TypesCorrect == Spec => []TypeOK
  BY TypeInit, TypeStep, PTL DEF Spec

-----------------------------------------------------------------------------
(* sendCommand.                                                            *)

InCommand(t) == pc[t] \in {"op", "finish"}

\* mLock is held exactly by the thread between setState and commitState or
\* rollbackState, and sendCommand returns to its caller.
Held == \A t \in Threads : /\ InCommand(t) <=> owner["mLock"] = t
                           /\ back[t] \notin {"set", "op", "finish"}

\* A command under way moves along a row of the table, or uses buffers although
\* it was refused, or has failed.
OnWay == \A t \in Threads : InCommand(t) =>
           \/ <<adapter, cmd[t], next>> \in Table
           \/ cmd[t] \in UseBuffers /\ next = adapter
           \/ pc[t] = "finish" /\ ~ok[t]

\* The recording flag while a command is under way.
Recorded == \A t \in Threads :
  /\ pc[t] = "op" => (recording <=> adapter \in VIDEO_ACTIVE)
  /\ pc[t] = "finish" /\ ok[t] => (recording <=> next \in VIDEO_ACTIVE)
  /\ pc[t] = "finish" /\ ~ok[t] => (recording <=> adapter \in VIDEO_ACTIVE)

\* The commands of the threads below the application, and of the callers of
\* setState that run no operation.
Below == \A t \in Threads :
  /\ t # "app" => cmd[t] \in {None, "CANCEL_AF", "STOP_IMG", "STOP_ZOOM"}
  /\ t = "cmd" => cmd[t] \in {None, "CANCEL_AF"}
  /\ back[t] = "zoom.done" => cmd[t] = "STOP_ZOOM"

\* The first command of all uses no buffers.
First == fresh => /\ pc["app"] \notin {"sp.query", "tp.query"}
                  /\ \A t \in Threads : cmd[t] \notin UseBuffers

Control == Held /\ NextInStep /\ OnWay /\ RecordingInStep /\ Recorded /\ Below /\ First

\* A step outside sendCommand.
Quiet == UNCHANGED <<adapter, next, fresh, recording>> /\ owner'["mLock"] = owner["mLock"]

Inside == {"set", "op", "finish"}

\* Moving a thread outside sendCommand keeps the control invariant, ...
LEMMA GotoKeeps ==
  ASSUME TypeOK, Control, Quiet, NEW t \in Threads, pc[t] \notin Inside,
         NEW p, p \notin Inside \cup {"sp.query", "tp.query"}, Goto(t, p)
  PROVE  Control'
  <1> USE DEF TypeOK, ThreadTypes, Quiet, Inside, Goto, Control, InCommand
  <1>1. Held'
    BY DEF Held
  <1>2. OnWay'
    BY DEF OnWay
  <1>3. Recorded'
    BY DEF Recorded
  <1>4. Below' /\ First'
    BY DEF Below, First
  <1>5. NextInStep' /\ RecordingInStep'
    BY DEF NextInStep, RecordingInStep, Free
  <1> QED
    BY <1>1, <1>2, <1>3, <1>4, <1>5

\* ... and so does returning from a call ...
LEMMA ReturnKeeps ==
  ASSUME TypeOK, Control, Quiet, NEW t \in Threads, pc[t] \notin Inside, Return(t)
  PROVE  Control'
  <1> USE DEF TypeOK, ThreadTypes, Quiet, Inside, Return, Control, InCommand
  <1>1. Held'
    BY DEF Held
  <1>2. OnWay'
    BY DEF OnWay
  <1>3. Recorded'
    BY DEF Recorded
  <1>4. Below' /\ First'
    BY DEF Below, First
  <1>5. NextInStep' /\ RecordingInStep'
    BY DEF NextInStep, RecordingInStep, Free
  <1> QED
    BY <1>1, <1>2, <1>3, <1>4, <1>5

\* ... and calling sendCommand.
LEMMA SendKeeps ==
  ASSUME TypeOK, Control, Quiet, NEW t \in Threads, pc[t] \notin Inside,
         NEW c \in Commands, NEW k, k \notin Inside, Send(t, c, k),
         t # "app" => c \in {"CANCEL_AF", "STOP_IMG", "STOP_ZOOM"},
         t = "cmd" => c = "CANCEL_AF",
         k = "zoom.done" => c = "STOP_ZOOM",
         c \in UseBuffers => pc["app"] \in {"sp.query", "tp.query"}
  PROVE  Control'
  <1> USE DEF TypeOK, ThreadTypes, Quiet, Inside, Send, Control, InCommand
  <1>1. Held'
    BY DEF Held
  <1>2. OnWay'
    BY DEF OnWay
  <1>3. Recorded'
    BY DEF Recorded
  <1>4. Below'
    BY DEF Below
  <1>5. First'
    BY DEF First
  <1>6. NextInStep' /\ RecordingInStep'
    BY DEF NextInStep, RecordingInStep, Free
  <1> QED
    BY <1>1, <1>2, <1>3, <1>4, <1>5, <1>6

\* The end of an operation that leaves the recording alone.
LEMMA OperatedKeeps ==
  ASSUME TypeOK, Control, NEW t \in Threads, NEW c, NEW r \in BOOLEAN,
         Operated(t, c, r), c \notin {"START_VIDEO", "STOP_VIDEO"},
         recording' = recording, owner'["mLock"] = owner["mLock"]
  PROVE  Control'
  <1> USE DEF TypeOK, ThreadTypes, Operated, stateVars, Control, InCommand
  <1>1. Held'
    BY DEF Held
  <1>2. OnWay'
    BY DEF OnWay
  <1>3. adapter \in VIDEO_ACTIVE <=> next \in VIDEO_ACTIVE
    <2>1. CASE <<adapter, cmd[t], next>> \in Table
      BY <2>1, TableVideo
    <2> QED
      BY <2>1 DEF OnWay
  <1>4. Recorded'
    BY <1>1, <1>3 DEF Recorded, Held
  <1>5. Below' /\ First'
    BY DEF Below, First
  <1>6. owner["mLock"] = t
    BY DEF Held
  <1>7. NextInStep' /\ RecordingInStep'
    BY <1>6 DEF NextInStep, RecordingInStep, Free, Threads, None
  <1> QED
    BY <1>1, <1>2, <1>4, <1>5, <1>7


\* setState takes mLock for a command that follows the table.
LEMMA SetStateKeeps ==
  ASSUME TypeOK, Control, NEW t \in Threads, SetState(t)
  PROVE  Control'
  <1> USE DEF TypeOK, ThreadTypes, Control, InCommand
  <1>1. /\ pc[t] = "set" /\ owner["mLock"] = None
        /\ owner' = [owner EXCEPT !["mLock"] = t]
        /\ UNCHANGED <<adapter, fresh, cmd, back, recording>>
    BY DEF SetState, Free, omxVars
  <1>2. \A u \in Threads : ~InCommand(u)
    BY <1>1 DEF Held, Threads, None
  <1>3. PICK o \in BOOLEAN, p \in {"op", "finish"} :
          ok' = [ok EXCEPT ![t] = o] /\ pc' = [pc EXCEPT ![t] = p]
    BY DEF SetState
  <1>4. CASE <<adapter, cmd[t], next'>> \in Table /\ o = TRUE
             /\ (p = "finish" => Bare(t))
    <2>1. Bare(t) => cmd[t] \notin {"START_VIDEO", "STOP_VIDEO"}
      BY DEF Bare, Below, None
    <2>2. p = "finish" => (adapter \in VIDEO_ACTIVE <=> next' \in VIDEO_ACTIVE)
      BY <1>4, <2>1, TableVideo
    <2>3. Held'
      BY <1>1, <1>2, <1>3, Names DEF Held, AdapterTypes
    <2>4. OnWay'
      BY <1>1, <1>2, <1>3, <1>4 DEF OnWay
    <2>5. Recorded'
      BY <1>1, <1>2, <1>3, <1>4, <2>2 DEF Recorded, RecordingInStep, Free
    <2>6. Below' /\ First'
      BY <1>1, <1>3 DEF Below, First
    <2>7. owner'["mLock"] # None
      BY <1>1, Names DEF AdapterTypes, Threads, None
    <2> QED
      BY <2>3, <2>4, <2>5, <2>6, <2>7 DEF NextInStep, RecordingInStep, Free
  <1>5. CASE /\ next' = next /\ o = FALSE
             /\ p = "op" => cmd[t] \in UseBuffers
    <2>1. cmd[t] \in UseBuffers => next = adapter
      BY <1>1 DEF First, NextInStep, Free
    <2>3. Held'
      BY <1>1, <1>2, <1>3, Names DEF Held, AdapterTypes
    <2>4. OnWay'
      BY <1>1, <1>2, <1>3, <1>5, <2>1 DEF OnWay
    <2>5. Recorded'
      BY <1>1, <1>2, <1>3, <1>5 DEF Recorded, RecordingInStep, Free
    <2>6. Below' /\ First'
      BY <1>1, <1>3 DEF Below, First
    <2>7. owner'["mLock"] # None
      BY <1>1, Names DEF AdapterTypes, Threads, None
    <2> QED
      BY <2>3, <2>4, <2>5, <2>6, <2>7 DEF NextInStep, RecordingInStep, Free
  <1>6. \/ <<adapter, cmd[t], next'>> \in Table /\ o = TRUE
             /\ (p = "finish" => Bare(t))
        \/ /\ next' = next /\ o = FALSE
           /\ p = "op" => cmd[t] \in UseBuffers
    BY <1>3, TableTypes DEF SetState
  <1> QED
    BY <1>4, <1>5, <1>6

\* commitState and rollbackState bring the two states together.
LEMMA FinishKeeps ==
  ASSUME TypeOK, Control, NEW t \in Threads, Finish(t)
  PROVE  Control'
  <1> USE DEF TypeOK, ThreadTypes, Control, InCommand
  <1>1. /\ pc[t] = "finish" /\ fresh' = FALSE /\ recording' = recording
        /\ owner' = [owner EXCEPT !["mLock"] = None]
        /\ pc' = [pc EXCEPT ![t] = back[t]] /\ cmd' = [cmd EXCEPT ![t] = None]
        /\ back' = [back EXCEPT ![t] = "idle"] /\ ok' = ok
    BY DEF Finish, omxVars
  <1>2. owner["mLock"] = t /\ owner'["mLock"] = None
    BY <1>1, Names DEF Held, AdapterTypes
  <1>3. Held'
    BY <1>1, <1>2 DEF Held, Threads, None
  <1>4. \A u \in Threads : ~InCommand(u)'
    BY <1>1, <1>2 DEF Held
  <1>5. next' = adapter'
    BY DEF Finish
  <1>6. recording <=> adapter' \in VIDEO_ACTIVE
    BY <1>1 DEF Finish, Recorded
  <1>7. OnWay' /\ Recorded'
    BY <1>4 DEF OnWay, Recorded
  <1>8. Below' /\ First'
    BY <1>1 DEF Below, First, None
  <1> QED
    BY <1>1, <1>3, <1>5, <1>6, <1>7, <1>8 DEF NextInStep, RecordingInStep

\* The two operations that change the recording change it with the state.
LEMMA VideoKeeps ==
  ASSUME TypeOK, Control, NEW t \in Threads,
         StartVideoCapture(t) \/ StopVideoCapture(t)
  PROVE  Control'
  <1> USE DEF TypeOK, ThreadTypes, Control, InCommand
  <1>1. /\ pc[t] = "op" /\ cmd[t] \in {"START_VIDEO", "STOP_VIDEO"}
        /\ pc' = [pc EXCEPT ![t] = "finish"]
        /\ UNCHANGED <<adapter, next, fresh, cmd, back, owner>>
    BY DEF StartVideoCapture, StopVideoCapture, Operated, stateVars
  <1>2. <<adapter, cmd[t], next>> \in Table
    BY <1>1 DEF OnWay, UseBuffers
  <1>3. recording <=> adapter \in VIDEO_ACTIVE
    BY <1>1 DEF Recorded
  <1>4. ok' = [ok EXCEPT ![t] = TRUE] /\ (recording' <=> next \in VIDEO_ACTIVE)
    <2>1. CASE StartVideoCapture(t)
      BY <1>2, <1>3, <2>1, TableVideo DEF StartVideoCapture, Operated, AdapterTypes
    <2>2. CASE StopVideoCapture(t)
      BY <1>2, <1>3, <2>2, TableVideo DEF StopVideoCapture, Operated, AdapterTypes
    <2> QED
      BY <2>1, <2>2
  <1>5. Held'
    BY <1>1 DEF Held
  <1>6. OnWay'
    BY <1>1, <1>2, <1>4 DEF OnWay, Held
  <1>7. \A u \in Threads : u # t => ~InCommand(u)
    BY <1>1 DEF Held
  <1>8. Recorded'
    BY <1>1, <1>4, <1>7 DEF Recorded
  <1>9. Below' /\ First'
    BY <1>1 DEF Below, First
  <1>10. owner["mLock"] # None
    BY <1>1 DEF Held, Threads, None
  <1> QED
    BY <1>1, <1>5, <1>6, <1>8, <1>9, <1>10 DEF NextInStep, RecordingInStep, Free

\* Every step keeps the control invariant.
LEMMA ControlStep == TypeOK /\ Control /\ [Next]_vars => Control'
  <1> SUFFICES ASSUME TypeOK, Control, [Next]_vars PROVE Control'
    OBVIOUS
  <1>c. \A c \in {"QUERY_RES", "QUERY_IMG", "USE_PREVIEW", "USE_IMG",
                  "START_PREVIEW", "STOP_PREVIEW", "START_IMG", "STOP_IMG", "AF",
                  "CANCEL_AF", "START_VIDEO", "STOP_VIDEO", "START_ZOOM",
                  "STOP_ZOOM", "STOP_BRACKET"} : c \in Commands
    BY CommandNames
  <1>o. owner \in [Locks -> Threads \cup {None}]
    BY DEF TypeOK, AdapterTypes
  <1> USE Names DEF stateVars, omxVars, lowVars, halVars
  <1>a. ASSUME NEW t \in Threads, SendCommand(t) PROVE Control'
    <2>1. CASE SetState(t)
      BY <2>1, SetStateKeeps
    <2>2. CASE Finish(t)
      BY <2>2, FinishKeeps
    <2>3. CASE Query(t)
      BY <2>3, <1>o, OperatedKeeps DEF Query
    <2>4. CASE Fault(t)
      BY <2>4, <1>o, OperatedKeeps DEF Fault
    <2>5. CASE UseBuffersPreview(t)
      BY <2>5, <1>o, OperatedKeeps DEF UseBuffersPreview
    <2>6. CASE StartPreview(t)
      BY <2>6, <1>o, OperatedKeeps DEF StartPreview
    <2>7. CASE StopPreview(t)
      BY <2>7, <1>o, OperatedKeeps DEF StopPreview
    <2>8. CASE UseBuffersCapture(t)
      BY <2>8, <1>o, OperatedKeeps DEF UseBuffersCapture
    <2>9. CASE TakePicture(t)
      BY <2>9, <1>o, OperatedKeeps DEF TakePicture
    <2>10. CASE StopImageCapture(t)
      BY <2>10, <1>o, OperatedKeeps DEF StopImageCapture
    <2>11. CASE AutoFocus(t)
      BY <2>11, <1>o, OperatedKeeps DEF AutoFocus
    <2>12. CASE StartVideoCapture(t)
      BY <2>12, VideoKeeps
    <2>13. CASE StopVideoCapture(t)
      BY <2>13, VideoKeeps
    <2>14. CASE StartSmoothZoom(t)
      BY <2>14, <1>o, OperatedKeeps DEF StartSmoothZoom
    <2>15. CASE StopSmoothZoom(t)
      BY <2>15, <1>o, OperatedKeeps DEF StopSmoothZoom
    <2> QED
      BY <1>a, <2>1, <2>2, <2>3, <2>4, <2>5, <2>6, <2>7, <2>8, <2>9, <2>10,
         <2>11, <2>12, <2>13, <2>14, <2>15 DEF SendCommand
  <1>1. CASE StartPreviewCall
    BY <1>1, <1>o, <1>c, GotoKeeps, SendKeeps, ReturnKeeps
       DEF StartPreviewCall, Quiet, Inside, UseBuffers, Begin, Ready, At, Take, Release
  <1>2. CASE StopPreviewCall
    BY <1>2, <1>o, <1>c, GotoKeeps, SendKeeps, ReturnKeeps
       DEF StopPreviewCall, Quiet, Inside, UseBuffers, Begin, Ready, At, Take, Release
  <1>3. CASE RestartPreviewCall
    BY <1>3, <1>o, <1>c, GotoKeeps, SendKeeps, ReturnKeeps
       DEF RestartPreviewCall, Quiet, Inside, UseBuffers, Begin, Ready, At, Take, Release
  <1>4. CASE TakePictureCall
    BY <1>4, <1>o, <1>c, GotoKeeps, SendKeeps, ReturnKeeps
       DEF TakePictureCall, Quiet, Inside, UseBuffers, Begin, Ready, At, Take, Release
  <1>5. CASE CancelPictureCall
    BY <1>5, <1>o, <1>c, GotoKeeps, SendKeeps, ReturnKeeps
       DEF CancelPictureCall, Quiet, Inside, UseBuffers, Begin, Ready, At, Take, Release
  <1>6. CASE StartRecordingCall
    BY <1>6, <1>o, <1>c, GotoKeeps, SendKeeps, ReturnKeeps
       DEF StartRecordingCall, Quiet, Inside, UseBuffers, Begin, Ready, At, Take, Release
  <1>7. CASE StopRecordingCall
    BY <1>7, <1>o, <1>c, GotoKeeps, SendKeeps, ReturnKeeps
       DEF StopRecordingCall, Quiet, Inside, UseBuffers, Begin, Ready, At, Take, Release
  <1>8. CASE AutoFocusCall
    BY <1>8, <1>o, <1>c, GotoKeeps, SendKeeps, ReturnKeeps
       DEF AutoFocusCall, Quiet, Inside, UseBuffers, Begin, Ready, At, Take, Release
  <1>9. CASE CancelAutoFocusCall
    BY <1>9, <1>o, <1>c, GotoKeeps, SendKeeps, ReturnKeeps
       DEF CancelAutoFocusCall, Quiet, Inside, UseBuffers, Begin, Ready, At, Take, Release
  <1>10. CASE ZoomCall
    BY <1>10, <1>o, <1>c, GotoKeeps, SendKeeps, ReturnKeeps
       DEF ZoomCall, Quiet, Inside, UseBuffers, Begin, Ready, At, Take, Release
  <1>11. CASE GetParametersCall
    BY <1>11, <1>o, <1>c, GotoKeeps, SendKeeps, ReturnKeeps
       DEF GetParametersCall, Quiet, Inside, UseBuffers, Begin, Ready, At, Take, Release
  <1>12. CASE PreviewInitialization
    BY <1>12, <1>o, <1>c, GotoKeeps, SendKeeps, ReturnKeeps
       DEF PreviewInitialization, Quiet, Inside, UseBuffers, Begin, Ready, At, Take, Release
  <1>13. CASE AllocPreviewBufs
    BY <1>13, <1>o, <1>c, GotoKeeps, SendKeeps, ReturnKeeps
       DEF AllocPreviewBufs, Quiet, Inside, UseBuffers, Begin, Ready, At, Take, Release
  <1>14. CASE StartNotifier
    BY <1>14, <1>o, <1>c, GotoKeeps, SendKeeps, ReturnKeeps
       DEF StartNotifier, Quiet, Inside, UseBuffers, Begin, Ready, At, Take, Release
  <1>15. CASE PreviewStarted
    BY <1>15, <1>o, <1>c, GotoKeeps, SendKeeps, ReturnKeeps
       DEF PreviewStarted, Quiet, Inside, UseBuffers, Begin, Ready, At, Take, Release
  <1>16. CASE PreviewFailed
    BY <1>16, <1>o, <1>c, GotoKeeps, SendKeeps, ReturnKeeps
       DEF PreviewFailed, Quiet, Inside, UseBuffers, Begin, Ready, At, Take, Release
  <1>17. CASE RollbackRead
    BY <1>17, <1>o, <1>c, RollbackCommands, GotoKeeps, SendKeeps, ReturnKeeps
       DEF RollbackRead, Quiet, Inside, UseBuffers, Begin, Ready, At, Take, Release
  <1>18. CASE RollbackSent
    BY <1>18, <1>o, <1>c, GotoKeeps, SendKeeps, ReturnKeeps
       DEF RollbackSent, Quiet, Inside, UseBuffers, Begin, Ready, At, Take, Release
  <1>19. CASE FreePreviewBufs
    BY <1>19, <1>o, <1>c, GotoKeeps, SendKeeps, ReturnKeeps
       DEF FreePreviewBufs, Quiet, Inside, UseBuffers, Begin, Ready, At, Take, Release
  <1>20. CASE CancelAutoFocus
    BY <1>20, <1>o, <1>c, GotoKeeps, SendKeeps, ReturnKeeps
       DEF CancelAutoFocus, Quiet, Inside, UseBuffers, Begin, Ready, At, Take, Release
  <1>21. CASE CancelAutoFocusDone
    BY <1>21, <1>o, <1>c, GotoKeeps, SendKeeps, ReturnKeeps
       DEF CancelAutoFocusDone, Quiet, Inside, UseBuffers, Begin, Ready, At, Take, Release
  <1>22. CASE TakePictureLock
    BY <1>22, <1>o, <1>c, GotoKeeps, SendKeeps, ReturnKeeps
       DEF TakePictureLock, Quiet, Inside, UseBuffers, Begin, Ready, At, Take, Release
  <1>23. CASE TakePictureBegin
    BY <1>23, <1>o, <1>c, GotoKeeps, SendKeeps, ReturnKeeps
       DEF TakePictureBegin, Quiet, Inside, UseBuffers, Begin, Ready, At, Take, Release
  <1>24. CASE TakePictureNext
    BY <1>24, <1>o, <1>c, GotoKeeps, SendKeeps, ReturnKeeps
       DEF TakePictureNext, Quiet, Inside, UseBuffers, Begin, Ready, At, Take, Release
  <1>25. CASE HalDone
    BY <1>25, <1>o, <1>c, GotoKeeps, SendKeeps, ReturnKeeps
       DEF HalDone, Quiet, Inside, UseBuffers, Begin, Ready, At, Take, Release
  <1>26. CASE RecordingStarted
    BY <1>26, <1>o, <1>c, GotoKeeps, SendKeeps, ReturnKeeps
       DEF RecordingStarted, Quiet, Inside, UseBuffers, Begin, Ready, At, Take, Release
  <1>27. CASE StopRecordingLock
    BY <1>27, <1>o, <1>c, GotoKeeps, SendKeeps, ReturnKeeps
       DEF StopRecordingLock, Quiet, Inside, UseBuffers, Begin, Ready, At, Take, Release
  <1>28. CASE StopRecordingBegin
    BY <1>28, <1>o, <1>c, GotoKeeps, SendKeeps, ReturnKeeps
       DEF StopRecordingBegin, Quiet, Inside, UseBuffers, Begin, Ready, At, Take, Release
  <1>29. CASE StopRecordingNext
    BY <1>29, <1>o, <1>c, GotoKeeps, SendKeeps, ReturnKeeps
       DEF StopRecordingNext, Quiet, Inside, UseBuffers, Begin, Ready, At, Take, Release
  <1>30. CASE AutoFocusBegin
    BY <1>30, <1>o, <1>c, GotoKeeps, SendKeeps, ReturnKeeps
       DEF AutoFocusBegin, Quiet, Inside, UseBuffers, Begin, Ready, At, Take, Release
  <1>31. CASE AppDone
    BY <1>31, <1>o, <1>c, GotoKeeps, SendKeeps, ReturnKeeps
       DEF AppDone, Quiet, Inside, UseBuffers, Begin, Ready, At, Take, Release
  <1>32. CASE Handler
    BY <1>32, <1>o, <1>c, GotoKeeps, SendKeeps, ReturnKeeps
       DEF Handler, Quiet, Inside, UseBuffers, Begin, Ready, At, Take, Release
  <1>33. CASE StartImageCapture
    BY <1>33, <1>o, <1>c, GotoKeeps, SendKeeps, ReturnKeeps
       DEF StartImageCapture, Quiet, Inside, UseBuffers, Begin, Ready, At, Take, Release
  <1>34. CASE CaptureCancelled
    BY <1>34, <1>o, <1>c, GotoKeeps, SendKeeps, ReturnKeeps
       DEF CaptureCancelled, Quiet, Inside, UseBuffers, Begin, Ready, At, Take, Release
  <1>35. CASE QueueBurst
    BY <1>35, <1>o, <1>c, GotoKeeps, SendKeeps, ReturnKeeps
       DEF QueueBurst, Quiet, Inside, UseBuffers, Begin, Ready, At, Take, Release
  <1>36. CASE DoAutoFocus
    BY <1>36, <1>o, <1>c, GotoKeeps, SendKeeps, ReturnKeeps
       DEF DoAutoFocus, Quiet, Inside, UseBuffers, Begin, Ready, At, Take, Release
  <1>37. CASE ReturnFocusStatus
    BY <1>37, <1>o, <1>c, GotoKeeps, SendKeeps, ReturnKeeps
       DEF ReturnFocusStatus, Quiet, Inside, UseBuffers, Begin, Ready, At, Take, Release
  <1>38. CASE FillThisBuffer
    BY <1>38, <1>o, <1>c, GotoKeeps, SendKeeps, ReturnKeeps
       DEF FillThisBuffer, Quiet, Inside, UseBuffers, Begin, Ready, At, Take, Release
  <1>39. CASE FillThisImage
    BY <1>39, <1>o, <1>c, GotoKeeps, SendKeeps, ReturnKeeps
       DEF FillThisImage, Quiet, Inside, UseBuffers, Begin, Ready, At, Take, Release
  <1>40. CASE ImageDone
    BY <1>40, <1>o, <1>c, GotoKeeps, SendKeeps, ReturnKeeps
       DEF ImageDone, Quiet, Inside, UseBuffers, Begin, Ready, At, Take, Release
  <1>41. CASE CountImage
    BY <1>41, <1>o, <1>c, GotoKeeps, SendKeeps, ReturnKeeps
       DEF CountImage, Quiet, Inside, UseBuffers, Begin, Ready, At, Take, Release
  <1>42. CASE AdvanceZoom
    <2>1. Quiet /\ pc["omx"] \notin Inside
      BY <1>42, <1>o DEF AdvanceZoom, Quiet, Inside
    <2>2. CASE UNCHANGED <<owner, pc, cmd, back, ok>>
      BY <2>1, <2>2 DEF Quiet, Control, Held, InCommand, NextInStep, OnWay, Free,
         RecordingInStep, Recorded, Below, First
    <2>3. CASE Send("omx", "STOP_ZOOM", "zoom.done")
      BY <2>1, <2>3, <1>c, SendKeeps DEF Inside, UseBuffers
    <2> QED
      BY <1>42, <2>2, <2>3 DEF AdvanceZoom
  <1>43. ASSUME NEW t \in {"app", "ret"}, SignalEndImageCapture(t) \/ SignalEndDone(t)
        PROVE Control'
    BY <1>43, <1>o, <1>c, SendKeeps, ReturnKeeps
       DEF SignalEndImageCapture, SignalEndDone, Quiet, Inside, UseBuffers, Take, Release
  <1>44. ASSUME NEW t \in {"app", "omx"}, ZoomDone(t) PROVE Control'
    BY <1>44, <1>o, ReturnKeeps DEF ZoomDone, Quiet, Inside, Release
  <1>51. CASE EnableDisplay
    BY <1>51, <1>o, <1>c, GotoKeeps, SendKeeps, ReturnKeeps
       DEF EnableDisplay, Quiet, Inside, UseBuffers, Begin, Ready, At, Take, Release
  <1>52. CASE SetParametersLock
    BY <1>52, <1>o, <1>c, GotoKeeps, SendKeeps, ReturnKeeps
       DEF SetParametersLock, Quiet, Inside, UseBuffers, Begin, Ready, At, Take, Release
  <1>53. CASE SetParametersUpdate
    BY <1>53, <1>o, <1>c, GotoKeeps, SendKeeps, ReturnKeeps
       DEF SetParametersUpdate, Quiet, Inside, UseBuffers, Begin, Ready, At, Take, Release
  <1>54. CASE RestartLock
    BY <1>54, <1>o, <1>c, GotoKeeps, SendKeeps, ReturnKeeps
       DEF RestartLock, Quiet, Inside, UseBuffers, Begin, Ready, At, Take, Release
  <1>55. CASE RestartParameters
    BY <1>55, <1>o, <1>c, GotoKeeps, SendKeeps, ReturnKeeps
       DEF RestartParameters, Quiet, Inside, UseBuffers, Begin, Ready, At, Take, Release
  <1>56. CASE CancelAutoFocusLock
    BY <1>56, <1>o, <1>c, GotoKeeps, SendKeeps, ReturnKeeps
       DEF CancelAutoFocusLock, Quiet, Inside, UseBuffers, Begin, Ready, At, Take, Release
  <1>45. CASE NewCall
    BY <1>45, <1>1, <1>2, <1>3, <1>4, <1>5, <1>6, <1>7, <1>8, <1>9, <1>10, <1>11
       DEF NewCall
  <1>46. CASE App
    BY <1>46, <1>a, <1>12, <1>13, <1>14, <1>15, <1>16, <1>17, <1>18, <1>19,
       <1>20, <1>21, <1>22, <1>23, <1>24, <1>25, <1>26, <1>27, <1>28, <1>29,
       <1>30, <1>31, <1>43, <1>44,
       <1>51, <1>52, <1>53, <1>54, <1>55, <1>56 DEF App
  <1>47. CASE Cmd
    BY <1>47, <1>a, <1>32, <1>33, <1>34, <1>35, <1>36, <1>37 DEF Cmd
  <1>48. CASE Ret
    BY <1>48, <1>a, <1>38, <1>39, <1>43 DEF Ret
  <1>49. CASE Omx
    BY <1>49, <1>a, <1>40, <1>41, <1>42, <1>44 DEF Omx
  <1>50. CASE UNCHANGED vars
    BY <1>50 DEF vars, Control, Held, InCommand, NextInStep, OnWay, Free,
       RecordingInStep, Recorded, Below, First
  <1> QED
    BY <1>45, <1>46, <1>47, <1>48, <1>49, <1>50 DEF Next

\* The control invariant holds initially.
LEMMA ControlInit == Init => Control
  BY Names DEF Init, Control, Held, InCommand, NextInStep, OnWay, Free,
     RecordingInStep,
     Recorded, Below, First, VIDEO_ACTIVE, UseBuffers, None, Threads

\* The control invariant holds throughout.
LEMMA Controlled == Spec => [](TypeOK /\ Control)
  BY TypeInit, TypeStep, ControlInit, ControlStep, PTL DEF Spec

\* Whatever the threads interleave and whichever operation fails, mNextState
\* agrees with mAdapterState whenever mLock is free.
THEOREM NextStateInStep == Spec => []NextInStep
  <1>1. TypeOK /\ Control => NextInStep
    BY DEF Control
  <1> QED
    BY <1>1, Controlled, PTL

\* The adapter's mRecording agrees with its state whenever mLock is free.
THEOREM RecordingFollowsState == Spec => []RecordingInStep
  <1>1. TypeOK /\ Control => RecordingInStep
    BY DEF Control
  <1> QED
    BY <1>1, Controlled, PTL


-----------------------------------------------------------------------------
(* The adapter's state.                                                    *)

\* Only commitState assigns mAdapterState.
LEMMA OnlyFinish ==
  ASSUME [Next]_vars, adapter' # adapter
  PROVE  \E t \in Threads : Finish(t)
  <1> USE Names DEF lowVars, stateVars
  <1>1. ASSUME NEW t \in Threads, SendCommand(t) PROVE Finish(t)
    <2>1. ASSUME NEW c, NEW r, Operated(t, c, r) PROVE FALSE
      BY <2>1 DEF Operated
    <2> QED

      BY <1>1, <2>1 DEF SendCommand, SetState, Query, Fault,
         UseBuffersPreview, StartPreview, StopPreview, UseBuffersCapture,
         TakePicture, StopImageCapture, AutoFocus, StartVideoCapture,
         StopVideoCapture, StartSmoothZoom, StopSmoothZoom
  <1>2. ~NewCall
    BY DEF NewCall, StartPreviewCall, StopPreviewCall, RestartPreviewCall,
       TakePictureCall, CancelPictureCall, StartRecordingCall,
       StopRecordingCall, AutoFocusCall, CancelAutoFocusCall, ZoomCall,
       GetParametersCall
  <1>3. CASE App
    BY <1>1, <1>3 DEF App, SignalEndImageCapture, SignalEndDone, ZoomDone,
       PreviewInitialization, AllocPreviewBufs, StartNotifier, EnableDisplay,
       PreviewStarted, SetParametersLock, SetParametersUpdate, RestartLock,
       RestartParameters, CancelAutoFocusLock,
       PreviewFailed, RollbackRead, RollbackSent, FreePreviewBufs,
       CancelAutoFocus, CancelAutoFocusDone, TakePictureLock,
       TakePictureBegin, TakePictureNext, HalDone, RecordingStarted,
       StopRecordingLock, StopRecordingBegin, StopRecordingNext,
       AutoFocusBegin, AppDone
  <1>4. CASE Cmd
    BY <1>1, <1>4 DEF Cmd, Handler, StartImageCapture, CaptureCancelled,
       QueueBurst, DoAutoFocus, ReturnFocusStatus
  <1>5. CASE Ret
    BY <1>1, <1>5 DEF Ret, SignalEndImageCapture, SignalEndDone,
       FillThisBuffer, FillThisImage
  <1>6. CASE Omx
    BY <1>1, <1>6 DEF Omx, ZoomDone, ImageDone, CountImage, AdvanceZoom
  <1>7. ~UNCHANGED vars
    BY DEF vars
  <1> QED
    BY <1>2, <1>3, <1>4, <1>5, <1>6, <1>7 DEF Next

\* Whatever the threads interleave, mAdapterState moves along a row of the table.
THEOREM StateAlongTable == Spec => AlongTable
  <1>1. TypeOK /\ Control /\ [Next]_vars =>
          [adapter' # adapter =>
             \E row \in Table : row[1] = adapter /\ row[3] = adapter']_vars
    <2> SUFFICES ASSUME TypeOK, Control, [Next]_vars, adapter' # adapter
                 PROVE  \E row \in Table : row[1] = adapter /\ row[3] = adapter'
      OBVIOUS
    <2>1. PICK t \in Threads : Finish(t)
      BY OnlyFinish
    <2>2. pc[t] = "finish" /\ ok[t] /\ adapter' = next
      BY <2>1 DEF Finish
    <2>3. <<adapter, cmd[t], next>> \in Table
      BY <2>2 DEF Control, OnWay, InCommand
    <2> QED
      BY <2>2, <2>3
  <1> QED
    BY <1>1, Controlled, PTL DEF Spec, AlongTable


-----------------------------------------------------------------------------
(* The preview's buffers.                                                  *)

Stopped == {"INIT", "LOADED_PREVIEW"}

\* While startPreview is on its way the preview is stopped and, from the moment
\* they are handed over, has its buffers; forceStopPreview frees them when the
\* rollback has stopped the preview or has given up.
Starting ==
  /\ pc["app"] = "sp.query" /\ ok["app"] => adapter \in Stopped
  /\ pc["app"] \in {"sp.use", "sp.display"} => previewBufs /\ adapter \in Stopped
  /\ pc["app"] = "sp.start" => previewBufs /\ (~ok["app"] => adapter \in Stopped)
  /\ pc["app"] = "rb.end" => adapter \in Stopped \/ gaveUp
  /\ pc["app"] \in Inside =>
       /\ cmd["app"] \in {"USE_PREVIEW", "START_PREVIEW"} =>
            previewBufs /\ adapter \in Stopped
       /\ back["app"] = "sp.query" => cmd["app"] = "QUERY_RES"
       /\ back["app"] = "sp.use" => cmd["app"] = "USE_PREVIEW"
       /\ back["app"] = "sp.start" => cmd["app"] = "START_PREVIEW"
       /\ back["app"] \notin {"rb.end", "sp.display"}

Buffers == PreviewHasBuffers /\ Starting

\* What the preview's buffers depend on.
Same == /\ UNCHANGED <<adapter, previewBufs, gaveUp>>
        /\ pc'["app"] = pc["app"] /\ cmd'["app"] = cmd["app"]
        /\ back'["app"] = back["app"] /\ ok'["app"] = ok["app"]

\* A step that touches none of it keeps the buffers.
LEMMA SameKeeps == Buffers /\ Same => Buffers'
  BY DEF Buffers, Same, PreviewHasBuffers, Starting

\* A command brings a stopped preview to run only by CAMERA_START_PREVIEW.
LEMMA FinishBuffers ==
  ASSUME TypeOK, Control, Buffers, NEW t \in Threads, Finish(t)
  PROVE  Buffers'
  <1> USE DEF TypeOK, ThreadTypes
  <1>1. /\ pc[t] = "finish" /\ UNCHANGED <<previewBufs, gaveUp>> /\ ok' = ok
        /\ pc' = [pc EXCEPT ![t] = back[t]] /\ cmd' = [cmd EXCEPT ![t] = None]
        /\ back' = [back EXCEPT ![t] = "idle"]
    BY DEF Finish, halVars
  <1>2. /\ ok[t] => adapter' = next
        /\ ~ok[t] => adapter' = adapter
    BY DEF Finish
  <1>3. \/ adapter' = adapter
        \/ ok[t] /\ <<adapter, cmd[t], adapter'>> \in Table
    BY <1>1, <1>2 DEF Control, OnWay, InCommand
  <1>4. adapter \in Stopped /\ cmd[t] # "START_PREVIEW" => adapter' \in Stopped
    BY <1>3, TablePreview DEF Stopped
  <1>5. adapter' \in States
    BY <1>2 DEF AdapterTypes
  <1>6. adapter \in States
    BY DEF AdapterTypes
  <1>7. t # "app" => cmd[t] # "START_PREVIEW"
    BY DEF Control, Below, None
  <1>8. PreviewHasBuffers'
    <2>1. CASE adapter \in Stopped /\ cmd[t] = "START_PREVIEW"
      BY <1>1, <1>7, <2>1 DEF Buffers, Starting, Inside, PreviewHasBuffers
    <2>2. CASE adapter \in Stopped /\ cmd[t] # "START_PREVIEW"
      BY <1>4, <2>2 DEF PreviewHasBuffers, PREVIEW_ACTIVE, Stopped
    <2>3. CASE adapter \notin Stopped
      BY <1>1, <1>6, <2>3 DEF Buffers, PreviewHasBuffers, PREVIEW_ACTIVE, Stopped
    <2> QED
      BY <2>1, <2>2, <2>3
  <1>9. Starting'
    <2>1. CASE t # "app"
      BY <1>1, <1>4, <1>7, <2>1, Names DEF Buffers, Starting
    <2>2. CASE t = "app"
      <3>1. pc'["app"] = back["app"] /\ back["app"] \notin Inside \cup {"rb.end", "sp.display"}
        BY <1>1, <2>2 DEF Control, Held, Inside, Buffers, Starting
      <3>2. back["app"] = "sp.query" /\ ok["app"] => adapter' \in Stopped
        <4>1. CASE back["app"] = "sp.query" /\ ok["app"]
          <5>1. cmd["app"] = "QUERY_RES"
            BY <1>1, <2>2, <4>1 DEF Buffers, Starting, Inside
          <5>2. <<adapter, cmd["app"], next>> \in Table
            BY <1>1, <2>2, <4>1, <5>1 DEF Control, OnWay, InCommand, UseBuffers
          <5> QED
            BY <1>2, <2>2, <4>1, <5>1, <5>2, TablePreview DEF Stopped
        <4> QED
          BY <4>1
      <3>3. back["app"] = "sp.use" => previewBufs' /\ adapter' \in Stopped
        BY <1>1, <1>4, <2>2 DEF Buffers, Starting, Inside
      <3>4. back["app"] = "sp.start" =>
              previewBufs' /\ (~ok'["app"] => adapter' \in Stopped)
        BY <1>1, <1>2, <2>2 DEF Buffers, Starting, Inside
      <3> QED
        BY <1>1, <3>1, <3>2, <3>3, <3>4 DEF Starting
    <2> QED
      BY <2>1, <2>2
  <1> QED
    BY <1>8, <1>9 DEF Buffers

\* The other parts of sendCommand leave the buffers alone.
LEMMA SendBuffers ==
  ASSUME TypeOK, Control, Buffers, NEW t \in Threads, SendCommand(t)
  PROVE  Buffers'
  <1> USE DEF TypeOK, ThreadTypes
  <1>1. CASE Finish(t)
    BY <1>1, FinishBuffers
  <1>2. ASSUME pc[t] \in Inside, UNCHANGED <<adapter, cmd, back, previewBufs, gaveUp>>,
               NEW p \in Inside, NEW r \in BOOLEAN, pc' = [pc EXCEPT ![t] = p],
               ok' = [ok EXCEPT ![t] = r]
        PROVE  Buffers'
    <2>1. CASE t = "app"
      BY <1>2, <2>1 DEF Buffers, PreviewHasBuffers, Starting, Inside
    <2>2. CASE t # "app"
      BY <1>2, <2>2, SameKeeps, Names DEF Same
    <2> QED
      BY <2>1, <2>2
  <1>3. CASE SetState(t)
    <2>1. /\ pc[t] = "set" /\ UNCHANGED <<adapter, cmd, back, previewBufs, gaveUp>>
          /\ \E p \in {"op", "finish"} : pc' = [pc EXCEPT ![t] = p]
      BY <1>3 DEF SetState, halVars
    <2>2. \E r \in BOOLEAN : ok' = [ok EXCEPT ![t] = r]
      BY <1>3 DEF SetState
    <2> QED
      BY <1>2, <2>1, <2>2 DEF Inside
  <1>4. ASSUME NEW c, NEW r \in BOOLEAN, Operated(t, c, r) PROVE Buffers'
    BY <1>2, <1>4 DEF Operated, stateVars, halVars, Inside
  <1>5. recording \in BOOLEAN
    BY DEF AdapterTypes
  <1> QED
    BY <1>1, <1>3, <1>4, <1>5 DEF SendCommand, Query, Fault,
         UseBuffersPreview, StartPreview, StopPreview, UseBuffersCapture,
         TakePicture, StopImageCapture, AutoFocus, StartVideoCapture,
         StopVideoCapture, StartSmoothZoom, StopSmoothZoom

\* Every step keeps the buffers.
LEMMA BuffersStep == TypeOK /\ Control /\ Buffers /\ [Next]_vars => Buffers'
  <1> SUFFICES ASSUME TypeOK, Control, Buffers, [Next]_vars PROVE Buffers'
    OBVIOUS
  <1> USE Names DEF stateVars, lowVars, halVars, flagVars
  <1>a. pc \in [Threads -> Pcs] /\ back \in [Threads -> Pcs]
        /\ cmd \in [Threads -> Commands \cup {None}] /\ ok \in [Threads -> BOOLEAN]
    BY DEF TypeOK, ThreadTypes
  <1>b. adapter \in States
    BY DEF TypeOK, AdapterTypes
  <1>1. CASE StartPreviewCall
    BY <1>1, <1>a, <1>b
       DEF StartPreviewCall, Buffers, PreviewHasBuffers, Starting, Inside,
           Goto, Send, Return, Begin, Ready, At
  <1>2. CASE StopPreviewCall
    BY <1>2, <1>a, <1>b
       DEF StopPreviewCall, Buffers, PreviewHasBuffers, Starting, Inside,
           Goto, Send, Return, Begin, Ready, At
  <1>3. CASE RestartPreviewCall
    BY <1>3, <1>a, <1>b
       DEF RestartPreviewCall, Buffers, PreviewHasBuffers, Starting, Inside,
           Goto, Send, Return, Begin, Ready, At
  <1>4. CASE TakePictureCall
    BY <1>4, <1>a, <1>b
       DEF TakePictureCall, Buffers, PreviewHasBuffers, Starting, Inside,
           Goto, Send, Return, Begin, Ready, At
  <1>5. CASE CancelPictureCall
    BY <1>5, <1>a, <1>b
       DEF CancelPictureCall, Buffers, PreviewHasBuffers, Starting, Inside,
           Goto, Send, Return, Begin, Ready, At
  <1>6. CASE StartRecordingCall
    BY <1>6, <1>a, <1>b
       DEF StartRecordingCall, Buffers, PreviewHasBuffers, Starting, Inside,
           Goto, Send, Return, Begin, Ready, At
  <1>7. CASE StopRecordingCall
    BY <1>7, <1>a, <1>b
       DEF StopRecordingCall, Buffers, PreviewHasBuffers, Starting, Inside,
           Goto, Send, Return, Begin, Ready, At
  <1>8. CASE AutoFocusCall
    BY <1>8, <1>a, <1>b
       DEF AutoFocusCall, Buffers, PreviewHasBuffers, Starting, Inside,
           Goto, Send, Return, Begin, Ready, At
  <1>9. CASE CancelAutoFocusCall
    BY <1>9, <1>a, <1>b
       DEF CancelAutoFocusCall, Buffers, PreviewHasBuffers, Starting, Inside,
           Goto, Send, Return, Begin, Ready, At
  <1>10. CASE ZoomCall
    BY <1>10, <1>a, <1>b
       DEF ZoomCall, Buffers, PreviewHasBuffers, Starting, Inside,
           Goto, Send, Return, Begin, Ready, At
  <1>11. CASE GetParametersCall
    BY <1>11, <1>a, <1>b
       DEF GetParametersCall, Buffers, PreviewHasBuffers, Starting, Inside,
           Goto, Send, Return, Begin, Ready, At
  <1>12. CASE PreviewInitialization
    BY <1>12, <1>a, <1>b
       DEF PreviewInitialization, Buffers, PreviewHasBuffers, Starting, Inside,
           Goto, Send, Return, Begin, Ready, At
  <1>13. CASE AllocPreviewBufs
    BY <1>13, <1>a, <1>b
       DEF AllocPreviewBufs, Buffers, PreviewHasBuffers, Starting, Inside,
           Goto, Send, Return, Begin, Ready, At, PREVIEW_ACTIVE, Stopped
  <1>14. CASE StartNotifier
    BY <1>14, <1>a, <1>b
       DEF StartNotifier, Buffers, PreviewHasBuffers, Starting, Inside,
           Goto, Send, Return, Begin, Ready, At, PREVIEW_ACTIVE, Stopped
  <1>15. CASE PreviewStarted
    BY <1>15, <1>a, <1>b
       DEF PreviewStarted, Buffers, PreviewHasBuffers, Starting, Inside,
           Goto, Send, Return, Begin, Ready, At, PREVIEW_ACTIVE, Stopped
  <1>16. CASE PreviewFailed
    BY <1>16, <1>a, <1>b
       DEF PreviewFailed, Buffers, PreviewHasBuffers, Starting, Inside,
           Goto, Send, Return, Begin, Ready, At
  <1>17. CASE RollbackRead
    BY <1>17, <1>a, <1>b, RollbackCommands
       DEF RollbackRead, Buffers, PreviewHasBuffers, Starting, Inside,
           Goto, Send, Return, Begin, Ready, At, PREVIEW_ACTIVE, Stopped
  <1>18. CASE RollbackSent
    BY <1>18, <1>a, <1>b
       DEF RollbackSent, Buffers, PreviewHasBuffers, Starting, Inside,
           Goto, Send, Return, Begin, Ready, At
  <1>19. CASE FreePreviewBufs
    BY <1>19, <1>a, <1>b
       DEF FreePreviewBufs, Buffers, PreviewHasBuffers, Starting, Inside,
           Goto, Send, Return, Begin, Ready, At, PREVIEW_ACTIVE, Stopped
  <1>20. CASE CancelAutoFocus
    BY <1>20, <1>a, <1>b
       DEF CancelAutoFocus, Buffers, PreviewHasBuffers, Starting, Inside,
           Goto, Send, Return, Begin, Ready, At
  <1>21. CASE CancelAutoFocusDone
    BY <1>21, <1>a, <1>b
       DEF CancelAutoFocusDone, Buffers, PreviewHasBuffers, Starting, Inside,
           Goto, Send, Return, Begin, Ready, At
  <1>22. CASE TakePictureLock
    BY <1>22, <1>a, <1>b
       DEF TakePictureLock, Buffers, PreviewHasBuffers, Starting, Inside,
           Goto, Send, Return, Begin, Ready, At
  <1>23. CASE TakePictureBegin
    BY <1>23, <1>a, <1>b
       DEF TakePictureBegin, Buffers, PreviewHasBuffers, Starting, Inside,
           Goto, Send, Return, Begin, Ready, At
  <1>24. CASE TakePictureNext
    BY <1>24, <1>a, <1>b
       DEF TakePictureNext, Buffers, PreviewHasBuffers, Starting, Inside,
           Goto, Send, Return, Begin, Ready, At
  <1>25. CASE HalDone
    BY <1>25, <1>a, <1>b
       DEF HalDone, Buffers, PreviewHasBuffers, Starting, Inside,
           Goto, Send, Return, Begin, Ready, At
  <1>26. CASE RecordingStarted
    BY <1>26, <1>a, <1>b
       DEF RecordingStarted, Buffers, PreviewHasBuffers, Starting, Inside,
           Goto, Send, Return, Begin, Ready, At
  <1>27. CASE StopRecordingLock
    BY <1>27, <1>a, <1>b
       DEF StopRecordingLock, Buffers, PreviewHasBuffers, Starting, Inside,
           Goto, Send, Return, Begin, Ready, At
  <1>28. CASE StopRecordingBegin
    BY <1>28, <1>a, <1>b
       DEF StopRecordingBegin, Buffers, PreviewHasBuffers, Starting, Inside,
           Goto, Send, Return, Begin, Ready, At
  <1>29. CASE StopRecordingNext
    BY <1>29, <1>a, <1>b
       DEF StopRecordingNext, Buffers, PreviewHasBuffers, Starting, Inside,
           Goto, Send, Return, Begin, Ready, At
  <1>30. CASE AutoFocusBegin
    BY <1>30, <1>a, <1>b
       DEF AutoFocusBegin, Buffers, PreviewHasBuffers, Starting, Inside,
           Goto, Send, Return, Begin, Ready, At
  <1>31. CASE AppDone
    BY <1>31, <1>a, <1>b
       DEF AppDone, Buffers, PreviewHasBuffers, Starting, Inside,
           Goto, Send, Return, Begin, Ready, At
  <1>32. ASSUME NEW t \in {"app", "ret"}, SignalEndImageCapture(t) \/ SignalEndDone(t)
        PROVE Buffers'
    BY <1>32, <1>a DEF SignalEndImageCapture, SignalEndDone, Buffers,
       PreviewHasBuffers,
       Starting, Inside, Send, Return, Threads
  <1>33. ASSUME NEW t \in {"app", "omx"}, ZoomDone(t) PROVE Buffers'
    BY <1>33, <1>a DEF ZoomDone, Buffers, PreviewHasBuffers, Starting, Inside,
       Return
  <1>51. CASE EnableDisplay
    BY <1>51, <1>a, <1>b
       DEF EnableDisplay, Buffers, PreviewHasBuffers, Starting, Inside,
           Goto, Send, Return, Begin, Ready, At
  <1>52. CASE SetParametersLock
    BY <1>52, <1>a, <1>b
       DEF SetParametersLock, Buffers, PreviewHasBuffers, Starting, Inside,
           Goto, Send, Return, Begin, Ready, At
  <1>53. CASE SetParametersUpdate
    BY <1>53, <1>a, <1>b
       DEF SetParametersUpdate, Buffers, PreviewHasBuffers, Starting, Inside,
           Goto, Send, Return, Begin, Ready, At
  <1>54. CASE RestartLock
    BY <1>54, <1>a, <1>b
       DEF RestartLock, Buffers, PreviewHasBuffers, Starting, Inside,
           Goto, Send, Return, Begin, Ready, At
  <1>55. CASE RestartParameters
    BY <1>55, <1>a, <1>b
       DEF RestartParameters, Buffers, PreviewHasBuffers, Starting, Inside,
           Goto, Send, Return, Begin, Ready, At
  <1>56. CASE CancelAutoFocusLock
    BY <1>56, <1>a, <1>b
       DEF CancelAutoFocusLock, Buffers, PreviewHasBuffers, Starting, Inside,
           Goto, Send, Return, Begin, Ready, At
  <1>34. CASE NewCall
    BY <1>34, <1>1, <1>2, <1>3, <1>4, <1>5, <1>6, <1>7, <1>8, <1>9, <1>10, <1>11
       DEF NewCall
  <1>35. CASE App
    BY <1>35, SendBuffers, <1>12, <1>13, <1>14, <1>15, <1>16, <1>17, <1>18,
       <1>19, <1>20, <1>21, <1>22, <1>23, <1>24, <1>25, <1>26, <1>27, <1>28,
       <1>29, <1>30, <1>31, <1>32, <1>33,
       <1>51, <1>52, <1>53, <1>54, <1>55, <1>56 DEF App
  <1>36. CASE Cmd
    <2>1. ASSUME Handler \/ StartImageCapture \/ CaptureCancelled \/
                 QueueBurst \/ DoAutoFocus \/ ReturnFocusStatus
          PROVE Same
      BY <1>a, <2>1 DEF Same, Goto, Send, Release, Handler, StartImageCapture,
         CaptureCancelled, QueueBurst, DoAutoFocus, ReturnFocusStatus
    <2> QED
      BY <1>36, <2>1, SameKeeps, SendBuffers DEF Cmd
  <1>37. CASE Ret
    <2>1. ASSUME FillThisBuffer \/ FillThisImage PROVE Same
      BY <1>a, <2>1 DEF Same, Goto, Send, Release, FillThisBuffer, FillThisImage
    <2> QED
      BY <1>37, <2>1, SameKeeps, SendBuffers, <1>32 DEF Ret
  <1>38. CASE Omx
    <2>1. ASSUME ImageDone \/ CountImage \/ AdvanceZoom PROVE Same
      BY <1>a, <2>1 DEF Same, Goto, Send, Release, ImageDone, CountImage,
         AdvanceZoom
    <2> QED
      BY <1>38, <2>1, SameKeeps, SendBuffers, <1>33 DEF Omx
  <1>39. CASE UNCHANGED vars
    BY <1>39, SameKeeps DEF vars, Same
  <1> QED
    BY <1>34, <1>35, <1>36, <1>37, <1>38, <1>39 DEF Next

\* No preview runs initially.
LEMMA BuffersInit == Init => Buffers
  BY Names DEF Init, Buffers, PreviewHasBuffers, Starting, Inside, PREVIEW_ACTIVE

\* The preview never runs on buffers that CameraHal has freed, unless
\* rollbackToInitializedState has given up before.
THEOREM PreviewKeepsBuffers == Spec => []PreviewHasBuffers
  <1>1. Spec => []Buffers
    BY BuffersInit, BuffersStep, Controlled, PTL DEF Spec
  <1>2. Buffers => PreviewHasBuffers
    BY DEF Buffers
  <1> QED
    BY <1>1, <1>2, PTL

-----------------------------------------------------------------------------
(* CameraHal's flags.                                                      *)

\* Where a thread is in its call; in a command, where it goes on.
Place(t) == IF pc[t] \in Inside THEN back[t] ELSE pc[t]

\* The places of forceStopPreview, and of startPreview on its way.
StoppingAt == {"rb.read", "rb.sent", "rb.end"}
StartingAt == {"sp.query", "sp.use", "sp.display", "sp.start", "sp.fail"}

\* recordingEnabled says that the adapter records, except while stopRecording
\* waits for its last command; the preview is not stopped meanwhile.
RecordingFlag ==
  /\ recordingEnabled => Place("app") \notin StoppingAt \cup {"pm.lock", "pm.zoom"}
  /\ recordingEnabled /\ Place("app") # "sr.done" => adapter \in VIDEO_ACTIVE
  /\ pc["app"] = "rec.done" /\ ok["app"] => adapter \in VIDEO_ACTIVE
  /\ cmd["app"] = "STOP_VIDEO" => back["app"] \in {"rb.sent", "sr.done"}
  /\ back["app"] = "rec.done" => cmd["app"] = "START_VIDEO"

\* An enabled or paused preview runs and has its buffers, except while
\* forceStopPreview is on its way; startPreview goes to work only when the
\* preview is neither enabled nor paused.
PreviewFlags ==
  /\ Place("app") \in StartingAt => ~previewEnabled /\ ~displayPaused
  /\ Place("app") \notin StoppingAt /\ (previewEnabled \/ displayPaused) =>
       adapter \in PREVIEW_ACTIVE /\ previewBufs
  /\ Place("app") \in {"sp.use", "sp.display", "sp.start"} => previewBufs
  /\ pc["app"] = "sp.start" /\ ok["app"] => adapter \in PREVIEW_ACTIVE
  /\ cmd["app"] = "STOP_PREVIEW" => back["app"] \in {"sp.fail", "rb.sent"}
  /\ back["app"] = "sp.start" => cmd["app"] = "START_PREVIEW"

Flags == RecordingFlag /\ PreviewFlags

\* What the flags depend on.
SameFlags == /\ UNCHANGED <<adapter, previewBufs, previewEnabled, displayPaused,
                            recordingEnabled>>
             /\ pc'["app"] = pc["app"] /\ cmd'["app"] = cmd["app"]
             /\ back'["app"] = back["app"] /\ ok'["app"] = ok["app"]

\* A step that touches none of it keeps them.
LEMMA SameFlagsKeeps == Flags /\ SameFlags => Flags'
  BY DEF Flags, SameFlags, RecordingFlag, PreviewFlags, Place

\* The commands that leave a preview or a recording.
LEMMA TableLeaves ==
  \A row \in Table :
    /\ row[1] \in PREVIEW_ACTIVE /\ row[2] # "STOP_PREVIEW" => row[3] \in PREVIEW_ACTIVE
    /\ row[2] = "START_PREVIEW" => row[3] \in PREVIEW_ACTIVE
  BY SMTT(60) DEF Table, Stay, InitRows, PreviewRows, CaptureRows,
                  FocusRows, ZoomRows, VideoRows, MixedZoomRows, PREVIEW_ACTIVE,
                  States

\* The end of a command: only the application's own STOP_PREVIEW and
\* STOP_VIDEO take the state out from under the flags.
LEMMA FinishFlags ==
  ASSUME TypeOK, Control, Flags, NEW t \in Threads, Finish(t)
  PROVE  Flags'
  <1> USE DEF TypeOK, ThreadTypes
  <1>1. /\ pc[t] = "finish" /\ ok' = ok
        /\ UNCHANGED <<previewBufs, previewEnabled, displayPaused, recordingEnabled>>
        /\ pc' = [pc EXCEPT ![t] = back[t]] /\ cmd' = [cmd EXCEPT ![t] = None]
        /\ back' = [back EXCEPT ![t] = "idle"]
    BY DEF Finish, halVars
  <1>2. /\ ok[t] => adapter' = next
        /\ ~ok[t] => adapter' = adapter
    BY DEF Finish
  <1>3. \/ adapter' = adapter
        \/ ok[t] /\ <<adapter, cmd[t], adapter'>> \in Table
    BY <1>1, <1>2 DEF Control, OnWay, InCommand
  <1>4. /\ adapter \in VIDEO_ACTIVE /\ cmd[t] # "STOP_VIDEO" => adapter' \in VIDEO_ACTIVE
        /\ adapter \in PREVIEW_ACTIVE /\ cmd[t] # "STOP_PREVIEW" =>
             adapter' \in PREVIEW_ACTIVE
    BY <1>3, TableVideo, TableLeaves
  <1>5. t # "app" => cmd[t] \notin {"STOP_VIDEO", "STOP_PREVIEW"}
    BY DEF Control, Below, None
  <1>6. CASE t # "app"
    BY <1>1, <1>4, <1>5, <1>6, Names DEF Flags, RecordingFlag, PreviewFlags, Place
  <1>7. CASE t = "app"
    <2>1. pc'["app"] = back["app"] /\ back["app"] \notin Inside
          /\ cmd'["app"] = None /\ back'["app"] = "idle" /\ ok'["app"] = ok["app"]
      BY <1>1, <1>7 DEF Control, Held, Inside
    <2>2. Place("app") = back["app"] /\ Place("app")' = back["app"]
      BY <1>1, <1>7, <2>1 DEF Place, Inside
    <2>3. back["app"] = "rec.done" /\ ok["app"] => adapter' \in VIDEO_ACTIVE
      <3> SUFFICES ASSUME back["app"] = "rec.done", ok["app"]
                   PROVE  adapter' \in VIDEO_ACTIVE
        OBVIOUS
      <3>1. cmd["app"] = "START_VIDEO"
        BY DEF Flags, RecordingFlag
      <3>2. <<adapter, cmd["app"], next>> \in Table
        BY <1>1, <1>7, <3>1 DEF Control, OnWay, InCommand, UseBuffers
      <3> QED
        BY <1>2, <1>7, <3>1, <3>2, TableVideo
    <2>4. back["app"] = "sp.start" /\ ok["app"] => adapter' \in PREVIEW_ACTIVE
      <3> SUFFICES ASSUME back["app"] = "sp.start", ok["app"]
                   PROVE  adapter' \in PREVIEW_ACTIVE
        OBVIOUS
      <3>1. cmd["app"] = "START_PREVIEW"
        BY DEF Flags, PreviewFlags
      <3>2. <<adapter, cmd["app"], next>> \in Table
        BY <1>1, <1>7, <3>1 DEF Control, OnWay, InCommand, UseBuffers
      <3> QED
        BY <1>2, <1>7, <3>1, <3>2, TableLeaves
    <2>5. RecordingFlag'
      BY <1>1, <1>4, <1>7, <2>1, <2>2, <2>3 DEF Flags, RecordingFlag, StoppingAt, None
    <2>6. PreviewFlags'
      BY <1>1, <1>4, <1>7, <2>1, <2>2, <2>4
         DEF Flags, PreviewFlags, StoppingAt, StartingAt, None
    <2> QED
      BY <2>5, <2>6 DEF Flags
  <1> QED
    BY <1>6, <1>7

\* The other parts of sendCommand leave the flags alone.
LEMMA SendFlags ==
  ASSUME TypeOK, Control, Flags, NEW t \in Threads, SendCommand(t)
  PROVE  Flags'
  <1> USE DEF TypeOK, ThreadTypes
  <1>1. CASE Finish(t)
    BY <1>1, FinishFlags
  <1>2. ASSUME pc[t] \in Inside, UNCHANGED <<adapter, cmd, back, previewBufs,
                 previewEnabled, displayPaused, recordingEnabled>>,
               NEW p \in Inside, NEW r \in BOOLEAN, pc' = [pc EXCEPT ![t] = p],
               ok' = [ok EXCEPT ![t] = r]
        PROVE  Flags'
    <2>1. CASE t = "app"
      BY <1>2, <2>1 DEF Flags, RecordingFlag, PreviewFlags, Place, Inside
    <2>2. CASE t # "app"
      BY <1>2, <2>2, SameFlagsKeeps, Names DEF SameFlags
    <2> QED
      BY <2>1, <2>2
  <1>3. CASE SetState(t)
    <2>1. /\ pc[t] = "set"
          /\ UNCHANGED <<adapter, cmd, back, previewBufs, previewEnabled,
                         displayPaused, recordingEnabled>>
          /\ \E p \in {"op", "finish"} : pc' = [pc EXCEPT ![t] = p]
      BY <1>3 DEF SetState, halVars
    <2>2. \E r \in BOOLEAN : ok' = [ok EXCEPT ![t] = r]
      BY <1>3 DEF SetState
    <2> QED
      BY <1>2, <2>1, <2>2 DEF Inside
  <1>4. ASSUME NEW c, NEW r \in BOOLEAN, Operated(t, c, r) PROVE Flags'
    BY <1>2, <1>4 DEF Operated, stateVars, halVars, Inside
  <1>5. recording \in BOOLEAN
    BY DEF AdapterTypes
  <1> QED
    BY <1>1, <1>3, <1>4, <1>5 DEF SendCommand, Query, Fault,
         UseBuffersPreview, StartPreview, StopPreview, UseBuffersCapture,
         TakePicture, StopImageCapture, AutoFocus, StartVideoCapture,
         StopVideoCapture, StartSmoothZoom, StopSmoothZoom

\* Every step keeps the flags.
LEMMA FlagsStep == TypeOK /\ Control /\ Flags /\ [Next]_vars => Flags'
  <1> SUFFICES ASSUME TypeOK, Control, Flags, [Next]_vars PROVE Flags'
    OBVIOUS
  <1> USE Names DEF stateVars, lowVars, halVars, flagVars
  <1>a. /\ pc \in [Threads -> Pcs] /\ back \in [Threads -> Pcs]
        /\ cmd \in [Threads -> Commands \cup {None}] /\ ok \in [Threads -> BOOLEAN]
        /\ pc["app"] \notin Inside => back["app"] \notin Inside
    BY DEF TypeOK, ThreadTypes, Control, Held, Inside
  <1>1. CASE StartPreviewCall
    BY <1>1, <1>a
       DEF StartPreviewCall, Flags, RecordingFlag, PreviewFlags, Place,
           StoppingAt, StartingAt, Inside, Goto, Send, Return, Begin, Ready,
           At, None
  <1>2. CASE StopPreviewCall
    BY <1>2, <1>a
       DEF StopPreviewCall, Flags, RecordingFlag, PreviewFlags, Place,
           StoppingAt, StartingAt, Inside, Goto, Send, Return, Begin, Ready,
           At, None
  <1>3. CASE RestartPreviewCall
    BY <1>3, <1>a
       DEF RestartPreviewCall, Flags, RecordingFlag, PreviewFlags, Place,
           StoppingAt, StartingAt, Inside, Goto, Send, Return, Begin, Ready,
           At, None
  <1>4. CASE TakePictureCall
    BY <1>4, <1>a
       DEF TakePictureCall, Flags, RecordingFlag, PreviewFlags, Place,
           StoppingAt, StartingAt, Inside, Goto, Send, Return, Begin, Ready,
           At, None
  <1>5. CASE CancelPictureCall
    BY <1>5, <1>a
       DEF CancelPictureCall, Flags, RecordingFlag, PreviewFlags, Place,
           StoppingAt, StartingAt, Inside, Goto, Send, Return, Begin, Ready,
           At, None
  <1>6. CASE StartRecordingCall
    BY <1>6, <1>a
       DEF StartRecordingCall, Flags, RecordingFlag, PreviewFlags, Place,
           StoppingAt, StartingAt, Inside, Goto, Send, Return, Begin, Ready,
           At, None
  <1>7. CASE StopRecordingCall
    BY <1>7, <1>a
       DEF StopRecordingCall, Flags, RecordingFlag, PreviewFlags, Place,
           StoppingAt, StartingAt, Inside, Goto, Send, Return, Begin, Ready,
           At, None
  <1>8. CASE AutoFocusCall
    BY <1>8, <1>a
       DEF AutoFocusCall, Flags, RecordingFlag, PreviewFlags, Place,
           StoppingAt, StartingAt, Inside, Goto, Send, Return, Begin, Ready,
           At, None
  <1>9. CASE CancelAutoFocusCall
    BY <1>9, <1>a
       DEF CancelAutoFocusCall, Flags, RecordingFlag, PreviewFlags, Place,
           StoppingAt, StartingAt, Inside, Goto, Send, Return, Begin, Ready,
           At, None
  <1>10. CASE ZoomCall
    BY <1>10, <1>a
       DEF ZoomCall, Flags, RecordingFlag, PreviewFlags, Place, StoppingAt,
           StartingAt, Inside, Goto, Send, Return, Begin, Ready, At, None
  <1>11. CASE GetParametersCall
    BY <1>11, <1>a
       DEF GetParametersCall, Flags, RecordingFlag, PreviewFlags, Place,
           StoppingAt, StartingAt, Inside, Goto, Send, Return, Begin, Ready,
           At, None
  <1>12. CASE PreviewInitialization
    BY <1>12, <1>a
       DEF PreviewInitialization, Flags, RecordingFlag, PreviewFlags, Place,
           StoppingAt, StartingAt, Inside, Goto, Send, Return, Begin, Ready,
           At, None
  <1>13. CASE AllocPreviewBufs
    BY <1>13, <1>a
       DEF AllocPreviewBufs, Flags, RecordingFlag, PreviewFlags, Place,
           StoppingAt, StartingAt, Inside, Goto, Send, Return, Begin, Ready,
           At, None
  <1>14. CASE StartNotifier
    <2>1. /\ pc["app"] = "sp.use"
          /\ UNCHANGED <<adapter, previewEnabled, displayPaused, recordingEnabled>>
      BY <1>14 DEF StartNotifier, At
    <2>2. CASE Goto("app", "sp.display") /\ UNCHANGED previewBufs
      BY <1>a, <2>1, <2>2
       DEF Flags, RecordingFlag, PreviewFlags, Place, StoppingAt,
           StartingAt, Inside, Goto, None
    <2>3. CASE Send("app", "STOP_PREVIEW", "sp.fail")
      BY <1>a, <2>1, <2>3
       DEF Flags, RecordingFlag, PreviewFlags, Place, StoppingAt,
           StartingAt, Inside, Send, Return, None
    <2>4. CASE Return("app")
      BY <1>a, <2>1, <2>4
       DEF Flags, RecordingFlag, PreviewFlags, Place, StoppingAt,
           StartingAt, Inside, Send, Return, None
    <2> QED
      BY <1>14, <2>2, <2>3, <2>4 DEF StartNotifier
  <1>15. CASE PreviewStarted
    <2>1. pc["app"] = "sp.start" /\ UNCHANGED <<adapter, recordingEnabled>>
      BY <1>15 DEF PreviewStarted, At
    <2>2. CASE /\ Send("app", "STOP_PREVIEW", "sp.fail")
               /\ UNCHANGED <<previewEnabled, displayPaused>>
      BY <1>a, <2>1, <2>2
       DEF Flags, RecordingFlag, PreviewFlags, Place, StoppingAt,
           StartingAt, Inside, Send, Return, None
    <2>3. CASE /\ ok["app"] /\ UNCHANGED previewBufs
               /\ Send("app", "START_VIDEO", "rec.done")
      BY <1>a, <2>1, <2>3
       DEF Flags, RecordingFlag, PreviewFlags, Place, StoppingAt,
           StartingAt, Inside, Send, Return, None
    <2>4. CASE ok["app"] /\ UNCHANGED previewBufs /\ Return("app")
      BY <1>a, <2>1, <2>4
       DEF Flags, RecordingFlag, PreviewFlags, Place, StoppingAt,
           StartingAt, Inside, Send, Return, None
    <2> QED
      BY <1>15, <2>2, <2>3, <2>4 DEF PreviewStarted
  <1>16. CASE PreviewFailed
    BY <1>16, <1>a
       DEF PreviewFailed, Flags, RecordingFlag, PreviewFlags, Place,
           StoppingAt, StartingAt, Inside, Goto, Send, Return, Begin, Ready,
           At, None
  <1>17. CASE RollbackRead
    BY <1>17, <1>a, RollbackCommands
       DEF RollbackRead, Flags, RecordingFlag, PreviewFlags, Place,
           StoppingAt, StartingAt, Inside, Goto, Send, Return, Begin, Ready,
           At, None
  <1>18. CASE RollbackSent
    BY <1>18, <1>a
       DEF RollbackSent, Flags, RecordingFlag, PreviewFlags, Place,
           StoppingAt, StartingAt, Inside, Goto, Send, Return, Begin, Ready,
           At, None
  <1>19. CASE FreePreviewBufs
    BY <1>19, <1>a
       DEF FreePreviewBufs, Flags, RecordingFlag, PreviewFlags, Place,
           StoppingAt, StartingAt, Inside, Goto, Send, Return, Begin, Ready,
           At, None
  <1>20. CASE CancelAutoFocus
    BY <1>20, <1>a
       DEF CancelAutoFocus, Flags, RecordingFlag, PreviewFlags, Place,
           StoppingAt, StartingAt, Inside, Goto, Send, Return, Begin, Ready,
           At, None
  <1>21. CASE CancelAutoFocusDone
    BY <1>21, <1>a
       DEF CancelAutoFocusDone, Flags, RecordingFlag, PreviewFlags, Place,
           StoppingAt, StartingAt, Inside, Goto, Send, Return, Begin, Ready,
           At, None
  <1>22. CASE TakePictureLock
    BY <1>22, <1>a
       DEF TakePictureLock, Flags, RecordingFlag, PreviewFlags, Place,
           StoppingAt, StartingAt, Inside, Goto, Send, Return, Begin, Ready,
           At, None
  <1>23. CASE TakePictureBegin
    BY <1>23, <1>a
       DEF TakePictureBegin, Flags, RecordingFlag, PreviewFlags, Place,
           StoppingAt, StartingAt, Inside, Goto, Send, Return, Begin, Ready,
           At, None
  <1>24. CASE TakePictureNext
    BY <1>24, <1>a
       DEF TakePictureNext, Flags, RecordingFlag, PreviewFlags, Place,
           StoppingAt, StartingAt, Inside, Goto, Send, Return, Begin, Ready,
           At, None
  <1>25. CASE HalDone
    BY <1>25, <1>a
       DEF HalDone, Flags, RecordingFlag, PreviewFlags, Place, StoppingAt,
           StartingAt, Inside, Goto, Send, Return, Begin, Ready, At, None
  <1>26. CASE RecordingStarted
    BY <1>26, <1>a
       DEF RecordingStarted, Flags, RecordingFlag, PreviewFlags, Place,
           StoppingAt, StartingAt, Inside, Goto, Send, Return, Begin, Ready,
           At, None
  <1>27. CASE StopRecordingLock
    BY <1>27, <1>a
       DEF StopRecordingLock, Flags, RecordingFlag, PreviewFlags, Place,
           StoppingAt, StartingAt, Inside, Goto, Send, Return, Begin, Ready,
           At, None
  <1>28. CASE StopRecordingBegin
    BY <1>28, <1>a
       DEF StopRecordingBegin, Flags, RecordingFlag, PreviewFlags, Place,
           StoppingAt, StartingAt, Inside, Goto, Send, Return, Begin, Ready,
           At, None
  <1>29. CASE StopRecordingNext
    BY <1>29, <1>a
       DEF StopRecordingNext, Flags, RecordingFlag, PreviewFlags, Place,
           StoppingAt, StartingAt, Inside, Goto, Send, Return, Begin, Ready,
           At, None
  <1>30. CASE AutoFocusBegin
    BY <1>30, <1>a
       DEF AutoFocusBegin, Flags, RecordingFlag, PreviewFlags, Place,
           StoppingAt, StartingAt, Inside, Goto, Send, Return, Begin, Ready,
           At, None
  <1>31. CASE AppDone
    BY <1>31, <1>a
       DEF AppDone, Flags, RecordingFlag, PreviewFlags, Place, StoppingAt,
           StartingAt, Inside, Goto, Send, Return, Begin, Ready, At, None
  <1>32. ASSUME NEW t \in {"app", "ret"}, SignalEndImageCapture(t) \/ SignalEndDone(t)
        PROVE Flags'
    BY <1>32, <1>a DEF SignalEndImageCapture, SignalEndDone, Flags, RecordingFlag,
       PreviewFlags, Place, StoppingAt, StartingAt, Inside, Send, Return, Threads
  <1>33. ASSUME NEW t \in {"app", "omx"}, ZoomDone(t) PROVE Flags'
    BY <1>33, <1>a DEF ZoomDone, Flags, RecordingFlag, PreviewFlags, Place,
       StoppingAt, StartingAt, Inside, Return
  <1>51. CASE EnableDisplay
    BY <1>51, <1>a
       DEF EnableDisplay, Flags, RecordingFlag, PreviewFlags, Place,
           StoppingAt, StartingAt, Inside, Goto, Send, Return, Begin, Ready,
           At, None
  <1>52. CASE SetParametersLock
    BY <1>52, <1>a
       DEF SetParametersLock, Flags, RecordingFlag, PreviewFlags, Place,
           StoppingAt, StartingAt, Inside, Goto, Send, Return, Begin, Ready,
           At, None
  <1>53. CASE SetParametersUpdate
    BY <1>53, <1>a
       DEF SetParametersUpdate, Flags, RecordingFlag, PreviewFlags, Place,
           StoppingAt, StartingAt, Inside, Goto, Send, Return, Begin, Ready,
           At, None
  <1>54. CASE RestartLock
    BY <1>54, <1>a
       DEF RestartLock, Flags, RecordingFlag, PreviewFlags, Place,
           StoppingAt, StartingAt, Inside, Goto, Send, Return, Begin, Ready,
           At, None
  <1>55. CASE RestartParameters
    BY <1>55, <1>a
       DEF RestartParameters, Flags, RecordingFlag, PreviewFlags, Place,
           StoppingAt, StartingAt, Inside, Goto, Send, Return, Begin, Ready,
           At, None
  <1>56. CASE CancelAutoFocusLock
    BY <1>56, <1>a
       DEF CancelAutoFocusLock, Flags, RecordingFlag, PreviewFlags, Place,
           StoppingAt, StartingAt, Inside, Goto, Send, Return, Begin, Ready,
           At, None
  <1>34. CASE NewCall
    BY <1>34, <1>1, <1>2, <1>3, <1>4, <1>5, <1>6, <1>7, <1>8, <1>9, <1>10, <1>11
       DEF NewCall
  <1>35. CASE App
    BY <1>35, SendFlags, <1>12, <1>13, <1>14, <1>15, <1>16, <1>17, <1>18,
       <1>19, <1>20, <1>21, <1>22, <1>23, <1>24, <1>25, <1>26, <1>27, <1>28,
       <1>29, <1>30, <1>31, <1>32, <1>33,
       <1>51, <1>52, <1>53, <1>54, <1>55, <1>56 DEF App
  <1>36. CASE Cmd
    <2>1. ASSUME Handler \/ StartImageCapture \/ CaptureCancelled \/
                 QueueBurst \/ DoAutoFocus \/ ReturnFocusStatus
          PROVE SameFlags
      BY <1>a, <2>1 DEF SameFlags, Goto, Send, Release, Handler, StartImageCapture,
         CaptureCancelled, QueueBurst, DoAutoFocus, ReturnFocusStatus
    <2> QED
      BY <1>36, <2>1, SameFlagsKeeps, SendFlags DEF Cmd
  <1>37. CASE Ret
    <2>1. ASSUME FillThisBuffer \/ FillThisImage PROVE SameFlags
      BY <1>a, <2>1 DEF SameFlags, Goto, Send, Release, FillThisBuffer, FillThisImage
    <2> QED
      BY <1>37, <2>1, SameFlagsKeeps, SendFlags, <1>32 DEF Ret
  <1>38. CASE Omx
    <2>1. ASSUME ImageDone \/ CountImage \/ AdvanceZoom PROVE SameFlags
      BY <1>a, <2>1 DEF SameFlags, Goto, Send, Release, ImageDone, CountImage,
         AdvanceZoom
    <2> QED
      BY <1>38, <2>1, SameFlagsKeeps, SendFlags, <1>33 DEF Omx
  <1>39. CASE UNCHANGED vars
    BY <1>39, SameFlagsKeeps DEF vars, SameFlags
  <1> QED
    BY <1>34, <1>35, <1>36, <1>37, <1>38, <1>39 DEF Next

\* No flag is set initially.
LEMMA FlagsInit == Init => Flags
  BY Names DEF Init, Flags, RecordingFlag, PreviewFlags, Place, Inside, StartingAt, None

\* Between two calls of the application CameraHal's flags tell the truth about
\* the adapter, whatever the threads below it do and whichever operations fail.
THEOREM FlagsStayTrue == Spec => []FlagsTrue
  <1>1. Spec => []Flags
    BY FlagsInit, FlagsStep, Controlled, PTL DEF Spec
  <1>2. Flags => FlagsTrue
    BY DEF Flags, RecordingFlag, PreviewFlags, FlagsTrue, Place, Inside, StoppingAt
  <1> QED
    BY <1>1, <1>2, PTL

-----------------------------------------------------------------------------
(* The locks.                                                              *)

\* The places at which a thread holds CameraHal's mLock.
UnderHal == {"pm.zoom", "rs.zoom", "caf.zoom", "caf.done", "tp.begin", "tp.query",
             "tp.use", "hal.done", "end.done", "sr.begin", "sr.img", "sr.done"}

\* Who may hold a lock, and where: mBurstLock the thread that returns the last
\* frame, mImageCaptureLock the CommandHandler, mZoomLock the callers of
\* setState that end a zoom, who run no operation under it.  The callback
\* thread calls nothing else.
Locking ==
  \A t \in Threads :
    /\ owner["hal"] = t => Place(t) \in UnderHal
    /\ owner["burst"] = t => t = "ret" /\ Place(t) \in {"end.lock", "end.done"}
    /\ owner["img"] = t => t = "cmd" /\ Place(t) \in {"cap.next", "cap.burst"}
    /\ owner["zoom"] = t <=> Place(t) = "zoom.done"
    /\ Place(t) = "zoom.done" => pc[t] # "op"
    /\ t = "omx" => pc[t] \in {"idle", "img.count"} \/ Place(t) = "zoom.done"

\* The application's command has just locked mStateSwitchLock, or has just
\* unlocked it.
Locked   == pc["app"] = "finish" /\ ok["app"] /\ cmd["app"] = "USE_PREVIEW"
Unlocked == /\ pc["app"] = "finish" /\ ok["app"]
            /\ cmd["app"] \in {"START_PREVIEW", "STOP_PREVIEW"}

\* mStateSwitchLock stays locked between UseBuffersPreview and startPreview or
\* stopPreview, that is, in LOADED_PREVIEW; buffers are used only in INIT.
Switching ==
  /\ pc["app"] = "sp.query" /\ ok["app"] => adapter = "INIT"
  /\ pc["app"] \in Inside /\ cmd["app"] = "USE_PREVIEW" => adapter = "INIT"
  /\ pc["app"] \in {"op", "finish"} /\ cmd["app"] = "USE_PREVIEW" =>
       next = "LOADED_PREVIEW"
  /\ pc["app"] \in Inside /\ back["app"] = "sp.query" => cmd["app"] = "QUERY_RES"
  /\ owner["switch"] \in {None, "app"}
  /\ owner["switch"] = "app" => (adapter = "LOADED_PREVIEW" /\ ~Unlocked) \/ Locked

\* The rows about the buffers of the preview.
LEMMA TableSwitch ==
  /\ <<"INIT", "USE_PREVIEW", "LOADED_PREVIEW">> \in Table
  /\ \A row \in Table : row[2] = "USE_PREVIEW" => row[3] = "LOADED_PREVIEW"
  BY SMTT(60) DEF Table, Stay, InitRows, PreviewRows, CaptureRows,
                  FocusRows, ZoomRows, VideoRows, MixedZoomRows

\* A part of sendCommand that leaves the other locks alone: the thread stays at
\* its place.
LEMMA PartKeeps ==
  ASSUME TypeOK, Control, Locking, NEW t \in Threads, pc[t] \in Inside,
         NEW p \in {"op", "finish"} \cup {back[t]}, pc' = [pc EXCEPT ![t] = p],
         p \in Inside => back'[t] = back[t],
         \A u \in Threads \ {t} : back'[u] = back[u],
         p = "op" => back[t] # "zoom.done",
         \A l \in {"hal", "burst", "img", "zoom"} : owner'[l] = owner[l]
  PROVE  Locking'
  <1>1. pc \in [Threads -> Pcs] /\ back[t] \notin Inside
    BY DEF TypeOK, ThreadTypes, Control, Held, Inside
  <1>2. Place(t)' = Place(t)
    BY <1>1 DEF Place, Inside
  <1>3. \A u \in Threads \ {t} : Place(u)' = Place(u) /\ pc'[u] = pc[u]
    BY <1>1 DEF Place
  <1>4. p = "op" => Place(t) # "zoom.done"
    BY DEF Place
  <1>5. pc'[t] = p
    BY <1>1
  <1>6. t = "omx" => Place(t) = "zoom.done"
    BY DEF Locking, Inside
  <1>7. ASSUME NEW u \in Threads
        PROVE  /\ Place(u)' = Place(u)
               /\ Place(u) = "zoom.done" => pc'[u] # "op"
               /\ u = "omx" => pc'[u] \in {"idle", "img.count"} \/ Place(u) = "zoom.done"
    <2>1. CASE u = t
      BY <1>2, <1>4, <1>5, <1>6, <2>1
    <2>2. CASE u # t
      BY <1>3, <2>2 DEF Locking
    <2> QED
      BY <2>1, <2>2
  <1> QED
    BY <1>7 DEF Locking

\* Every part of sendCommand keeps the locks in their places.
LEMMA SendLocking ==
  ASSUME TypeOK, Control, Locking, NEW t \in Threads, SendCommand(t)
  PROVE  Locking'
  <1> USE Names
  <1>o. owner \in [Locks -> Threads \cup {None}] /\ back \in [Threads -> Pcs]
    BY DEF TypeOK, AdapterTypes, ThreadTypes
  <1>1. CASE Finish(t)
    BY <1>1, <1>o, PartKeeps DEF Finish, Inside, Control, Held
  <1>2. CASE SetState(t)
    <2>1. /\ pc[t] = "set" /\ back' = back
          /\ owner' = [owner EXCEPT !["mLock"] = t]
      BY <1>2 DEF SetState
    <2>2. \E p \in {"op", "finish"} :
             pc' = [pc EXCEPT ![t] = p] /\ (p = "op" => back[t] # "zoom.done")
      BY <1>2 DEF SetState, Bare
    <2> QED
      BY <1>o, <2>1, <2>2, PartKeeps DEF Inside
  <1>3. ASSUME NEW c, NEW r, Operated(t, c, r),
               \A l \in {"hal", "burst", "img", "zoom"} : owner'[l] = owner[l]
        PROVE  Locking'
    BY <1>3, PartKeeps DEF Operated, Inside
  <1>4. CASE UseBuffersPreview(t) \/ StartPreview(t) \/ StopPreview(t)
    BY <1>3, <1>4, <1>o DEF UseBuffersPreview, StartPreview, StopPreview
  <1> QED
    BY <1>1, <1>2, <1>3, <1>4 DEF SendCommand, Query, Fault,
         UseBuffersCapture, TakePicture, StopImageCapture, AutoFocus,
         StartVideoCapture, StopVideoCapture, StartSmoothZoom, StopSmoothZoom

\* Every step keeps the locks in their places.
LEMMA LockingStep == TypeOK /\ Control /\ Locking /\ [Next]_vars => Locking'
  <1> SUFFICES ASSUME TypeOK, Control, Locking, [Next]_vars PROVE Locking'
    OBVIOUS
  <1> USE Names DEF stateVars, lowVars, halVars, flagVars
  <1>a. /\ pc \in [Threads -> Pcs] /\ back \in [Threads -> Pcs]
        /\ owner \in [Locks -> Threads \cup {None}]
    BY DEF TypeOK, ThreadTypes, AdapterTypes
  <1>1. CASE StartPreviewCall
    BY <1>1, <1>a
       DEF StartPreviewCall, Locking, UnderHal, Place, Inside, Goto, Send,
           Return, Begin, Ready, At, Take, Release, Free, Threads, None
  <1>2. CASE StopPreviewCall
    BY <1>2, <1>a
       DEF StopPreviewCall, Locking, UnderHal, Place, Inside, Goto, Send,
           Return, Begin, Ready, At, Take, Release, Free, Threads, None
  <1>3. CASE RestartPreviewCall
    BY <1>3, <1>a
       DEF RestartPreviewCall, Locking, UnderHal, Place, Inside, Goto, Send,
           Return, Begin, Ready, At, Take, Release, Free, Threads, None
  <1>4. CASE TakePictureCall
    BY <1>4, <1>a
       DEF TakePictureCall, Locking, UnderHal, Place, Inside, Goto, Send,
           Return, Begin, Ready, At, Take, Release, Free, Threads, None
  <1>5. CASE CancelPictureCall
    BY <1>5, <1>a
       DEF CancelPictureCall, Locking, UnderHal, Place, Inside, Goto, Send,
           Return, Begin, Ready, At, Take, Release, Free, Threads, None
  <1>6. CASE StartRecordingCall
    BY <1>6, <1>a
       DEF StartRecordingCall, Locking, UnderHal, Place, Inside, Goto, Send,
           Return, Begin, Ready, At, Take, Release, Free, Threads, None
  <1>7. CASE StopRecordingCall
    BY <1>7, <1>a
       DEF StopRecordingCall, Locking, UnderHal, Place, Inside, Goto, Send,
           Return, Begin, Ready, At, Take, Release, Free, Threads, None
  <1>8. CASE AutoFocusCall
    BY <1>8, <1>a
       DEF AutoFocusCall, Locking, UnderHal, Place, Inside, Goto, Send,
           Return, Begin, Ready, At, Take, Release, Free, Threads, None
  <1>9. CASE CancelAutoFocusCall
    BY <1>9, <1>a
       DEF CancelAutoFocusCall, Locking, UnderHal, Place, Inside, Goto, Send,
           Return, Begin, Ready, At, Take, Release, Free, Threads, None
  <1>10. CASE ZoomCall
    BY <1>10, <1>a
       DEF ZoomCall, Locking, UnderHal, Place, Inside, Goto, Send, Return,
           Begin, Ready, At, Take, Release, Free, Threads, None
  <1>11. CASE GetParametersCall
    BY <1>11, <1>a
       DEF GetParametersCall, Locking, UnderHal, Place, Inside, Goto, Send,
           Return, Begin, Ready, At, Take, Release, Free, Threads, None
  <1>12. CASE PreviewInitialization
    BY <1>12, <1>a
       DEF PreviewInitialization, Locking, UnderHal, Place, Inside, Goto,
           Send, Return, Begin, Ready, At, Take, Release, Free, Threads, None
  <1>13. CASE AllocPreviewBufs
    BY <1>13, <1>a
       DEF AllocPreviewBufs, Locking, UnderHal, Place, Inside, Goto, Send,
           Return, Begin, Ready, At, Take, Release, Free, Threads, None
  <1>14. CASE StartNotifier
    BY <1>14, <1>a
       DEF StartNotifier, Locking, UnderHal, Place, Inside, Goto, Send,
           Return, Begin, Ready, At, Take, Release, Free, Threads, None
  <1>15. CASE PreviewStarted
    BY <1>15, <1>a
       DEF PreviewStarted, Locking, UnderHal, Place, Inside, Goto, Send,
           Return, Begin, Ready, At, Take, Release, Free, Threads, None
  <1>16. CASE PreviewFailed
    BY <1>16, <1>a
       DEF PreviewFailed, Locking, UnderHal, Place, Inside, Goto, Send,
           Return, Begin, Ready, At, Take, Release, Free, Threads, None
  <1>17. CASE RollbackRead
    BY <1>17, <1>a
       DEF RollbackRead, Locking, UnderHal, Place, Inside, Goto, Send, Return,
           Begin, Ready, At, Take, Release, Free, Threads, None
  <1>18. CASE RollbackSent
    BY <1>18, <1>a
       DEF RollbackSent, Locking, UnderHal, Place, Inside, Goto, Send, Return,
           Begin, Ready, At, Take, Release, Free, Threads, None
  <1>19. CASE FreePreviewBufs
    BY <1>19, <1>a
       DEF FreePreviewBufs, Locking, UnderHal, Place, Inside, Goto, Send,
           Return, Begin, Ready, At, Take, Release, Free, Threads, None
  <1>20. CASE CancelAutoFocus
    BY <1>20, <1>a
       DEF CancelAutoFocus, Locking, UnderHal, Place, Inside, Goto, Send,
           Return, Begin, Ready, At, Take, Release, Free, Threads, None
  <1>21. CASE CancelAutoFocusDone
    BY <1>21, <1>a
       DEF CancelAutoFocusDone, Locking, UnderHal, Place, Inside, Goto, Send,
           Return, Begin, Ready, At, Take, Release, Free, Threads, None
  <1>22. CASE TakePictureLock
    BY <1>22, <1>a
       DEF TakePictureLock, Locking, UnderHal, Place, Inside, Goto, Send,
           Return, Begin, Ready, At, Take, Release, Free, Threads, None
  <1>23. CASE TakePictureBegin
    BY <1>23, <1>a
       DEF TakePictureBegin, Locking, UnderHal, Place, Inside, Goto, Send,
           Return, Begin, Ready, At, Take, Release, Free, Threads, None
  <1>24. CASE TakePictureNext
    BY <1>24, <1>a
       DEF TakePictureNext, Locking, UnderHal, Place, Inside, Goto, Send,
           Return, Begin, Ready, At, Take, Release, Free, Threads, None
  <1>25. CASE HalDone
    BY <1>25, <1>a
       DEF HalDone, Locking, UnderHal, Place, Inside, Goto, Send, Return,
           Begin, Ready, At, Take, Release, Free, Threads, None
  <1>26. CASE RecordingStarted
    BY <1>26, <1>a
       DEF RecordingStarted, Locking, UnderHal, Place, Inside, Goto, Send,
           Return, Begin, Ready, At, Take, Release, Free, Threads, None
  <1>27. CASE StopRecordingLock
    BY <1>27, <1>a
       DEF StopRecordingLock, Locking, UnderHal, Place, Inside, Goto, Send,
           Return, Begin, Ready, At, Take, Release, Free, Threads, None
  <1>28. CASE StopRecordingBegin
    BY <1>28, <1>a
       DEF StopRecordingBegin, Locking, UnderHal, Place, Inside, Goto, Send,
           Return, Begin, Ready, At, Take, Release, Free, Threads, None
  <1>29. CASE StopRecordingNext
    BY <1>29, <1>a
       DEF StopRecordingNext, Locking, UnderHal, Place, Inside, Goto, Send,
           Return, Begin, Ready, At, Take, Release, Free, Threads, None
  <1>30. CASE AutoFocusBegin
    BY <1>30, <1>a
       DEF AutoFocusBegin, Locking, UnderHal, Place, Inside, Goto, Send,
           Return, Begin, Ready, At, Take, Release, Free, Threads, None
  <1>31. CASE AppDone
    BY <1>31, <1>a
       DEF AppDone, Locking, UnderHal, Place, Inside, Goto, Send, Return,
           Begin, Ready, At, Take, Release, Free, Threads, None
  <1>32. CASE Handler
    BY <1>32, <1>a
       DEF Handler, Locking, UnderHal, Place, Inside, Goto, Send, Return,
           Begin, Ready, At, Take, Release, Free, Threads, None
  <1>33. CASE StartImageCapture
    BY <1>33, <1>a
       DEF StartImageCapture, Locking, UnderHal, Place, Inside, Goto, Send,
           Return, Begin, Ready, At, Take, Release, Free, Threads, None
  <1>34. CASE CaptureCancelled
    BY <1>34, <1>a
       DEF CaptureCancelled, Locking, UnderHal, Place, Inside, Goto, Send,
           Return, Begin, Ready, At, Take, Release, Free, Threads, None
  <1>35. CASE QueueBurst
    BY <1>35, <1>a
       DEF QueueBurst, Locking, UnderHal, Place, Inside, Goto, Send, Return,
           Begin, Ready, At, Take, Release, Free, Threads, None
  <1>36. CASE DoAutoFocus
    BY <1>36, <1>a
       DEF DoAutoFocus, Locking, UnderHal, Place, Inside, Goto, Send, Return,
           Begin, Ready, At, Take, Release, Free, Threads, None
  <1>37. CASE ReturnFocusStatus
    BY <1>37, <1>a
       DEF ReturnFocusStatus, Locking, UnderHal, Place, Inside, Goto, Send,
           Return, Begin, Ready, At, Take, Release, Free, Threads, None
  <1>38. CASE FillThisBuffer
    BY <1>38, <1>a
       DEF FillThisBuffer, Locking, UnderHal, Place, Inside, Goto, Send,
           Return, Begin, Ready, At, Take, Release, Free, Threads, None
  <1>39. CASE FillThisImage
    BY <1>39, <1>a
       DEF FillThisImage, Locking, UnderHal, Place, Inside, Goto, Send,
           Return, Begin, Ready, At, Take, Release, Free, Threads, None
  <1>40. CASE ImageDone
    BY <1>40, <1>a
       DEF ImageDone, Locking, UnderHal, Place, Inside, Goto, Send, Return,
           Begin, Ready, At, Take, Release, Free, Threads, None
  <1>41. CASE CountImage
    BY <1>41, <1>a
       DEF CountImage, Locking, UnderHal, Place, Inside, Goto, Send, Return,
           Begin, Ready, At, Take, Release, Free, Threads, None
  <1>42. CASE AdvanceZoom
    BY <1>42, <1>a
       DEF AdvanceZoom, Locking, UnderHal, Place, Inside, Goto, Send, Return,
           Begin, Ready, At, Take, Release, Free, Threads, None
  <1>43. ASSUME NEW t \in {"app", "ret"}, SignalEndImageCapture(t) \/ SignalEndDone(t)
        PROVE Locking'
    BY <1>43, <1>a DEF SignalEndImageCapture, SignalEndDone, Locking, UnderHal,
       Place, Inside, Send, Return, Take, Release, Free, Threads, None
  <1>44. ASSUME NEW t \in {"app", "omx"}, ZoomDone(t) PROVE Locking'
    BY <1>44, <1>a DEF ZoomDone, Locking, UnderHal, Place, Inside, Return, Release,
       Threads, None
  <1>51. CASE EnableDisplay
    BY <1>51, <1>a
       DEF EnableDisplay, Locking, UnderHal, Place, Inside, Goto, Send,
           Return, Begin, Ready, At, Take, Release, Free, Threads, None
  <1>52. CASE SetParametersLock
    BY <1>52, <1>a
       DEF SetParametersLock, Locking, UnderHal, Place, Inside, Goto, Send,
           Return, Begin, Ready, At, Take, Release, Free, Threads, None
  <1>53. CASE SetParametersUpdate
    BY <1>53, <1>a
       DEF SetParametersUpdate, Locking, UnderHal, Place, Inside, Goto, Send,
           Return, Begin, Ready, At, Take, Release, Free, Threads, None
  <1>54. CASE RestartLock
    BY <1>54, <1>a
       DEF RestartLock, Locking, UnderHal, Place, Inside, Goto, Send,
           Return, Begin, Ready, At, Take, Release, Free, Threads, None
  <1>55. CASE RestartParameters
    BY <1>55, <1>a
       DEF RestartParameters, Locking, UnderHal, Place, Inside, Goto, Send,
           Return, Begin, Ready, At, Take, Release, Free, Threads, None
  <1>56. CASE CancelAutoFocusLock
    BY <1>56, <1>a
       DEF CancelAutoFocusLock, Locking, UnderHal, Place, Inside, Goto, Send,
           Return, Begin, Ready, At, Take, Release, Free, Threads, None
  <1>45. CASE NewCall
    BY <1>45, <1>1, <1>2, <1>3, <1>4, <1>5, <1>6, <1>7, <1>8, <1>9, <1>10, <1>11
       DEF NewCall
  <1>46. CASE App
    BY <1>46, SendLocking, <1>12, <1>13, <1>14, <1>15, <1>16, <1>17, <1>18,
       <1>19, <1>20, <1>21, <1>22, <1>23, <1>24, <1>25, <1>26, <1>27, <1>28,
       <1>29, <1>30, <1>31, <1>43, <1>44,
       <1>51, <1>52, <1>53, <1>54, <1>55, <1>56 DEF App
  <1>47. CASE Cmd
    BY <1>47, SendLocking, <1>32, <1>33, <1>34, <1>35, <1>36, <1>37 DEF Cmd
  <1>48. CASE Ret
    BY <1>48, SendLocking, <1>38, <1>39, <1>43 DEF Ret
  <1>49. CASE Omx
    BY <1>49, SendLocking, <1>40, <1>41, <1>42, <1>44 DEF Omx
  <1>50. CASE UNCHANGED vars
    BY <1>50 DEF vars, Locking, Place
  <1> QED
    BY <1>45, <1>46, <1>47, <1>48, <1>49, <1>50 DEF Next

\* What mStateSwitchLock depends on.
SameSwitch == /\ adapter' = adapter /\ next' = next
              /\ owner'["switch"] = owner["switch"]
              /\ pc'["app"] = pc["app"] /\ cmd'["app"] = cmd["app"]
              /\ back'["app"] = back["app"] /\ ok'["app"] = ok["app"]

\* A step that touches none of it keeps it.
LEMMA SameSwitchKeeps == Switching /\ SameSwitch => Switching'
  BY DEF Switching, SameSwitch, Locked, Unlocked

\* setState accepts CAMERA_USE_BUFFERS_PREVIEW, because the state is INIT.
LEMMA SetStateSwitch ==
  ASSUME TypeOK, Control, Switching, NEW t \in Threads, SetState(t)
  PROVE  Switching'
  <1> USE Names DEF TypeOK, ThreadTypes, AdapterTypes
  <1>1. /\ pc[t] = "set" /\ owner["mLock"] = None
        /\ owner' = [owner EXCEPT !["mLock"] = t]
        /\ UNCHANGED <<adapter, cmd, back>>
    BY DEF SetState, Free
  <1>2. PICK o \in BOOLEAN, p \in {"op", "finish"} :
          ok' = [ok EXCEPT ![t] = o] /\ pc' = [pc EXCEPT ![t] = p]
    BY DEF SetState
  <1>3. pc["app"] \notin {"op", "finish"}
    BY <1>1 DEF Control, Held, InCommand, None
  <1>4. owner'["switch"] = owner["switch"]
    BY <1>1
  <1>5. CASE t # "app"
    BY <1>1, <1>2, <1>3, <1>4, <1>5 DEF Switching, Locked, Unlocked
  <1>6. CASE t = "app"
    <2>1. cmd["app"] = "USE_PREVIEW" => adapter = "INIT"
      BY <1>1, <1>6 DEF Switching, Inside
    <2>2. cmd["app"] = "USE_PREVIEW" => next' = "LOADED_PREVIEW" /\ p = "op"
      <3> SUFFICES ASSUME cmd["app"] = "USE_PREVIEW"
                   PROVE  next' = "LOADED_PREVIEW" /\ p = "op"
        OBVIOUS
      <3> DEFINE rows == {row \in Table : row[1] = adapter /\ row[2] = cmd["app"]}
      <3>1. <<"INIT", "USE_PREVIEW", "LOADED_PREVIEW">> \in rows
        BY <2>1, TableSwitch
      <3>2. \A row \in rows : row[3] = "LOADED_PREVIEW"
        BY TableSwitch
      <3>3. next' = "LOADED_PREVIEW"
        BY <1>6, <3>1, <3>2 DEF SetState
      <3>4. ~Bare("app")
        BY DEF Bare, Control, Below
      <3>5. p = "op"
        BY <1>2, <1>6, <3>4 DEF SetState, UseBuffers
      <3> QED
        BY <3>3, <3>5
    <2>3. owner["switch"] = "app" => adapter = "LOADED_PREVIEW"
      BY <1>3 DEF Switching, Locked
    <2>4. pc'["app"] = p /\ ok'["app"] = o /\ p \in {"op", "finish"}
      BY <1>2, <1>6
    <2>5. Unlocked' /\ owner["switch"] = "app" => FALSE
      <3> SUFFICES ASSUME Unlocked', owner["switch"] = "app" PROVE FALSE
        OBVIOUS
      <3>1. p = "finish" /\ o = TRUE /\ cmd["app"] \in {"START_PREVIEW", "STOP_PREVIEW"}
        BY <1>1, <2>4 DEF Unlocked
      <3>2. ~Bare("app")
        BY <3>1 DEF Bare, Control, Below
      <3> QED
        BY <1>2, <1>6, <3>1, <3>2 DEF SetState
    <2> QED
      BY <1>1, <1>4, <1>6, <2>1, <2>2, <2>3, <2>4, <2>5 DEF Switching, Inside
  <1> QED
    BY <1>5, <1>6

\* A command leaves LOADED_PREVIEW only when its operation has unlocked
\* mStateSwitchLock.
LEMMA FinishSwitch ==
  ASSUME TypeOK, Control, Switching, NEW t \in Threads, Finish(t)
  PROVE  Switching'
  <1> USE Names DEF TypeOK, ThreadTypes, AdapterTypes
  <1>1. /\ pc[t] = "finish" /\ ok' = ok
        /\ owner' = [owner EXCEPT !["mLock"] = None]
        /\ pc' = [pc EXCEPT ![t] = back[t]] /\ cmd' = [cmd EXCEPT ![t] = None]
        /\ back' = [back EXCEPT ![t] = "idle"]
    BY DEF Finish
  <1>2. /\ ok[t] => adapter' = next
        /\ ~ok[t] => adapter' = adapter
    BY DEF Finish
  <1>3. \/ adapter' = adapter
        \/ ok[t] /\ <<adapter, cmd[t], adapter'>> \in Table
    BY <1>1, <1>2 DEF Control, OnWay, InCommand
  <1>4. owner'["switch"] = owner["switch"]
    BY <1>1
  <1>5. /\ adapter = "INIT" /\ cmd[t] # "USE_PREVIEW" => adapter' = "INIT"
        /\ adapter = "LOADED_PREVIEW"
             /\ ~(ok[t] /\ cmd[t] \in {"START_PREVIEW", "STOP_PREVIEW"})
           => adapter' = "LOADED_PREVIEW"
    BY <1>3, TablePreview
  <1>6. CASE t # "app"
    <2>1. cmd[t] \notin {"USE_PREVIEW", "START_PREVIEW", "STOP_PREVIEW"}
      BY <1>6 DEF Control, Below, None
    <2>2. pc["app"] \notin {"op", "finish"}
      BY <1>1, <1>6 DEF Control, Held, InCommand
    <2>3. /\ pc'["app"] = pc["app"] /\ cmd'["app"] = cmd["app"]
          /\ back'["app"] = back["app"] /\ ok'["app"] = ok["app"]
      BY <1>1, <1>6
    <2> QED
      BY <1>4, <1>5, <2>1, <2>2, <2>3 DEF Switching, Locked, Unlocked
  <1>7. CASE t = "app"
    <2>1. /\ pc'["app"] = back["app"] /\ back["app"] \notin Inside
          /\ ok'["app"] = ok["app"]
      BY <1>1, <1>7 DEF Control, Held, Inside
    <2>2. back["app"] = "sp.query" /\ ok["app"] => adapter' = "INIT"
      <3> SUFFICES ASSUME back["app"] = "sp.query", ok["app"] PROVE adapter' = "INIT"
        OBVIOUS
      <3>1. cmd["app"] = "QUERY_RES"
        BY <1>1, <1>7 DEF Switching, Inside
      <3>2. <<adapter, cmd["app"], next>> \in Table
        BY <1>1, <1>7, <3>1 DEF Control, OnWay, InCommand, UseBuffers
      <3> QED
        BY <1>2, <1>7, <3>1, <3>2, TablePreview
    <2>3. owner["switch"] = "app" => adapter' = "LOADED_PREVIEW"
      <3>1. CASE Locked
        BY <1>1, <1>2, <1>7, <3>1 DEF Switching, Locked
      <3>2. CASE adapter = "LOADED_PREVIEW" /\ ~Unlocked
        BY <1>1, <1>5, <1>7, <3>2 DEF Unlocked
      <3> QED
        BY <3>1, <3>2 DEF Switching
    <2> QED
      BY <1>4, <2>1, <2>2, <2>3 DEF Switching, Inside, Unlocked
  <1> QED
    BY <1>6, <1>7

\* An operation other than the three that use mStateSwitchLock; of them only
\* failures leave it alone.
LEMMA OperatedSwitch ==
  ASSUME TypeOK, Control, Switching, NEW t \in Threads, NEW c, NEW r \in BOOLEAN,
         Operated(t, c, r), owner'["switch"] = owner["switch"],
         r = TRUE => c \notin {"START_PREVIEW", "STOP_PREVIEW"}
  PROVE  Switching'
  <1> USE Names DEF TypeOK, ThreadTypes
  <1>1. /\ pc[t] = "op" /\ cmd[t] = c /\ UNCHANGED <<adapter, next, cmd, back>>
        /\ pc' = [pc EXCEPT ![t] = "finish"] /\ ok' = [ok EXCEPT ![t] = r]
    BY DEF Operated, stateVars
  <1>2. CASE t # "app"
    BY <1>1, <1>2, SameSwitchKeeps DEF SameSwitch
  <1>3. CASE t = "app"
    <2>1. pc'["app"] = "finish" /\ ok'["app"] = r /\ pc["app"] = "op"
      BY <1>1, <1>3
    <2>2. owner["switch"] = "app" => adapter = "LOADED_PREVIEW"
      BY <2>1 DEF Switching, Locked
    <2>3. ~Unlocked'
      BY <1>1, <1>3, <2>1 DEF Unlocked
    <2> QED
      BY <1>1, <2>1, <2>2, <2>3 DEF Switching, Inside
  <1> QED
    BY <1>2, <1>3

\* Every part of sendCommand keeps mStateSwitchLock with its states.
LEMMA SendSwitch ==
  ASSUME TypeOK, Control, Switching, NEW t \in Threads, SendCommand(t)
  PROVE  Switching'
  <1> USE Names
  <1>o. owner \in [Locks -> Threads \cup {None}] /\ recording \in BOOLEAN
        /\ pc \in [Threads -> Pcs] /\ ok \in [Threads -> BOOLEAN]
    BY DEF TypeOK, AdapterTypes, ThreadTypes
  <1>b. t # "app" => cmd[t] \in {None, "CANCEL_AF", "STOP_IMG", "STOP_ZOOM"}
    BY DEF Control, Below
  <1>1. CASE SetState(t)
    BY <1>1, SetStateSwitch
  <1>2. CASE Finish(t)
    BY <1>2, FinishSwitch
  <1>3. CASE UseBuffersPreview(t)
    <2>1. t = "app" /\ pc["app"] = "op" /\ cmd["app"] = "USE_PREVIEW"
      BY <1>3, <1>b DEF UseBuffersPreview, Operated, None
    <2>2. CASE Operated(t, "USE_PREVIEW", TRUE) /\ owner' = [owner EXCEPT !["switch"] = t]
      <3>1. /\ UNCHANGED <<adapter, next, cmd, back>> /\ owner'["switch"] = "app"
            /\ pc'["app"] = "finish" /\ ok'["app"] = TRUE
        BY <1>o, <2>1, <2>2 DEF Operated, stateVars
      <3> QED
        BY <2>1, <3>1 DEF Switching, Inside, Locked
    <2>3. CASE Operated(t, "USE_PREVIEW", FALSE) /\ UNCHANGED owner
      BY <2>3, OperatedSwitch
    <2> QED
      BY <1>3, <2>2, <2>3 DEF UseBuffersPreview
  <1>4. CASE StartPreview(t)
    <2>1. t = "app" /\ pc["app"] = "op" /\ cmd["app"] = "START_PREVIEW"
      BY <1>4, <1>b DEF StartPreview, Operated, None
    <2>2. /\ UNCHANGED <<adapter, next, cmd, back>> /\ owner'["switch"] = None
          /\ pc'["app"] = "finish"
      BY <1>4, <1>o, <2>1 DEF StartPreview, Operated, stateVars
    <2> QED
      BY <2>1, <2>2 DEF Switching, Inside, None
  <1>5. CASE StopPreview(t)
    <2>1. t = "app" /\ pc["app"] = "op" /\ cmd["app"] = "STOP_PREVIEW"
      BY <1>5, <1>b DEF StopPreview, Operated, None
    <2>2. /\ UNCHANGED <<adapter, next, cmd, back>> /\ pc'["app"] = "finish"
          /\ owner'["switch"] = IF adapter = "LOADED_PREVIEW" THEN None
                                ELSE owner["switch"]
      BY <1>5, <1>o, <2>1 DEF StopPreview, Operated, stateVars
    <2>3. owner["switch"] = "app" => adapter = "LOADED_PREVIEW"
      BY <2>1 DEF Switching, Locked
    <2> QED
      BY <2>1, <2>2, <2>3 DEF Switching, Inside, None
  <1> QED
    BY <1>o, <1>1, <1>2, <1>3, <1>4, <1>5, OperatedSwitch
       DEF SendCommand, Query, Fault, UseBuffersCapture, TakePicture,
           StopImageCapture, AutoFocus, StartVideoCapture, StopVideoCapture,
           StartSmoothZoom, StopSmoothZoom

\* Every step keeps mStateSwitchLock with its states.
LEMMA SwitchStep == TypeOK /\ Control /\ Switching /\ [Next]_vars => Switching'
  <1> SUFFICES ASSUME TypeOK, Control, Switching, [Next]_vars PROVE Switching'
    OBVIOUS
  <1> USE Names DEF stateVars, lowVars, halVars, flagVars
  <1>a. /\ pc \in [Threads -> Pcs] /\ back \in [Threads -> Pcs]
        /\ cmd \in [Threads -> Commands \cup {None}] /\ ok \in [Threads -> BOOLEAN]
        /\ owner \in [Locks -> Threads \cup {None}]
    BY DEF TypeOK, ThreadTypes, AdapterTypes
  <1>1. CASE StartPreviewCall
    BY <1>1, <1>a
       DEF StartPreviewCall, Switching, Locked, Unlocked, Inside, Goto, Send,
           Return, Begin, Ready, At, Take, Release, Free, None
  <1>2. CASE StopPreviewCall
    BY <1>2, <1>a
       DEF StopPreviewCall, Switching, Locked, Unlocked, Inside, Goto, Send,
           Return, Begin, Ready, At, Take, Release, Free, None
  <1>3. CASE RestartPreviewCall
    BY <1>3, <1>a
       DEF RestartPreviewCall, Switching, Locked, Unlocked, Inside, Goto,
           Send, Return, Begin, Ready, At, Take, Release, Free, None
  <1>4. CASE TakePictureCall
    BY <1>4, <1>a
       DEF TakePictureCall, Switching, Locked, Unlocked, Inside, Goto, Send,
           Return, Begin, Ready, At, Take, Release, Free, None
  <1>5. CASE CancelPictureCall
    BY <1>5, <1>a
       DEF CancelPictureCall, Switching, Locked, Unlocked, Inside, Goto, Send,
           Return, Begin, Ready, At, Take, Release, Free, None
  <1>6. CASE StartRecordingCall
    BY <1>6, <1>a
       DEF StartRecordingCall, Switching, Locked, Unlocked, Inside, Goto,
           Send, Return, Begin, Ready, At, Take, Release, Free, None
  <1>7. CASE StopRecordingCall
    BY <1>7, <1>a
       DEF StopRecordingCall, Switching, Locked, Unlocked, Inside, Goto, Send,
           Return, Begin, Ready, At, Take, Release, Free, None
  <1>8. CASE AutoFocusCall
    BY <1>8, <1>a
       DEF AutoFocusCall, Switching, Locked, Unlocked, Inside, Goto, Send,
           Return, Begin, Ready, At, Take, Release, Free, None
  <1>9. CASE CancelAutoFocusCall
    BY <1>9, <1>a
       DEF CancelAutoFocusCall, Switching, Locked, Unlocked, Inside, Goto,
           Send, Return, Begin, Ready, At, Take, Release, Free, None
  <1>10. CASE ZoomCall
    BY <1>10, <1>a
       DEF ZoomCall, Switching, Locked, Unlocked, Inside, Goto, Send, Return,
           Begin, Ready, At, Take, Release, Free, None
  <1>11. CASE GetParametersCall
    BY <1>11, <1>a
       DEF GetParametersCall, Switching, Locked, Unlocked, Inside, Goto, Send,
           Return, Begin, Ready, At, Take, Release, Free, None
  <1>12. CASE PreviewInitialization
    BY <1>12, <1>a
       DEF PreviewInitialization, Switching, Locked, Unlocked, Inside, Goto,
           Send, Return, Begin, Ready, At, Take, Release, Free, None
  <1>13. CASE AllocPreviewBufs
    BY <1>13, <1>a
       DEF AllocPreviewBufs, Switching, Locked, Unlocked, Inside, Goto, Send,
           Return, Begin, Ready, At, Take, Release, Free, None
  <1>14. CASE StartNotifier
    BY <1>14, <1>a
       DEF StartNotifier, Switching, Locked, Unlocked, Inside, Goto, Send,
           Return, Begin, Ready, At, Take, Release, Free, None
  <1>15. CASE PreviewStarted
    BY <1>15, <1>a
       DEF PreviewStarted, Switching, Locked, Unlocked, Inside, Goto, Send,
           Return, Begin, Ready, At, Take, Release, Free, None
  <1>16. CASE PreviewFailed
    BY <1>16, <1>a
       DEF PreviewFailed, Switching, Locked, Unlocked, Inside, Goto, Send,
           Return, Begin, Ready, At, Take, Release, Free, None
  <1>17. CASE RollbackRead
    BY <1>17, <1>a, RollbackCommands
       DEF RollbackRead, Switching, Locked, Unlocked, Inside, Goto, Send,
           Return, Begin, Ready, At, Take, Release, Free, None
  <1>18. CASE RollbackSent
    BY <1>18, <1>a
       DEF RollbackSent, Switching, Locked, Unlocked, Inside, Goto, Send,
           Return, Begin, Ready, At, Take, Release, Free, None
  <1>19. CASE FreePreviewBufs
    BY <1>19, <1>a
       DEF FreePreviewBufs, Switching, Locked, Unlocked, Inside, Goto, Send,
           Return, Begin, Ready, At, Take, Release, Free, None
  <1>20. CASE CancelAutoFocus
    BY <1>20, <1>a
       DEF CancelAutoFocus, Switching, Locked, Unlocked, Inside, Goto, Send,
           Return, Begin, Ready, At, Take, Release, Free, None
  <1>21. CASE CancelAutoFocusDone
    BY <1>21, <1>a
       DEF CancelAutoFocusDone, Switching, Locked, Unlocked, Inside, Goto,
           Send, Return, Begin, Ready, At, Take, Release, Free, None
  <1>22. CASE TakePictureLock
    BY <1>22, <1>a
       DEF TakePictureLock, Switching, Locked, Unlocked, Inside, Goto, Send,
           Return, Begin, Ready, At, Take, Release, Free, None
  <1>23. CASE TakePictureBegin
    BY <1>23, <1>a
       DEF TakePictureBegin, Switching, Locked, Unlocked, Inside, Goto, Send,
           Return, Begin, Ready, At, Take, Release, Free, None
  <1>24. CASE TakePictureNext
    BY <1>24, <1>a
       DEF TakePictureNext, Switching, Locked, Unlocked, Inside, Goto, Send,
           Return, Begin, Ready, At, Take, Release, Free, None
  <1>25. CASE HalDone
    BY <1>25, <1>a
       DEF HalDone, Switching, Locked, Unlocked, Inside, Goto, Send, Return,
           Begin, Ready, At, Take, Release, Free, None
  <1>26. CASE RecordingStarted
    BY <1>26, <1>a
       DEF RecordingStarted, Switching, Locked, Unlocked, Inside, Goto, Send,
           Return, Begin, Ready, At, Take, Release, Free, None
  <1>27. CASE StopRecordingLock
    BY <1>27, <1>a
       DEF StopRecordingLock, Switching, Locked, Unlocked, Inside, Goto, Send,
           Return, Begin, Ready, At, Take, Release, Free, None
  <1>28. CASE StopRecordingBegin
    BY <1>28, <1>a
       DEF StopRecordingBegin, Switching, Locked, Unlocked, Inside, Goto,
           Send, Return, Begin, Ready, At, Take, Release, Free, None
  <1>29. CASE StopRecordingNext
    BY <1>29, <1>a
       DEF StopRecordingNext, Switching, Locked, Unlocked, Inside, Goto, Send,
           Return, Begin, Ready, At, Take, Release, Free, None
  <1>30. CASE AutoFocusBegin
    BY <1>30, <1>a
       DEF AutoFocusBegin, Switching, Locked, Unlocked, Inside, Goto, Send,
           Return, Begin, Ready, At, Take, Release, Free, None
  <1>31. CASE AppDone
    BY <1>31, <1>a
       DEF AppDone, Switching, Locked, Unlocked, Inside, Goto, Send, Return,
           Begin, Ready, At, Take, Release, Free, None
  <1>32. ASSUME NEW t \in {"app", "ret"}, SignalEndImageCapture(t) \/ SignalEndDone(t)
        PROVE Switching'
    BY <1>32, <1>a DEF SignalEndImageCapture, SignalEndDone, Switching, Locked,
       Unlocked, Inside, Send, Return, Take, Release, Free, Threads
  <1>33. ASSUME NEW t \in {"app", "omx"}, ZoomDone(t) PROVE Switching'
    BY <1>33, <1>a DEF ZoomDone, Switching, Locked, Unlocked, Inside, Return, Release
  <1>51. CASE EnableDisplay
    BY <1>51, <1>a
       DEF EnableDisplay, Switching, Locked, Unlocked, Inside, Goto, Send,
           Return, Begin, Ready, At, Take, Release, Free, None
  <1>52. CASE SetParametersLock
    BY <1>52, <1>a
       DEF SetParametersLock, Switching, Locked, Unlocked, Inside, Goto, Send,
           Return, Begin, Ready, At, Take, Release, Free, None
  <1>53. CASE SetParametersUpdate
    BY <1>53, <1>a
       DEF SetParametersUpdate, Switching, Locked, Unlocked, Inside, Goto, Send,
           Return, Begin, Ready, At, Take, Release, Free, None
  <1>54. CASE RestartLock
    BY <1>54, <1>a
       DEF RestartLock, Switching, Locked, Unlocked, Inside, Goto, Send,
           Return, Begin, Ready, At, Take, Release, Free, None
  <1>55. CASE RestartParameters
    BY <1>55, <1>a
       DEF RestartParameters, Switching, Locked, Unlocked, Inside, Goto, Send,
           Return, Begin, Ready, At, Take, Release, Free, None
  <1>56. CASE CancelAutoFocusLock
    BY <1>56, <1>a
       DEF CancelAutoFocusLock, Switching, Locked, Unlocked, Inside, Goto, Send,
           Return, Begin, Ready, At, Take, Release, Free, None
  <1>34. CASE NewCall
    BY <1>34, <1>1, <1>2, <1>3, <1>4, <1>5, <1>6, <1>7, <1>8, <1>9, <1>10, <1>11
       DEF NewCall
  <1>35. CASE App
    BY <1>35, SendSwitch, <1>12, <1>13, <1>14, <1>15, <1>16, <1>17, <1>18,
       <1>19, <1>20, <1>21, <1>22, <1>23, <1>24, <1>25, <1>26, <1>27, <1>28,
       <1>29, <1>30, <1>31, <1>32, <1>33,
       <1>51, <1>52, <1>53, <1>54, <1>55, <1>56 DEF App
  <1>36. CASE Cmd
    <2>1. ASSUME Handler \/ StartImageCapture \/ CaptureCancelled \/
                 QueueBurst \/ DoAutoFocus \/ ReturnFocusStatus
          PROVE SameSwitch
      BY <1>a, <2>1 DEF SameSwitch, Goto, Send, Take, Release, Handler,
         StartImageCapture, CaptureCancelled, QueueBurst, DoAutoFocus,
         ReturnFocusStatus
    <2> QED
      BY <1>36, <2>1, SameSwitchKeeps, SendSwitch DEF Cmd
  <1>37. CASE Ret
    <2>1. ASSUME FillThisBuffer \/ FillThisImage PROVE SameSwitch
      BY <1>a, <2>1 DEF SameSwitch, Goto, Send, Take, Release, FillThisBuffer,
         FillThisImage
    <2> QED
      BY <1>37, <2>1, SameSwitchKeeps, SendSwitch, <1>32 DEF Ret
  <1>38. CASE Omx
    <2>1. ASSUME ImageDone \/ CountImage \/ AdvanceZoom PROVE SameSwitch
      BY <1>a, <2>1 DEF SameSwitch, Goto, Send, Release, ImageDone, CountImage,
         AdvanceZoom
    <2> QED
      BY <1>38, <2>1, SameSwitchKeeps, SendSwitch, <1>33 DEF Omx
  <1>39. CASE UNCHANGED vars
    BY <1>39, SameSwitchKeeps DEF vars, SameSwitch
  <1> QED
    BY <1>34, <1>35, <1>36, <1>37, <1>38, <1>39 DEF Next

\* All locks are free initially.
LEMMA LocksInit == Init => Locking /\ Switching
  BY Names DEF Init, Locking, Switching, Place, Inside, Threads, None

\* In a set of threads that wait for each other and in which neither inversion
\* occurs, nobody waits for the callback thread to be idle: it would wait for
\* mLock with mZoomLock held.
LEMMA NoFlushWait ==
  ASSUME TypeOK, Control, Locking, NEW S \in SUBSET Threads, Cycle(S),
         ~ZoomInversion(S), NEW t \in S
  PROVE  ~(Stopping(t) /\ ~Flushed)
  <1> SUFFICES ASSUME Stopping(t), ~Flushed PROVE FALSE
    OBVIOUS
  <1>1. "omx" \in S
    BY DEF Cycle, Awaits
  <1>2. ~Stopping("omx")
    BY Names DEF Control, Below, Stopping, None
  <1>3. Wants("omx") # None
    BY <1>1, <1>2 DEF Cycle, Awaits, Threads, None
  <1>4. pc["omx"] # "img.count"
    BY <1>2, <1>3 DEF Wants, None
  <1>5. Place("omx") = "zoom.done"
    BY <1>4, Names DEF Locking, Flushed
  <1>6. owner["zoom"] = "omx" /\ pc["omx"] # "op"
    BY <1>5, Names DEF Locking
  <1>7. pc["omx"] \in {"set", "finish", "zoom.done"}
    BY <1>5, <1>6 DEF Place, Inside
  <1>8. Wants("omx") \in {"mLock", None}
    BY <1>2, <1>7 DEF Wants
  <1> QED
    BY <1>1, <1>3, <1>6, <1>8 DEF ZoomInversion

\* So each of them waits for a lock that another one holds; ...
LEMMA LockWait ==
  ASSUME TypeOK, Control, Locking, NEW S \in SUBSET Threads, Cycle(S),
         ~ZoomInversion(S), NEW t \in S
  PROVE  Wants(t) # None /\ owner[Wants(t)] \in S
  <1>1. Awaits(t) \in S /\ Awaits(t) # None
    BY DEF Cycle, Threads, None
  <1> QED
    BY <1>1, NoFlushWait DEF Awaits

\* ... nobody waits for a lock taken inside an operation, ...
LEMMA NoInnerWait ==
  ASSUME TypeOK, Control, Locking, Switching, NEW S \in SUBSET Threads, Cycle(S),
         ~CaptureInversion(S), ~ZoomInversion(S), NEW t \in S
  PROVE  Wants(t) \notin {"img", "zoom", "switch"}
  <1>1. owner[Wants(t)] \in S
    BY LockWait
  <1>2. CASE Wants(t) = "img"
    BY <1>1, <1>2 DEF Locking, CaptureInversion
  <1>3. CASE Wants(t) = "zoom"
    <2>1. PICK u \in S : u = owner["zoom"]
      BY <1>1, <1>3
    <2>2. Place(u) = "zoom.done" /\ pc[u] # "op"
      BY <2>1 DEF Locking
    <2>3. pc[u] \in {"set", "finish", "zoom.done"}
      BY <2>2 DEF Place, Inside
    <2>4. Wants(u) \in {"mLock", None}
      BY <2>3 DEF Wants, Stopping
    <2>5. Wants(u) # None
      BY LockWait
    <2> QED
      BY <2>1, <2>4, <2>5 DEF ZoomInversion
  <1>4. CASE Wants(t) = "switch"
    <2>1. /\ pc[t] = "op"
          /\ cmd[t] = "USE_PREVIEW" \/ (cmd[t] = "STOP_PREVIEW" /\ adapter # "LOADED_PREVIEW")
      BY <1>4 DEF Wants, Stopping, None
    <2>2. t = "app"
      BY <2>1 DEF Control, Below, None
    <2>3. owner["switch"] # "app"
      BY <2>1, <2>2 DEF Switching, Locked, Inside
    <2> QED
      BY <1>1, <1>4, <2>3 DEF Switching, None, Threads
  <1> QED
    BY <1>2, <1>3, <1>4

\* ... so nobody waits for mLock, whose holder would have to wait inside its
\* operation, ...
LEMMA NoStateWait ==
  ASSUME TypeOK, Control, Locking, Switching, NEW S \in SUBSET Threads, Cycle(S),
         ~CaptureInversion(S), ~ZoomInversion(S), NEW t \in S
  PROVE  Wants(t) # "mLock"
  <1> SUFFICES ASSUME Wants(t) = "mLock" PROVE FALSE
    OBVIOUS
  <1>1. PICK u \in S : u = owner["mLock"]
    BY LockWait
  <1>2. pc[u] \in {"op", "finish"}
    BY <1>1 DEF Control, Held, InCommand
  <1>3. Wants(u) \in {"img", "zoom", "switch", None}
    BY <1>2 DEF Wants
  <1>4. Wants(u) # None
    BY LockWait
  <1> QED
    BY <1>3, <1>4, NoInnerWait

\* ... so nobody waits for CameraHal's lock, whose holder would have to wait in
\* a command or for mZoomLock, ...
LEMMA NoHalWait ==
  ASSUME TypeOK, Control, Locking, Switching, NEW S \in SUBSET Threads, Cycle(S),
         ~CaptureInversion(S), ~ZoomInversion(S), NEW t \in S
  PROVE  Wants(t) # "hal"
  <1> SUFFICES ASSUME Wants(t) = "hal" PROVE FALSE
    OBVIOUS
  <1>1. PICK u \in S : u = owner["hal"]
    BY LockWait
  <1>2. pc[u] \in Inside \cup UnderHal
    BY <1>1 DEF Locking, Place
  <1>3. Wants(u) \in {"mLock", "img", "zoom", "switch", None}
    BY <1>2 DEF Wants, Inside, UnderHal
  <1>4. Wants(u) # None
    BY LockWait
  <1> QED
    BY <1>3, <1>4, NoInnerWait, NoStateWait

\* ... and so nobody waits for mBurstLock, whose holder waits for one of these.
LEMMA NoBurstWait ==
  ASSUME TypeOK, Control, Locking, Switching, NEW S \in SUBSET Threads, Cycle(S),
         ~CaptureInversion(S), ~ZoomInversion(S), NEW t \in S
  PROVE  Wants(t) # "burst"
  <1> SUFFICES ASSUME Wants(t) = "burst" PROVE FALSE
    OBVIOUS
  <1>1. PICK u \in S : u = owner["burst"]
    BY LockWait
  <1>2. pc[u] \in Inside \cup {"end.lock", "end.done"}
    BY <1>1 DEF Locking, Place
  <1>3. Wants(u) \in {"hal", "mLock", "img", "zoom", "switch", None}
    BY <1>2 DEF Wants, Inside
  <1>4. Wants(u) # None
    BY LockWait
  <1> QED
    BY <1>3, <1>4, NoInnerWait, NoStateWait, NoHalWait

\* Whatever the threads interleave and whichever operations fail, they can wait
\* for each other in a circle only where the CommandHandler waits under
\* mImageCaptureLock or a thread waits for mLock under mZoomLock: every other
\* wait follows the order mBurstLock, CameraHal's mLock, the adapter's mLock, the
\* locks of the operations, and stopPreview finds the callback thread idle or
\* about to be.
THEOREM DeadlocksKnown == Spec => []OnlyKnownCycles
  <1>1. Spec => [](TypeOK /\ Control /\ Locking /\ Switching)
    BY LocksInit, LockingStep, SwitchStep, Controlled, PTL DEF Spec
  <1>2. TypeOK /\ Control /\ Locking /\ Switching => OnlyKnownCycles
    <2> SUFFICES ASSUME TypeOK, Control, Locking, Switching,
                        NEW S \in SUBSET Threads, Cycle(S),
                        ~CaptureInversion(S), ~ZoomInversion(S)
                 PROVE  FALSE
      BY DEF OnlyKnownCycles
    <2>1. PICK t : t \in S
      BY DEF Cycle
    <2>2. Wants(t) \in {"mLock", "hal", "img", "burst", "zoom", "switch", None}
      BY DEF Wants
    <2>3. Wants(t) # None
      BY <2>1, LockWait
    <2> QED
      BY <2>1, <2>2, <2>3, NoInnerWait, NoStateWait, NoHalWait, NoBurstWait
  <1> QED
    BY <1>1, <1>2, PTL

=============================================================================
