--------------------------- MODULE CameraControl ---------------------------
(***************************************************************************)
(* The control path of the camera HAL: the calls CameraHal accepts, the    *)
(* adapter's state machine they drive through sendCommand, and the threads *)
(* that drive the same machine from below.                                 *)
(*                                                                         *)
(*   "app"  the framework's thread: one HAL call at a time                 *)
(*   "cmd"  the adapter's CommandHandler: starts captures and auto focus   *)
(*   "ret"  the consumer that gives captured frames back                   *)
(*   "omx"  the OMX callback thread: image frames and smooth zoom          *)
(*                                                                         *)
(* setState takes the adapter's mLock and keeps it until commitState or    *)
(* rollbackState; the operation between them takes further locks.  A       *)
(* thread's pc says where it is; "set", "op" and "finish" are the three    *)
(* parts of sendCommand, and back[t] is where it goes on afterwards.       *)
(*                                                                         *)
(* Left out: bracketing, raw capture and reprocessing, starting the        *)
(* preview before a window is set, a setParameters that restarts nothing,  *)
(* and closing the camera.  A fatal error (performCleanupAfterError) makes *)
(* the component dead; the application, told CAMERA_ERROR_HARD, then makes *)
(* no further call.  A failed assertion ends the process: "aborted".       *)
(***************************************************************************)
EXTENDS AdapterState, Integers, Sequences, FiniteSets

CONSTANTS
  BurstFrames,  \* frames of one capture (mBurstFrames)
  ImageBufs,    \* buffers of the image port
  Word,         \* number of values of size_t; 2^32 in the build
  Calls,        \* bound: the HAL calls the application makes
  MaxMsgs,      \* bound: the application waits while this many messages queue
  MaxFaults     \* bound: operations that fail or time out

ASSUME CameraAssumption ==
  /\ BurstFrames \in Nat \ {0} /\ ImageBufs \in Nat \ {0}
  /\ Word \in Nat /\ MaxMsgs \in Nat /\ MaxFaults \in Nat
  /\ BurstFrames * (MaxMsgs + 1) < Word

VARIABLES
  adapter, next,     \* mAdapterState, mNextState
  fresh,             \* history: no command has been sent yet
  owner,             \* who holds each lock
  pc, cmd, back, ok, \* per thread: position, command, continuation, result
  call,              \* the HAL call the application is in
  previewEnabled, displayPaused, recordingEnabled,  \* flags of CameraHal
  previewBufs,       \* CameraHal has the preview buffers allocated
  gaveUp,            \* history: a rollback stopped short of INIT
  recording,         \* mRecording of the adapter
  configured,        \* mCaptureConfigured
  captured,          \* mCapturedFrames
  accum, queued,     \* mBurstFramesAccum, mBurstFramesQueued
  imgs,              \* image buffers: with Ducati, with a consumer, being given
                     \* back, and DONE without an owner
  zoom,              \* smooth zoom: "there", "moving" or "stopping"
  msgs,              \* the CommandHandler's queue
  dead,              \* the component is OMX_StateInvalid
  faults             \* faults so far

halVars   == <<call, previewEnabled, displayPaused, recordingEnabled,
               previewBufs, gaveUp>>
imageVars == <<captured, accum, queued, imgs>>
omxVars   == <<recording, configured, captured, accum, queued, imgs, zoom,
               msgs, dead>>
stateVars == <<adapter, next, fresh>>
vars      == <<stateVars, owner, pc, cmd, back, ok, halVars, omxVars, faults>>

Threads == {"app", "cmd", "ret", "omx"}
Locks   == {"mLock", "hal", "img", "burst", "zoom", "switch"}
None    == "none"
UseBuffers == {"USE_PREVIEW", "USE_DATA", "USE_IMG", "USE_VIDEO_CAPTURE"}

Free(l) == owner[l] = None
NoImages == [ducati |-> 0, consumer |-> 0, filling |-> 0, lost |-> 0]

\* Thread t goes to p; nothing else of the threads changes.
Goto(t, p) == /\ pc' = [pc EXCEPT ![t] = p]
              /\ UNCHANGED <<cmd, back, ok>>

\* Thread t calls sendCommand(c) and goes on at k when it returns.
Send(t, c, k) == /\ pc'   = [pc EXCEPT ![t] = "set"]
                 /\ cmd'  = [cmd EXCEPT ![t] = c]
                 /\ back' = [back EXCEPT ![t] = k]
                 /\ ok'   = [ok EXCEPT ![t] = TRUE]

\* One more of the operations fails.
Fails == faults < MaxFaults /\ faults' = faults + 1

\* advanceZoom, getParameters and returnFocusStatus change the state without
\* running the operation: they call setState and commitState themselves.
Bare(t) == t = "cmd" \/ back[t] = "zoom.done"

-----------------------------------------------------------------------------
(* BaseCameraAdapter::sendCommand.                                         *)

\* Mutant: CAMERA_STOP_IMAGE_CAPTURE is accepted in LOADED_CAPTURE too.
SetStateStopsLoaded(t) ==
  LET more == Table \cup {<<"LOADED_CAPTURE", "STOP_IMG", "PREVIEW">>}
      rows == {row \in more : row[1] = adapter /\ row[2] = cmd[t]}
  IN /\ pc[t] = "set"
     /\ Free("mLock")
     /\ owner' = [owner EXCEPT !["mLock"] = t]
     /\ next' \in IF rows = {} THEN {next} ELSE {row[3] : row \in rows}
     /\ ok' = [ok EXCEPT ![t] = rows # {}]
     /\ pc' = [pc EXCEPT ![t] = IF ~Bare(t) /\ (rows # {} \/ cmd[t] \in UseBuffers)
                                THEN "op" ELSE "finish"]
     /\ UNCHANGED <<adapter, fresh, cmd, back, halVars, omxVars, faults>>

\* setState: takes mLock and consults the table.  A refused command goes
\* straight to the rollback, except that the buffers of a refused
\* CAMERA_USE_BUFFERS_* are used all the same.
SetState(t) ==
  LET rows == {row \in Table : row[1] = adapter /\ row[2] = cmd[t]}
      accepted == rows # {}
  IN /\ pc[t] = "set"
     /\ Free("mLock")
     /\ owner' = [owner EXCEPT !["mLock"] = t]
     /\ IF accepted THEN \E row \in rows : next' = row[3]
                    ELSE UNCHANGED next
     /\ ok' = [ok EXCEPT ![t] = accepted]
     /\ pc' = [pc EXCEPT ![t] = IF ~Bare(t) /\ (accepted \/ cmd[t] \in UseBuffers)
                                THEN "op" ELSE "finish"]
     /\ UNCHANGED <<adapter, fresh, cmd, back, halVars, omxVars, faults>>

\* Mutant: a rolled back transition stays in mNextState.
FinishKeepsNext(t) ==
  /\ pc[t] = "finish"
  /\ adapter' = IF ok[t] THEN next ELSE adapter
  /\ fresh' = FALSE
  /\ owner' = [owner EXCEPT !["mLock"] = None]
  /\ pc'   = [pc EXCEPT ![t] = back[t]]
  /\ cmd'  = [cmd EXCEPT ![t] = None]
  /\ back' = [back EXCEPT ![t] = "idle"]
  /\ UNCHANGED <<next, ok, halVars, omxVars, faults>>

\* commitState or rollbackState, and the return from sendCommand.
Finish(t) ==
  /\ pc[t] = "finish"
  /\ IF ok[t] THEN adapter' = next /\ UNCHANGED next
              ELSE next' = adapter /\ UNCHANGED adapter
  /\ fresh' = FALSE
  /\ owner' = [owner EXCEPT !["mLock"] = None]
  /\ pc'   = [pc EXCEPT ![t] = back[t]]
  /\ cmd'  = [cmd EXCEPT ![t] = None]
  /\ back' = [back EXCEPT ![t] = "idle"]
  /\ UNCHANGED <<ok, halVars, omxVars, faults>>

\* The operation of the accepted command c ends with result r.
Operated(t, c, r) ==
  /\ pc[t] = "op" /\ cmd[t] = c
  /\ pc' = [pc EXCEPT ![t] = "finish"]
  /\ ok' = [ok EXCEPT ![t] = r]
  /\ UNCHANGED <<stateVars, cmd, back, halVars>>

\* Mutant: cancelAutoFocus waits for doAutoFocus to end.
QueryWaitsForFocus(t) ==
  /\ \/ \E c \in {"QUERY_RES", "QUERY_IMG"} : Operated(t, c, TRUE)
     \/ Operated(t, "CANCEL_AF", TRUE) /\ pc["cmd"] = "idle"
  /\ UNCHANGED <<owner, omxVars, faults>>

\* An operation that only asks the component something.
Query(t) ==
  /\ \E c \in {"QUERY_RES", "QUERY_IMG", "CANCEL_AF"} : Operated(t, c, TRUE)
  /\ UNCHANGED <<owner, omxVars, faults>>

\* An operation that fails and changes nothing: a query, a message or a focus
\* request that is refused, or the early return of one that also has failures
\* that end the component (see below).  A dead component may fail them all.
\* In LOADED_PREVIEW stopPreview cannot fail.
Fault(t) ==
  /\ Fails \/ (dead /\ UNCHANGED faults)
  /\ \/ \E c \in {"QUERY_RES", "QUERY_IMG", "USE_PREVIEW", "USE_IMG", "START_IMG",
                  "AF", "CANCEL_AF"} : Operated(t, c, FALSE)
     \/ adapter # "LOADED_PREVIEW" /\ Operated(t, "STOP_PREVIEW", FALSE)
  /\ UNCHANGED <<owner, omxVars>>

\* UseBuffersPreview leaves mStateSwitchLock locked when it succeeds; an error
\* after it has locked it unlocks it and ends the component.
UseBuffersPreview(t) ==
  /\ Free("switch")
  /\ UNCHANGED <<recording, configured, imageVars, zoom, msgs>>
  /\ \/ /\ Operated(t, "USE_PREVIEW", TRUE)
        /\ owner' = [owner EXCEPT !["switch"] = t]
        /\ UNCHANGED <<dead, faults>>
     \/ /\ Fails
        /\ Operated(t, "USE_PREVIEW", FALSE)
        /\ dead' = TRUE
        /\ UNCHANGED owner

\* startPreview releases it; an error ends the component and unlocks too.
StartPreview(t) ==
  /\ owner' = [owner EXCEPT !["switch"] = None]
  /\ UNCHANGED <<recording, configured, imageVars, zoom, msgs>>
  /\ \/ Operated(t, "START_PREVIEW", TRUE) /\ UNCHANGED <<dead, faults>>
     \/ Fails /\ Operated(t, "START_PREVIEW", FALSE) /\ dead' = TRUE

\* OMXCallbackHandler::flush waits until the callback thread has nothing to do.
Flushed == pc["omx"] = "idle"

\* switchToLoaded holds mStateSwitchLock for as long as it runs.
SwitchToLoaded == Free("switch")

\* Mutant: mStateSwitchLock stays locked.
StopPreviewKeepsLock(t) ==
  /\ Operated(t, "STOP_PREVIEW", TRUE)
  /\ adapter # "LOADED_PREVIEW" => Flushed /\ SwitchToLoaded
  /\ IF adapter = "LOADED_PREVIEW"
     THEN UNCHANGED <<configured, imgs>>
     ELSE configured' = FALSE /\ imgs' = [imgs EXCEPT !.ducati = 0]
  /\ UNCHANGED <<owner, recording, captured, accum, queued, zoom, msgs, dead,
                 faults>>

\* stopPreview.  In LOADED_PREVIEW only mStateSwitchLock is unlocked;
\* otherwise disableImagePort takes the image buffers from Ducati, flushBuffers
\* waits for the callback thread and switchToLoaded unloads the component.  A
\* failure of the first two is returned and one of the state switches
\* ignored; either ends the component.
StopPreview(t) ==
  /\ UNCHANGED <<recording, captured, accum, queued, zoom, msgs>>
  /\ \/ /\ adapter = "LOADED_PREVIEW"
        /\ Operated(t, "STOP_PREVIEW", TRUE)
        /\ owner' = [owner EXCEPT !["switch"] = None]
        /\ UNCHANGED <<configured, imgs, dead, faults>>
     \/ /\ adapter # "LOADED_PREVIEW"
        /\ configured' = FALSE
        /\ imgs' = [imgs EXCEPT !.ducati = 0]
        /\ UNCHANGED owner
        /\ \E r \in BOOLEAN :
             /\ Operated(t, "STOP_PREVIEW", r)
             /\ r => Flushed /\ SwitchToLoaded
             /\ \/ r /\ UNCHANGED <<dead, faults>>
                \/ Fails /\ dead' = TRUE

\* UseBuffersCapture registers new buffers, all idle, when the port is not
\* configured or a capture setting is pending (whether one is, is left open);
\* otherwise it keeps the old ones.  When only the EXIF data fails the port
\* stays configured.  A setting that is refused leaves it disabled, and an
\* error behind that ends the component.
UseBuffersCapture(t) ==
  /\ UNCHANGED <<owner, recording, captured, accum, queued, zoom, msgs>>
  /\ \/ /\ configured' = TRUE
        /\ imgs' = NoImages \/ (configured /\ UNCHANGED imgs)
        /\ UNCHANGED dead
        /\ \/ Operated(t, "USE_IMG", TRUE) /\ UNCHANGED faults
           \/ Fails /\ Operated(t, "USE_IMG", FALSE)
     \/ /\ Fails /\ Operated(t, "USE_IMG", FALSE)
        /\ configured' = FALSE
        /\ imgs' = [imgs EXCEPT !.ducati = 0]
        /\ dead' \in {dead, TRUE}

\* takePicture and autoFocus post a message to the CommandHandler.
TakePicture(t) ==
  /\ Operated(t, "START_IMG", TRUE)
  /\ msgs' = Append(msgs, "capture")
  /\ UNCHANGED <<owner, recording, configured, imageVars, zoom, dead, faults>>

AutoFocus(t) ==
  /\ Operated(t, "AF", TRUE)
  /\ msgs' = Append(msgs, "focus")
  /\ UNCHANGED <<owner, recording, configured, imageVars, zoom, dead, faults>>

\* stopImageCapture runs under mImageCaptureLock, which it takes while mLock
\* is held.  When the component refuses to stop it is ended.
StopImageCapture(t) ==
  /\ Free("img")
  /\ UNCHANGED <<owner, recording, configured, imgs, zoom, msgs>>
  /\ \/ /\ Operated(t, "STOP_IMG", TRUE)
        /\ IF configured THEN captured' = 0 /\ accum' = 0 /\ queued' = 0
                         ELSE UNCHANGED <<captured, accum, queued>>
        /\ UNCHANGED <<dead, faults>>
     \/ /\ configured /\ Fails
        /\ Operated(t, "STOP_IMG", FALSE)
        /\ dead' = TRUE
        /\ UNCHANGED <<captured, accum, queued>>

\* Mutant: mRecording is not cleared.
StopVideoCaptureKeepsFlag(t) ==
  /\ Operated(t, "STOP_VIDEO", recording)
  /\ UNCHANGED <<recording, owner, configured, imageVars, zoom, msgs, dead, faults>>

\* startVideoCapture and stopVideoCapture.
StartVideoCapture(t) ==
  /\ Operated(t, "START_VIDEO", ~recording)
  /\ recording' = TRUE
  /\ UNCHANGED <<owner, configured, imageVars, zoom, msgs, dead, faults>>

StopVideoCapture(t) ==
  /\ Operated(t, "STOP_VIDEO", recording)
  /\ recording' = FALSE
  /\ UNCHANGED <<owner, configured, imageVars, zoom, msgs, dead, faults>>

\* startSmoothZoom and stopSmoothZoom run under mZoomLock, taken while mLock
\* is held.  A target out of range fails.
StartSmoothZoom(t) ==
  /\ Free("zoom")
  /\ \/ Operated(t, "START_ZOOM", TRUE) /\ zoom' \in {"there", "moving"}
     \/ Operated(t, "START_ZOOM", FALSE) /\ UNCHANGED zoom
  /\ UNCHANGED <<owner, recording, configured, imageVars, msgs, dead, faults>>

StopSmoothZoom(t) ==
  /\ Free("zoom")
  /\ Operated(t, "STOP_ZOOM", TRUE)
  /\ zoom' = IF zoom = "there" THEN "there" ELSE "stopping"
  /\ UNCHANGED <<owner, recording, configured, imageVars, msgs, dead, faults>>

SendCommand(t) ==
  \/ SetState(t) \/ Finish(t) \/ Query(t) \/ Fault(t)
  \/ UseBuffersPreview(t) \/ StartPreview(t) \/ StopPreview(t)
  \/ UseBuffersCapture(t) \/ TakePicture(t) \/ StopImageCapture(t)
  \/ AutoFocus(t) \/ StartVideoCapture(t) \/ StopVideoCapture(t)
  \/ StartSmoothZoom(t) \/ StopSmoothZoom(t)

-----------------------------------------------------------------------------
(* CameraHal: the application's calls.                                     *)

\* The application starts HAL call c at p.
Ready(c) == pc["app"] = "idle" /\ ~dead /\ c \in Calls
Begin(c, p) == Ready(c) /\ call' = c /\ Goto("app", p)

\* The thread's work is done: it is idle again.
Return(t) == /\ pc' = [pc EXCEPT ![t] = "idle"]
             /\ ok' = [ok EXCEPT ![t] = TRUE]
             /\ call' = IF t = "app" THEN None ELSE call
             /\ UNCHANGED <<cmd, back>>

Take(l, t)   == Free(l) /\ owner' = [owner EXCEPT ![l] = t]
Release(l)   == owner' = [owner EXCEPT ![l] = None]
At(p)        == pc["app"] = p
Running      == ~At("aborted")
flagVars     == <<previewEnabled, displayPaused, recordingEnabled>>
lowVars      == <<stateVars, omxVars, faults>>

\* OMXCameraAdapter::setParameters needs mZoomLock for a moment.  The zoom it
\* applies at once moves the current and the target index together, so that
\* it leaves the smooth zoom as it is.
SetParameters == Free("zoom")

\* startPreview, also the second half of restartPreview.
StartPreviewCall ==
  /\ Begin("startPreview", "sp.begin")
  /\ UNCHANGED <<lowVars, owner, flagVars, previewBufs, gaveUp>>

\* cameraPreviewInitialization: nothing to do, or give the adapter its
\* parameters and either resume the paused display and end the capture, or
\* ask for the frame size.
PreviewInitialization ==
  /\ At("sp.begin")
  /\ UNCHANGED <<lowVars, owner, recordingEnabled, previewBufs, gaveUp>>
  /\ \/ /\ previewEnabled
        /\ Return("app")
        /\ UNCHANGED <<previewEnabled, displayPaused>>
     \/ /\ ~previewEnabled /\ displayPaused
        /\ SetParameters
        /\ displayPaused' = FALSE /\ previewEnabled' = TRUE
        /\ Goto("app", "end.lock") /\ UNCHANGED call
     \/ /\ ~previewEnabled /\ ~displayPaused
        /\ SetParameters
        /\ Send("app", "QUERY_RES", "sp.query")
        /\ UNCHANGED <<call, previewEnabled, displayPaused>>

\* The frame size is known: allocate the buffers and hand them over.
AllocPreviewBufs ==
  /\ At("sp.query")
  /\ UNCHANGED <<stateVars, omxVars, owner, flagVars, gaveUp>>
  /\ \/ /\ ok["app"]
        /\ previewBufs' = TRUE
        /\ Send("app", "USE_PREVIEW", "sp.use")
        /\ UNCHANGED <<call, faults>>
     \/ /\ ok["app"] /\ Fails
        /\ Send("app", "STOP_PREVIEW", "sp.fail")
        /\ UNCHANGED <<call, previewBufs>>
     \/ ~ok["app"] /\ Return("app") /\ UNCHANGED <<previewBufs, faults>>

\* The adapter has the buffers: start the notifier.
StartNotifier ==
  /\ At("sp.use")
  /\ UNCHANGED <<stateVars, omxVars, owner, flagVars, gaveUp>>
  /\ \/ /\ ok["app"]
        /\ Goto("app", "sp.display")
        /\ UNCHANGED <<call, previewBufs, faults>>
     \/ /\ ok["app"] /\ Fails
        /\ previewBufs' = FALSE
        /\ Send("app", "STOP_PREVIEW", "sp.fail")
        /\ UNCHANGED call
     \/ ~ok["app"] /\ previewBufs' = FALSE /\ Return("app") /\ UNCHANGED faults

\* Enable the display and start.  When the display cannot be enabled an
\* assertion ends the process, because mStateSwitchLock is still locked.
EnableDisplay ==
  /\ At("sp.display")
  /\ UNCHANGED <<stateVars, omxVars, owner, halVars>>
  /\ \/ Send("app", "START_PREVIEW", "sp.start") /\ UNCHANGED faults
     \/ Fails /\ Goto("app", "aborted")

\* The preview runs.  setParameters pauses it again when it was paused before
\* the restart, and startRecording goes on.
PreviewStarted ==
  /\ At("sp.start")
  /\ UNCHANGED <<lowVars, owner, recordingEnabled, gaveUp>>
  /\ \/ /\ ok["app"]
        /\ previewEnabled' = (call # "restartPaused")
        /\ displayPaused'  = (call = "restartPaused")
        /\ UNCHANGED previewBufs
        /\ IF call = "startRecording"
           THEN Send("app", "START_VIDEO", "rec.done") /\ UNCHANGED call
           ELSE Return("app")
     \/ /\ ~ok["app"]
        /\ previewBufs' = FALSE
        /\ Send("app", "STOP_PREVIEW", "sp.fail")
        /\ UNCHANGED <<call, previewEnabled, displayPaused>>

PreviewFailed ==
  /\ At("sp.fail")
  /\ previewEnabled' = FALSE
  /\ Return("app")
  /\ UNCHANGED <<lowVars, owner, displayPaused, recordingEnabled, previewBufs,
                 gaveUp>>

\* Mutant: the preview is not stopped first.
StopPreviewCallNoRollback ==
  /\ (previewEnabled \/ displayPaused) /\ ~recordingEnabled
  /\ Begin("stopPreview", "rb.end")
  /\ UNCHANGED <<lowVars, owner, flagVars, previewBufs, gaveUp>>

\* stopPreview: a paused preview whose capture is over is left alone.
StopPreviewCall ==
  /\ Free("mLock")
  /\ (previewEnabled \/ displayPaused) /\ ~recordingEnabled
  /\ displayPaused => next # "PREVIEW"
  /\ Begin("stopPreview", "rb.read")
  /\ UNCHANGED <<lowVars, owner, flagVars, previewBufs, gaveUp>>

\* setParameters with a parameter that needs the preview restarted, and
\* startRecording when the capture mode changes.
RestartPreviewCall ==
  /\ ~recordingEnabled
  /\ \/ previewEnabled /\ Begin("restart", "pm.lock")
     \/ ~previewEnabled /\ displayPaused /\ Begin("restartPaused", "pm.lock")
     \/ previewEnabled /\ Begin("startRecording", "pm.lock")
  /\ UNCHANGED <<lowVars, owner, flagVars, previewBufs, gaveUp>>

\* Both take the HAL's lock to note what they change.  Without a running
\* preview setParameters may pass it on to the adapter under that lock.
SetParametersLock ==
  /\ At("pm.lock")
  /\ Free("hal")
  /\ \/ UNCHANGED owner /\ Goto("app", "rb.read")
     \/ call = "restartPaused" /\ Take("hal", "app") /\ Goto("app", "pm.zoom")
  /\ UNCHANGED <<lowVars, halVars>>

SetParametersUpdate ==
  /\ At("pm.zoom")
  /\ SetParameters
  /\ Release("hal")
  /\ Goto("app", "rb.read")
  /\ UNCHANGED <<lowVars, halVars>>

\* rollbackToInitializedState: read the state, undo it, read again.
RollbackRead ==
  /\ At("rb.read")
  /\ Free("mLock")
  /\ UNCHANGED <<lowVars, owner, call, flagVars, previewBufs>>
  /\ \/ adapter = "INIT" /\ Goto("app", "rb.end") /\ UNCHANGED gaveUp
     \/ /\ adapter \in DOMAIN RollbackCommand
        /\ Send("app", RollbackCommand[adapter], "rb.sent")
        /\ UNCHANGED gaveUp
     \/ /\ adapter \notin DOMAIN RollbackCommand \cup {"INIT"}
        /\ gaveUp' = TRUE
        /\ Goto("app", "rb.end")

RollbackSent ==
  /\ At("rb.sent")
  /\ gaveUp' = (gaveUp \/ ~ok["app"])
  /\ Goto("app", IF ok["app"] THEN "rb.read" ELSE "rb.end")
  /\ UNCHANGED <<lowVars, owner, call, flagVars, previewBufs>>

\* Mutant: the paused flag is not cleared.
FreePreviewBufsPaused ==
  /\ At("rb.end")
  /\ previewBufs' = FALSE
  /\ previewEnabled' = FALSE
  /\ IF call = "stopPreview" THEN Return("app")
                             ELSE Goto("app", "rs.lock") /\ UNCHANGED call
  /\ UNCHANGED <<lowVars, owner, displayPaused, recordingEnabled, gaveUp>>

\* The rest of forceStopPreview, whatever the rollback achieved.
FreePreviewBufs ==
  /\ At("rb.end")
  /\ previewBufs' = FALSE
  /\ previewEnabled' = FALSE /\ displayPaused' = FALSE
  /\ IF call = "stopPreview" THEN Return("app")
                             ELSE Goto("app", "rs.lock") /\ UNCHANGED call
  /\ UNCHANGED <<lowVars, owner, recordingEnabled, gaveUp>>

\* restartPreview gives the adapter the parameters, under the HAL's lock,
\* before it starts the preview again.
RestartLock ==
  /\ At("rs.lock")
  /\ Take("hal", "app")
  /\ Goto("app", "rs.zoom")
  /\ UNCHANGED <<lowVars, halVars>>

RestartParameters ==
  /\ At("rs.zoom")
  /\ SetParameters
  /\ Release("hal")
  /\ Goto("app", "sp.begin")
  /\ UNCHANGED <<lowVars, halVars>>

\* takePicture cancels a running auto focus first, without the HAL's lock.
TakePictureCall ==
  /\ Len(msgs) < MaxMsgs
  /\ Free("mLock")
  /\ Begin("takePicture",
           IF adapter \in {"AF", "VIDEO_AF"} THEN "caf.lock" ELSE "tp.lock")
  /\ UNCHANGED <<lowVars, owner, flagVars, previewBufs, gaveUp>>

CancelAutoFocusCall ==
  /\ Begin("cancelAutoFocus", "caf.lock")
  /\ UNCHANGED <<lowVars, owner, flagVars, previewBufs, gaveUp>>

CancelAutoFocusLock ==
  /\ At("caf.lock")
  /\ Take("hal", "app")
  /\ Goto("app", "caf.zoom")
  /\ UNCHANGED <<lowVars, halVars>>

CancelAutoFocus ==
  /\ At("caf.zoom")
  /\ SetParameters
  /\ Send("app", "CANCEL_AF", "caf.done")
  /\ UNCHANGED <<lowVars, owner, halVars>>

CancelAutoFocusDone ==
  /\ At("caf.done")
  /\ Release("hal")
  /\ IF call = "takePicture" THEN Goto("app", "tp.lock") /\ UNCHANGED call
                             ELSE Return("app")
  /\ UNCHANGED <<lowVars, flagVars, previewBufs, gaveUp>>

TakePictureLock ==
  /\ At("tp.lock")
  /\ Take("hal", "app")
  /\ Goto("app", "tp.begin")
  /\ UNCHANGED <<lowVars, halVars>>

\* __takePicture refuses while a capture runs or without a preview, and in
\* VIDEO when the capture mode is not a video mode; otherwise it pauses the
\* display unless it records.
TakePictureBegin ==
  /\ At("tp.begin")
  /\ Free("mLock")
  /\ UNCHANGED <<lowVars, recordingEnabled, previewBufs, gaveUp>>
  /\ \/ /\ \/ ~previewEnabled /\ ~displayPaused
           \/ adapter \in {"CAPTURE", "VIDEO_CAPTURE", "VIDEO"}
        /\ Release("hal") /\ Return("app")
        /\ UNCHANGED <<previewEnabled, displayPaused>>
     \/ /\ previewEnabled \/ displayPaused
        /\ adapter \notin {"CAPTURE", "VIDEO_CAPTURE"}
        /\ IF adapter \in {"VIDEO", "VIDEO_AF"}
           THEN UNCHANGED <<previewEnabled, displayPaused>>
           ELSE displayPaused' = TRUE /\ previewEnabled' = FALSE
        /\ Send("app", "QUERY_IMG", "tp.query")
        /\ UNCHANGED <<owner, call>>

\* The rest stops at the first failure.
TakePictureNext ==
  /\ UNCHANGED <<lowVars, flagVars, previewBufs, gaveUp>>
  /\ \/ /\ At("tp.query") /\ ok["app"]
        /\ Send("app", "USE_IMG", "tp.use") /\ UNCHANGED <<owner, call>>
     \/ /\ At("tp.use") /\ ok["app"]
        /\ Send("app", "START_IMG", "hal.done") /\ UNCHANGED <<owner, call>>
     \/ /\ At("tp.query") \/ At("tp.use")
        /\ ~ok["app"]
        /\ Release("hal") /\ Return("app")

\* Leaving a call that ran under the HAL's lock.
HalDone ==
  /\ At("hal.done")
  /\ Release("hal") /\ Return("app")
  /\ UNCHANGED <<lowVars, flagVars, previewBufs, gaveUp>>

CancelPictureCall ==
  /\ Begin("cancelPicture", "end.lock")
  /\ UNCHANGED <<lowVars, owner, flagVars, previewBufs, gaveUp>>

\* signalEndImageCapture, called by the application and, through
\* mEndImageCaptureCallback, by the thread that returns the last frame.
SignalEndImageCapture(t) ==
  /\ pc[t] = "end.lock"
  /\ Take("hal", t)
  /\ Send(t, "STOP_IMG", "end.done")
  /\ UNCHANGED <<lowVars, halVars>>

SignalEndDone(t) ==
  /\ pc[t] = "end.done"
  /\ Return(t)
  /\ IF t = "ret"
     THEN /\ owner' = [owner EXCEPT !["hal"] = None, !["burst"] = None]
          /\ imgs' = [imgs EXCEPT !.filling = 0]
     ELSE Release("hal") /\ UNCHANGED imgs
  /\ UNCHANGED <<stateVars, flagVars, previewBufs, gaveUp, recording, configured,
                 captured, accum, queued, zoom, msgs, dead, faults>>

StartRecordingCall ==
  /\ Ready("startRecording")
  /\ previewEnabled
  /\ call' = "startRecording"
  /\ Send("app", "START_VIDEO", "rec.done")
  /\ UNCHANGED <<lowVars, owner, flagVars, previewBufs, gaveUp>>

RecordingStarted ==
  /\ At("rec.done")
  /\ recordingEnabled' = (recordingEnabled \/ ok["app"])
  /\ Return("app")
  /\ UNCHANGED <<lowVars, owner, previewEnabled, displayPaused, previewBufs,
                 gaveUp>>

StopRecordingCall ==
  /\ recordingEnabled
  /\ Begin("stopRecording", "sr.lock")
  /\ UNCHANGED <<lowVars, owner, flagVars, previewBufs, gaveUp>>

StopRecordingLock ==
  /\ At("sr.lock")
  /\ Take("hal", "app")
  /\ Goto("app", "sr.begin")
  /\ UNCHANGED <<lowVars, halVars>>

StopRecordingBegin ==
  /\ At("sr.begin")
  /\ Free("mLock")
  /\ IF adapter = "VIDEO_CAPTURE" THEN Send("app", "STOP_IMG", "sr.img")
                                  ELSE Send("app", "STOP_VIDEO", "sr.done")
  /\ UNCHANGED <<lowVars, owner, halVars>>

\* The results of both commands are ignored.
StopRecordingNext ==
  /\ UNCHANGED <<lowVars, previewEnabled, displayPaused, previewBufs, gaveUp>>
  /\ \/ /\ At("sr.img")
        /\ Send("app", "STOP_VIDEO", "sr.done")
        /\ UNCHANGED <<owner, call, recordingEnabled>>
     \/ /\ At("sr.done")
        /\ recordingEnabled' = FALSE
        /\ Release("hal") /\ Return("app")

AutoFocusCall ==
  /\ Len(msgs) < MaxMsgs
  /\ Begin("autoFocus", "af.lock")
  /\ UNCHANGED <<lowVars, owner, flagVars, previewBufs, gaveUp>>

\* autoFocus reads the state without mLock and ignores a second request.
AutoFocusBegin ==
  /\ At("af.lock")
  /\ Free("hal")
  /\ UNCHANGED <<lowVars, flagVars, previewBufs, gaveUp>>
  /\ IF adapter \in {"AF", "VIDEO_AF"}
     THEN UNCHANGED owner /\ Return("app")
     ELSE /\ Take("hal", "app")
          /\ Send("app", "AF", "hal.done")
          /\ UNCHANGED call

\* CameraHal::sendCommand(START/STOP_SMOOTH_ZOOM).
ZoomCall ==
  /\ Ready("zoom")
  /\ previewEnabled
  /\ call' = "zoom"
  /\ \E c \in {"START_ZOOM", "STOP_ZOOM"} : Send("app", c, "app.done")
  /\ UNCHANGED <<lowVars, owner, flagVars, previewBufs, gaveUp>>

AppDone ==
  /\ At("app.done")
  /\ Return("app")
  /\ UNCHANGED <<lowVars, owner, flagVars, previewBufs, gaveUp>>

\* getParameters ends a smooth zoom that has reached its target.
GetParametersCall ==
  /\ Ready("getParameters")
  /\ adapter \in ZOOM_ACTIVE /\ zoom = "there"
  /\ Take("zoom", "app")
  /\ call' = "getParameters"
  /\ Send("app", "STOP_ZOOM", "zoom.done")
  /\ UNCHANGED <<lowVars, flagVars, previewBufs, gaveUp>>

ZoomDone(t) ==
  /\ pc[t] = "zoom.done"
  /\ Release("zoom") /\ Return(t)
  /\ UNCHANGED <<lowVars, flagVars, previewBufs, gaveUp>>

NewCall ==
  \/ StartPreviewCall \/ StopPreviewCall \/ RestartPreviewCall
  \/ TakePictureCall \/ CancelPictureCall \/ StartRecordingCall
  \/ StopRecordingCall \/ AutoFocusCall \/ CancelAutoFocusCall
  \/ ZoomCall \/ GetParametersCall

App ==
  \/ SendCommand("app")
  \/ PreviewInitialization \/ AllocPreviewBufs \/ StartNotifier \/ EnableDisplay
  \/ PreviewStarted \/ PreviewFailed \/ SetParametersLock \/ SetParametersUpdate
  \/ RollbackRead \/ RollbackSent \/ FreePreviewBufs
  \/ RestartLock \/ RestartParameters
  \/ CancelAutoFocusLock \/ CancelAutoFocus \/ CancelAutoFocusDone
  \/ TakePictureLock \/ TakePictureBegin \/ TakePictureNext \/ HalDone
  \/ SignalEndImageCapture("app") \/ SignalEndDone("app")
  \/ RecordingStarted \/ StopRecordingLock \/ StopRecordingBegin
  \/ StopRecordingNext \/ AutoFocusBegin \/ AppDone \/ ZoomDone("app")

-----------------------------------------------------------------------------
(* The CommandHandler's thread.                                            *)

Handler ==
  /\ pc["cmd"] = "idle" /\ msgs # <<>>
  /\ msgs' = Tail(msgs)
  /\ Goto("cmd", IF Head(msgs) = "capture" THEN "cap.lock" ELSE "foc.read")
  /\ UNCHANGED <<stateVars, owner, halVars, recording, configured, imageVars,
                 zoom, dead, faults>>

\* startImageCapture takes mImageCaptureLock ...
StartImageCapture ==
  /\ pc["cmd"] = "cap.lock"
  /\ Free("img")
  /\ IF configured THEN Take("img", "cmd") /\ Goto("cmd", "cap.next")
                   ELSE UNCHANGED owner /\ Goto("cmd", "idle")
  /\ UNCHANGED <<lowVars, halVars>>

\* ... asks for the next state through the getter that takes mLock ...
CaptureCancelled ==
  /\ pc["cmd"] = "cap.next"
  /\ Free("mLock")
  /\ IF next \in CAPTURE_ACTIVE THEN UNCHANGED owner /\ Goto("cmd", "cap.burst")
                                ELSE Release("img") /\ Goto("cmd", "idle")
  /\ UNCHANGED <<lowVars, halVars>>

\* ... and queues the idle buffers under mBurstLock.
QueueBurst ==
  LET used == imgs.ducati + imgs.consumer + imgs.filling + imgs.lost
      idle == IF used < ImageBufs THEN ImageBufs - used ELSE 0
      want == accum + BurstFrames - queued
      n    == IF want < 0 THEN 0 ELSE IF want < idle THEN want ELSE idle
  IN /\ pc["cmd"] = "cap.burst"
     /\ Free("burst")
     /\ captured' = (captured + BurstFrames) % Word
     /\ accum' = accum + BurstFrames
     /\ queued' = queued + n
     /\ imgs' = [imgs EXCEPT !.ducati = @ + n]
     /\ Release("img") /\ Goto("cmd", "idle")
     /\ UNCHANGED <<stateVars, halVars, recording, configured, zoom, msgs, dead,
                    faults>>

\* doAutoFocus gives up when the focus was cancelled meanwhile.
DoAutoFocus ==
  /\ pc["cmd"] = "foc.read"
  /\ Free("mLock")
  /\ Goto("cmd", IF adapter \in AF_ACTIVE THEN "foc.wait" ELSE "idle")
  /\ UNCHANGED <<lowVars, owner, halVars>>

\* The scan ended, was cancelled or timed out.  returnFocusStatus reads both
\* states without mLock; a status "off" or an error while starting the scan
\* leaves the state alone.
ReturnFocusStatus ==
  /\ pc["cmd"] = "foc.wait"
  /\ \/ /\ adapter \in AF_ACTIVE \/ next \in AF_ACTIVE
        /\ Send("cmd", "CANCEL_AF", "idle")
     \/ Goto("cmd", "idle")
  /\ UNCHANGED <<lowVars, owner, halVars>>

Cmd == /\ Running
       /\ \/ SendCommand("cmd") \/ Handler \/ StartImageCapture
          \/ CaptureCancelled \/ QueueBurst \/ DoAutoFocus \/ ReturnFocusStatus

-----------------------------------------------------------------------------
(* The consumer's thread: fillThisBuffer for an image frame.               *)

FillThisBuffer ==
  /\ pc["ret"] = "idle" /\ imgs.consumer > 0
  /\ UNCHANGED <<stateVars, owner, halVars, recording, configured, captured,
                 accum, queued, zoom, msgs, dead, faults>>
  /\ IF adapter \in PREVIEW_ACTIVE
     THEN /\ Goto("ret", "fill.lock")
          /\ imgs' = [imgs EXCEPT !.consumer = @ - 1, !.filling = 1]
     ELSE /\ Goto("ret", "idle")
          /\ imgs' = [imgs EXCEPT !.consumer = @ - 1, !.lost = @ + 1]

\* Mutant: the last frame does not end the capture.
FillThisImageNoEnd ==
  /\ pc["ret"] = "fill.lock"
  /\ Free("burst")
  /\ Goto("ret", "idle")
  /\ IF queued >= accum
     THEN imgs' = [imgs EXCEPT !.filling = 0] /\ UNCHANGED queued
     ELSE /\ imgs' = [imgs EXCEPT !.filling = 0, !.ducati = @ + 1]
          /\ queued' = queued + 1
  /\ UNCHANGED <<stateVars, owner, halVars, recording, configured, captured, accum,
                 zoom, msgs, dead, faults>>

\* Under mBurstLock: the frame after the last one ends the capture, with the
\* lock still held; otherwise the buffer stays idle or is queued again.
FillThisImage ==
  /\ pc["ret"] = "fill.lock"
  /\ Free("burst")
  /\ UNCHANGED <<stateVars, halVars, recording, configured, captured, accum, zoom,
                 msgs, dead, faults>>
  /\ IF captured < 1
     THEN /\ Take("burst", "ret") /\ Goto("ret", "end.lock")
          /\ UNCHANGED <<queued, imgs>>
     ELSE /\ UNCHANGED owner /\ Goto("ret", "idle")
          /\ IF queued >= accum
             THEN /\ imgs' = [imgs EXCEPT !.filling = 0]
                  /\ UNCHANGED queued
             ELSE /\ imgs' = [imgs EXCEPT !.filling = 0, !.ducati = @ + 1]
                  /\ queued' = queued + 1

Ret == /\ Running
       /\ \/ SendCommand("ret") \/ FillThisBuffer \/ FillThisImage
          \/ SignalEndImageCapture("ret") \/ SignalEndDone("ret")

-----------------------------------------------------------------------------
(* The OMX callback thread.                                                *)

\* OMXCameraAdapterFillBufferDone on the image port.  The state is read
\* without mLock and mCapturedFrames without mBurstLock; an unwanted frame is
\* dropped and its buffer stays DONE.
ImageDone ==
  LET wanted == adapter \in CAPTURE_ACTIVE /\ captured >= 1
  IN /\ pc["omx"] = "idle" /\ imgs.ducati > 0
     /\ imgs' = IF wanted THEN [imgs EXCEPT !.ducati = @ - 1]
                ELSE [imgs EXCEPT !.ducati = @ - 1, !.lost = @ + 1]
     /\ Goto("omx", IF wanted THEN "img.count" ELSE "idle")
     /\ UNCHANGED <<stateVars, owner, halVars, recording, configured, captured,
                    accum, queued, zoom, msgs, dead, faults>>

\* Mutant: the counter is signed.
CountImageSigned ==
  /\ pc["omx"] = "img.count"
  /\ captured' = captured - 1
  /\ imgs' = [imgs EXCEPT !.consumer = @ + 1]
  /\ Goto("omx", "idle")
  /\ UNCHANGED <<stateVars, owner, halVars, recording, configured, accum, queued,
                 zoom, msgs, dead, faults>>

\* mCapturedFrames-- wraps around when stopImageCapture has cleared it.
CountImage ==
  /\ pc["omx"] = "img.count"
  /\ captured' = (captured - 1) % Word
  /\ imgs' = [imgs EXCEPT !.consumer = @ + 1]
  /\ Goto("omx", "idle")
  /\ UNCHANGED <<stateVars, owner, halVars, recording, configured, accum, queued,
                 zoom, msgs, dead, faults>>

\* advanceZoom, once per preview frame and under mZoomLock.
AdvanceZoom ==
  /\ pc["omx"] = "idle" /\ Free("zoom")
  /\ adapter \in PREVIEW_ACTIVE
  /\ UNCHANGED <<stateVars, halVars, recording, configured, imageVars, msgs, dead,
                 faults>>
  /\ \/ /\ zoom = "stopping" \/ (zoom = "moving" /\ adapter \notin ZOOM_ACTIVE)
        /\ zoom' = "there"
        /\ UNCHANGED <<owner, pc, cmd, back, ok>>
     \/ /\ zoom # "stopping" /\ adapter \in ZOOM_ACTIVE
        /\ zoom' = "there"
        /\ owner' = [owner EXCEPT !["zoom"] = "omx"]
        /\ Send("omx", "STOP_ZOOM", "zoom.done")

Omx == /\ Running
       /\ \/ SendCommand("omx") \/ ImageDone \/ CountImage \/ AdvanceZoom
          \/ ZoomDone("omx")

-----------------------------------------------------------------------------
\* The constructor leaves mNextState unassigned.
Init ==
  /\ adapter = "INIT" /\ next \in States /\ fresh = TRUE
  /\ owner = [l \in Locks |-> None]
  /\ pc = [t \in Threads |-> "idle"]
  /\ cmd = [t \in Threads |-> None]
  /\ back = [t \in Threads |-> "idle"]
  /\ ok = [t \in Threads |-> TRUE]
  /\ call = None
  /\ previewEnabled = FALSE /\ displayPaused = FALSE /\ recordingEnabled = FALSE
  /\ previewBufs = FALSE /\ gaveUp = FALSE
  /\ recording = FALSE /\ configured = FALSE
  /\ captured = 0 /\ accum = 0 /\ queued = 0
  /\ imgs = NoImages
  /\ zoom = "there" /\ msgs = <<>> /\ dead = FALSE /\ faults = 0

Next == NewCall \/ App \/ Cmd \/ Ret \/ Omx

Spec == Init /\ [][Next]_vars

\* Every thread that can take a step again and again eventually does: a
\* mutex that is released again and again is eventually acquired by the
\* thread waiting for it.  The application is free to make no further call.
Fairness == SF_vars(App) /\ SF_vars(Cmd) /\ SF_vars(Ret) /\ SF_vars(Omx)
LiveSpec == Spec /\ Fairness

-----------------------------------------------------------------------------
(* Properties.                                                             *)

Pcs == {"idle", "set", "op", "finish", "sp.begin", "sp.query", "sp.use",
        "sp.display", "aborted", "sp.start", "sp.fail", "pm.lock", "pm.zoom",
        "rb.read", "rb.sent", "rb.end", "rs.lock", "rs.zoom", "caf.lock",
        "caf.zoom", "caf.done", "tp.lock", "tp.begin", "tp.query", "tp.use", "hal.done",
        "end.lock", "end.done", "rec.done", "sr.lock", "sr.begin", "sr.img",
        "sr.done", "af.lock", "app.done", "zoom.done", "cap.lock", "cap.next",
        "cap.burst", "foc.read", "foc.wait", "fill.lock", "img.count"}

\* Types of the state of the threads, of CameraHal and of the adapter.
ThreadTypes ==
  /\ pc \in [Threads -> Pcs] /\ back \in [Threads -> Pcs]
  /\ cmd \in [Threads -> Commands \cup {None}]
  /\ ok \in [Threads -> BOOLEAN]

HalTypes ==
  /\ call \in Calls \cup {None}
  /\ previewEnabled \in BOOLEAN /\ displayPaused \in BOOLEAN
  /\ recordingEnabled \in BOOLEAN /\ previewBufs \in BOOLEAN
  /\ gaveUp \in BOOLEAN

AdapterTypes ==
  /\ adapter \in States /\ next \in States
  /\ owner \in [Locks -> Threads \cup {None}]
  /\ fresh \in BOOLEAN /\ dead \in BOOLEAN
  /\ recording \in BOOLEAN /\ configured \in BOOLEAN
  /\ zoom \in {"there", "moving", "stopping"}
  /\ msgs \in Seq({"capture", "focus"})
  /\ faults \in 0..MaxFaults

ImageTypes ==
  /\ captured \in 0..(Word - 1) /\ accum \in Nat /\ queued \in Nat
  /\ imgs \in [ducati : Nat, consumer : Nat, filling : Nat, lost : Nat]

\* Every variable has its type; the counters in particular never leave the
\* range of the integers that hold them, although they race.
TypeOK == ThreadTypes /\ HalTypes /\ AdapterTypes /\ ImageTypes

\* Whenever no command is under way the next state agrees with the state, so
\* a getter that takes mLock never sees a transition that was rolled back.
NextInStep == Free("mLock") /\ ~fresh => next = adapter

\* Whatever the threads interleave, the adapter's state only moves along one
\* row of setState's table.
AlongTable == [][adapter' # adapter =>
                   \E row \in Table : row[1] = adapter /\ row[3] = adapter']_vars

\* The adapter records exactly in the states that say so, once the command
\* that changes either has returned.
RecordingInStep == Free("mLock") => (recording <=> adapter \in VIDEO_ACTIVE)

\* Between two calls of the application CameraHal's flags tell the truth
\* about the adapter: an enabled or paused preview is running and has its
\* buffers, and an enabled recording records.
FlagsTrue ==
  pc["app"] = "idle" =>
    /\ previewEnabled \/ displayPaused => adapter \in PREVIEW_ACTIVE /\ previewBufs
    /\ recordingEnabled => adapter \in VIDEO_ACTIVE

\* The preview runs on buffers that CameraHal has freed only after
\* rollbackToInitializedState has stopped short.
PreviewHasBuffers ==
  adapter \in PREVIEW_ACTIVE => previewBufs \/ gaveUp

\* What rollbackToInitializedState is documented to do: it brings the adapter
\* back to its initial state.
RollbackCompletes == ~gaveUp

\* Thread t stops a running preview.
Stopping(t) == pc[t] = "op" /\ cmd[t] = "STOP_PREVIEW" /\ adapter # "LOADED_PREVIEW"

\* The lock thread t is waiting for.
Wants(t) ==
  CASE pc[t] \in {"set", "rb.read", "tp.begin", "sr.begin", "cap.next", "foc.read"}
         -> "mLock"
    [] pc[t] \in {"pm.lock", "rs.lock", "caf.lock", "tp.lock", "end.lock", "sr.lock",
                  "af.lock"} -> "hal"
    [] pc[t] = "cap.lock" \/ (pc[t] = "op" /\ cmd[t] = "STOP_IMG") -> "img"
    [] pc[t] \in {"cap.burst", "fill.lock"} -> "burst"
    [] \/ pc[t] \in {"pm.zoom", "rs.zoom", "caf.zoom"}
       \/ pc[t] = "sp.begin" /\ ~previewEnabled
       \/ pc[t] = "op" /\ cmd[t] \in {"START_ZOOM", "STOP_ZOOM"} -> "zoom"
    [] (pc[t] = "op" /\ cmd[t] = "USE_PREVIEW") \/ Stopping(t) -> "switch"
    [] OTHER -> None

\* The thread t is waiting for: the holder of that lock, or the callback
\* thread that has to be idle before a preview is stopped.
Awaits(t) ==
  IF Stopping(t) /\ ~Flushed THEN "omx"
  ELSE IF Wants(t) = None THEN None ELSE owner[Wants(t)]

\* The threads of S wait for each other.
Cycle(S) == S # {} /\ \A t \in S : Awaits(t) \in S

\* startImageCapture waits with mImageCaptureLock held, or advanceZoom or
\* getParameters with mZoomLock: the two inversions of the lock order.
CaptureInversion(S) == "cmd" \in S /\ owner["img"] = "cmd"
ZoomInversion(S) == \E t \in S : owner["zoom"] = t /\ Wants(t) = "mLock"

\* The threads deadlock in no other way than by these two inversions.  In
\* particular nobody waits for the mStateSwitchLock that UseBuffersPreview left
\* locked, neither in the next UseBuffersPreview nor in stopPreview: every way
\* out of a failed start unlocks it, or ends the process.
OnlyKnownCycles ==
  \A S \in SUBSET Threads : Cycle(S) => CaptureInversion(S) \/ ZoomInversion(S)

Deadlocked == \E S \in SUBSET Threads : Cycle(S)

\* Every call of the application returns, unless the threads deadlock or the
\* process ends.
CallsReturn == pc["app"] # "idle" ~> (pc["app"] = "idle" \/ Deadlocked \/ ~Running)

\* mCapturedFrames wrapped around, or image buffers were lost.
FramesMissing == captured > BurstFrames * (MaxMsgs + 1) \/ imgs.lost > 0

\* A capture ends, by itself if need be, unless frames went missing or the
\* threads deadlock.
CaptureEnds ==
  adapter \in CAPTURE_ACTIVE ~>
    (adapter \notin CAPTURE_ACTIVE \/ FramesMissing \/ Deadlocked)
=============================================================================
