------------------------- MODULE FrameDistribution -------------------------
(***************************************************************************)
(* The way of the preview buffers through the camera HAL during one        *)
(* preview session.  Ducati (the camera processor) fills a buffer; the OMX *)
(* callback thread counts its subscribers and hands it to the display, to  *)
(* the application notifier and, while recording, once more to the         *)
(* notifier as a video frame for the encoder; every one of them gives it   *)
(* back with returnFrame, and the last one refills it.                     *)
(*                                                                         *)
(*   "omx"   the OMX callback thread (FillBufferDone)                      *)
(*   "disp"  the display thread (ANativeWindowDisplayAdapter)              *)
(*   "note"  the notifier thread (AppCallbackNotifier)                     *)
(*   "enc"   the encoder's thread, which releases recording frames         *)
(*   "app"   the HAL call: start and stop recording, preview callbacks,    *)
(*           stop the preview                                              *)
(*                                                                         *)
(* mSubscriberLock is held from the count to the last callback of a frame  *)
(* (omx.pc "preview" and "video").  Left out: snapshot frames, face and    *)
(* measurement data, errors of the window and of OMX_FillThisBuffer, video *)
(* frames without metadata (NULL in notifyFrame), releases of frames whose *)
(* recording has been stopped.                                             *)
(***************************************************************************)
EXTENDS Integers, Sequences, FiniteSets, SequencesExt

CONSTANTS
  Bufs,           \* the preview buffers
  Undequeued,     \* the ones the window keeps (min_undequeued_buffer_count)
  None,           \* no buffer
  Follow          \* bound: whether a session is followed once `astray'

ASSUME FramesAssumption ==
  /\ IsFiniteSet(Bufs) /\ Undequeued \subseteq Bufs /\ None \notin Bufs
  /\ Follow \in BOOLEAN

VARIABLES
  active,     \* the adapter's state has PREVIEW_ACTIVE
  recording,  \* mRecording of the adapter
  count,      \* reference counts, per frame type; -1: not in the map
  psubs,      \* mFrameSubscribers
  vsubs,      \* mVideoSubscribers; also mRecording of the notifier
  pointers,   \* mFrameQueue is not empty
  ducati,     \* buffers Ducati fills
  fbd,        \* FillBufferDone messages for the OMX callback thread
  omx,        \* OMX callback thread: step, its buffer, VIDEO in the mask
  pend,       \* per thread: the buffer it is about to refill
  window,     \* buffers with the native window
  tagged,     \* buffers with an entry in mFramesType
  dispQ,      \* messages in mDisplayQ
  disp,       \* display thread: step and buffer
  dispOn,     \* mDisplayState = DISPLAY_STARTED
  frameQ,     \* mFrameQ of the notifier: <<type, buffer>>
  note,       \* the frame the notifier thread works on
  enc,        \* frames the encoder holds with valid metadata
  encHas,     \* the frame releaseRecordingFrame has looked up
  app,        \* the HAL call: step, and buffers stopVideoCapture has to visit
  astray      \* history: a frame outlived the recording it belongs to, or
              \* the zoom failed after a frame was delivered

adapterVars == <<active, recording, psubs, vsubs, pointers>>
dispVars    == <<window, tagged, dispQ, disp, dispOn>>
noteVars    == <<frameQ, note, enc, encHas>>
vars == <<adapterVars, count, ducati, fbd, omx, pend, dispVars, noteVars,
          app, astray>>

Types   == {"preview", "video"}
Threads == {"omx", "disp", "note", "enc", "app"}
NoFrame == <<"none", None>>
Idle    == [pc |-> "idle", buf |-> None, video |-> FALSE]
AppIdle == [pc |-> "idle", left |-> {}]

(* Just after START_PREVIEW: the queueable buffers are with Ducati, the    *)
(* others with the window, counted once and tagged as preview frames.      *)
Init ==
  /\ active = TRUE /\ recording = FALSE
  /\ count = [preview |-> [b \in Bufs |-> IF b \in Undequeued THEN 1 ELSE 0],
              video   |-> [b \in Bufs |-> -1]]
  /\ psubs \in {{"display"}, {"display", "notifier"}} /\ vsubs = {}
  /\ pointers = TRUE
  /\ ducati = Bufs \ Undequeued /\ fbd = <<>> /\ omx = Idle
  /\ pend = [t \in Threads |-> None]
  /\ window = Undequeued /\ tagged = Undequeued
  /\ dispQ = 0 /\ disp = [pc |-> "idle", buf |-> None] /\ dispOn = TRUE
  /\ frameQ = <<>> /\ note = NoFrame /\ enc = {} /\ encHas = None
  /\ app = AppIdle
  /\ astray = FALSE

-----------------------------------------------------------------------------
(* Giving a frame back: returnFrame and fillThisBuffer.                    *)

(* replaceValueFor: a buffer that is not in the map stays out of it. *)
Replaced(c, b, n) == [c EXCEPT ![b] = IF @ = -1 THEN -1 ELSE n]

\* Mutant: returnFrame does not look at the other frame types.
UnneededOwnType(c, b, type) == c[type][b] = 0

(* Nobody needs the buffer any more: while recording every type counts.    *)
Unneeded(c, b, type) ==
  /\ c[type][b] = 0
  /\ recording => \A y \in Types : c[y][b] <= 0

\* Mutant: returnFrame does not stop at a count of zero.
ReturnFrameUnchecked(t, b, type) ==
  LET c == [count EXCEPT ![type][b] = @ - 1]
  IN  /\ count' = c
      /\ pend' = [pend EXCEPT ![t] = IF Unneeded(c, b, type) THEN b ELSE None]

(* Under mReturnFrameLock; t refills the buffer after it lets go of it.    *)
ReturnFrame(t, b, type) ==
  IF count[type][b] > 0
  THEN LET c == [count EXCEPT ![type][b] = @ - 1]
       IN  /\ count' = c
           /\ pend' = [pend EXCEPT ![t] = IF Unneeded(c, b, type) THEN b
                                          ELSE None]
  ELSE UNCHANGED <<count, pend>>

Ready(t) == pend[t] = None

FillThisBuffer(t) ==
  /\ ~Ready(t)
  /\ ducati' = IF active THEN ducati \cup {pend[t]} ELSE ducati
  /\ pend' = [pend EXCEPT ![t] = None]
  /\ UNCHANGED <<adapterVars, count, fbd, omx, dispVars, noteVars, app>>

-----------------------------------------------------------------------------
(* The camera and the OMX callback thread.                                 *)

(* External: Ducati finishes a frame; the callback only posts a message.   *)
FrameDone(b) ==
  /\ b \in ducati
  /\ ducati' = ducati \ {b}
  /\ fbd' = Append(fbd, b)
  /\ UNCHANGED <<adapterVars, count, omx, pend, dispVars, noteVars, app>>

\* Mutant: a frame is taken only while Ducati has another buffer.
TakeFrameThrottled ==
  /\ Ready("omx") /\ omx.pc = "idle" /\ fbd # <<>> /\ (active => ducati # {})
  /\ fbd' = Tail(fbd)
  /\ omx' = IF active THEN [pc |-> "count", buf |-> Head(fbd),
                            video |-> recording]
            ELSE omx
  /\ UNCHANGED <<adapterVars, count, ducati, pend, dispVars, noteVars, app>>

(* FillBufferDone reads the adapter's state and mRecording, without a lock.*)
TakeFrame ==
  /\ Ready("omx") /\ omx.pc = "idle" /\ fbd # <<>>
  /\ fbd' = Tail(fbd)
  /\ omx' = IF active THEN [pc |-> "count", buf |-> Head(fbd),
                            video |-> recording]
            ELSE omx
  /\ UNCHANGED <<adapterVars, count, ducati, pend, dispVars, noteVars, app>>

\* Mutant: the video count is not initialised with the frame.
SetInitFrameRefCountPreview ==
  /\ Ready("omx") /\ omx.pc = "count"
  /\ count' = [count EXCEPT !.preview = Replaced(@, omx.buf, Cardinality(psubs))]
  /\ omx' = [omx EXCEPT !.pc = "preview"]
  /\ UNCHANGED <<adapterVars, ducati, fbd, pend, dispVars, noteVars, app>>

(* sendCallBacks takes mSubscriberLock and sets the counts of every type.  *)
SetInitFrameRefCount ==
  /\ Ready("omx") /\ omx.pc = "count"
  /\ count' = [count EXCEPT
       !.preview = Replaced(@, omx.buf, Cardinality(psubs)),
       !.video = IF omx.video THEN Replaced(@, omx.buf, Cardinality(vsubs))
                 ELSE @]
  /\ omx' = [omx EXCEPT !.pc = "preview"]
  /\ UNCHANGED <<adapterVars, ducati, fbd, pend, dispVars, noteVars, app>>

Sendable(type, subs) ==
  /\ pointers
  /\ count[type][omx.buf] \in 1..Cardinality(subs)

\* Mutant: PostFrame of a paused display gives no message to the thread.
PostFrameSilent ==
  /\ window' = window \cup {omx.buf}
  /\ tagged' = tagged \cup {omx.buf}
  /\ UNCHANGED dispQ

(* PostFrame: queue or, when paused, cancel the buffer to the window; one  *)
(* message tells the thread that there is a buffer to dequeue.             *)
PostFrame ==
  /\ window' = window \cup {omx.buf}
  /\ tagged' = tagged \cup {omx.buf}
  /\ dispQ' = dispQ + 1

(* After the callbacks FillBufferDone moves the zoom, which touches none   *)
(* of this state; OMX_SetConfig or the state machine may refuse it.        *)
AdvanceZoom ==
  \/ omx' = Idle
  \/ omx' = [pc |-> "zoomError", buf |-> omx.buf, video |-> FALSE]

(* As many subscribers as the count says; an error ends the frame.         *)
SendPreview ==
  /\ Ready("omx") /\ omx.pc = "preview"
  /\ \/ /\ ~Sendable("preview", psubs)
        /\ omx' = [omx EXCEPT !.pc = "error"]
        /\ UNCHANGED <<window, tagged, dispQ, frameQ>>
     \/ /\ Sendable("preview", psubs)
        /\ \E S \in SUBSET psubs :
             /\ Cardinality(S) = count.preview[omx.buf]
             /\ IF "display" \in S THEN PostFrame
                ELSE UNCHANGED <<window, tagged, dispQ>>
             /\ frameQ' = IF "notifier" \in S
                          THEN Append(frameQ, <<"preview", omx.buf>>) ELSE frameQ
        /\ IF omx.video THEN omx' = [omx EXCEPT !.pc = "video"] ELSE AdvanceZoom
  /\ UNCHANGED <<adapterVars, count, ducati, fbd, pend, disp, dispOn, note, enc,
                 encHas, app>>

SendVideo ==
  /\ Ready("omx") /\ omx.pc = "video"
  /\ \/ /\ ~Sendable("video", vsubs)
        /\ omx' = [omx EXCEPT !.pc = "error"]
        /\ UNCHANGED frameQ
     \/ /\ Sendable("video", vsubs)
        /\ frameQ' = Append(frameQ, <<"video", omx.buf>>)
        /\ AdvanceZoom
  /\ UNCHANGED <<adapterVars, count, ducati, fbd, pend, dispVars, note, enc,
                 encHas, app>>

(* The end of FillBufferDone: after an error the frame goes back as a      *)
(* preview frame, also when the error is the zoom's and the subscribers    *)
(* have got the frame.                                                     *)
SendFailed ==
  /\ Ready("omx") /\ omx.pc \in {"error", "zoomError"}
  /\ ReturnFrame("omx", omx.buf, "preview")
  /\ omx' = Idle
  /\ UNCHANGED <<adapterVars, ducati, fbd, dispVars, noteVars, app>>

-----------------------------------------------------------------------------
(* The display thread.                                                     *)

(* displayThread: the HAL's messages go first.                             *)
TakeDisplayMessage ==
  /\ Ready("disp") /\ disp.pc = "idle" /\ dispOn /\ dispQ > 0
  /\ app.pc # "displayStop"
  /\ dispQ' = dispQ - 1
  /\ disp' = [disp EXCEPT !.pc = "dequeue"]
  /\ UNCHANGED <<adapterVars, count, ducati, fbd, omx, pend, window, tagged,
                 dispOn, noteVars, app>>

(* handleFrameReturn: dequeue_buffer waits while the window would have     *)
(* less than its minimum; it may give any of the window's buffers.         *)
DequeueBuffer ==
  /\ disp.pc = "dequeue" /\ Cardinality(window) > Cardinality(Undequeued)
  /\ \E b \in window :
       /\ window' = window \ {b}
       /\ tagged' = tagged \ {b}
       /\ disp' = IF b \in tagged THEN [pc |-> "return", buf |-> b]
                  ELSE [pc |-> "idle", buf |-> None]
  /\ UNCHANGED <<adapterVars, count, ducati, fbd, omx, pend, dispQ, dispOn,
                 noteVars, app>>

DisplayReturn ==
  /\ disp.pc = "return"
  /\ ReturnFrame("disp", disp.buf, "preview")
  /\ disp' = [pc |-> "idle", buf |-> None]
  /\ UNCHANGED <<adapterVars, ducati, fbd, omx, window, tagged, dispQ, dispOn,
                 noteVars, app>>

(* Every buffer the window does not have is cancelled to it.               *)
ReturnBuffersToWindow == window' = Bufs

(* disableDisplay, once the semaphore is signalled; no other thread uses   *)
(* the window any more.                                                    *)
DisableDisplay ==
  /\ ReturnBuffersToWindow
  /\ app' = [app EXCEPT !.pc = "flush"]

\* Mutant: the semaphore of DISPLAY_STOP is not signalled.
DisplayStopSilent ==
  /\ Ready("disp") /\ disp.pc = "idle" /\ dispOn /\ app.pc = "displayStop"
  /\ dispQ' = 0 /\ dispOn' = FALSE
  /\ UNCHANGED <<adapterVars, count, ducati, fbd, omx, pend, window, tagged, disp,
                 noteVars, app>>

(* DISPLAY_STOP: flush mDisplayQ, then wake disableDisplay.                *)
DisplayStop ==
  /\ Ready("disp") /\ disp.pc = "idle" /\ dispOn /\ app.pc = "displayStop"
  /\ dispQ' = 0 /\ dispOn' = FALSE
  /\ DisableDisplay
  /\ UNCHANGED <<adapterVars, count, ducati, fbd, omx, pend, tagged, disp,
                 noteVars>>

-----------------------------------------------------------------------------
(* The notifier thread and the encoder.                                    *)

(* notifyFrame takes the frame under mLock, which the flush holds.         *)
NotifierGet ==
  /\ Ready("note") /\ note = NoFrame /\ frameQ # <<>>
  /\ app.pc # "flush"
  /\ note' = Head(frameQ) /\ frameQ' = Tail(frameQ)
  /\ UNCHANGED <<adapterVars, count, ducati, fbd, omx, pend, dispVars, enc, encHas,
                 app>>

(* notifyFrame.  A preview frame is copied and given back.  A video frame  *)
(* goes back at once if the application has CAMERA_MSG_VIDEO_FRAME off, to *)
(* the encoder if it is on and the notifier still records; on, but after   *)
(* the end of the recording, the frame is just forgotten.                  *)
NotifyFrame ==
  /\ note # NoFrame
  /\ \/ /\ note[1] = "preview"
        /\ ReturnFrame("note", note[2], "preview") /\ UNCHANGED enc
     \/ /\ note[1] = "video"
        /\ ReturnFrame("note", note[2], "video") /\ UNCHANGED enc
     \/ /\ note[1] = "video"
        /\ enc' = IF vsubs # {} THEN enc \cup {note[2]} ELSE enc
        /\ UNCHANGED <<count, pend>>
  /\ note' = NoFrame
  /\ UNCHANGED <<adapterVars, ducati, fbd, omx, dispVars, frameQ, encHas, app>>

(* releaseRecordingFrame finds the buffer of the metadata, then returns it *)
(* without mRecordingLock.                                                 *)
ReleaseLookup(b) ==
  /\ Ready("enc") /\ encHas = None /\ b \in enc
  /\ encHas' = b /\ enc' = enc \ {b}
  /\ UNCHANGED <<adapterVars, count, ducati, fbd, omx, pend, dispVars, frameQ,
                 note, app>>

ReleaseReturn ==
  /\ encHas # None
  /\ ReturnFrame("enc", encHas, "video")
  /\ encHas' = None
  /\ UNCHANGED <<adapterVars, ducati, fbd, omx, dispVars, frameQ, note, enc,
                 app>>

-----------------------------------------------------------------------------
(* The HAL's calls.  hal steps run one after the other in thread "app".    *)

SubscriberLockFree == omx.pc \notin {"preview", "video"}
At(p) == Ready("app") /\ app.pc = p
Goto(p) == app' = [app EXCEPT !.pc = p]
Quiet == UNCHANGED <<ducati, fbd, omx>>

(* The recording flag of CameraHal, derived: between the calls it follows  *)
(* the notifier's.                                                         *)
RecordingEnabled == vsubs # {}

(* CameraHal::startRecording: the notifier subscribes first.               *)
StartRecording ==
  /\ At("idle") /\ active /\ ~RecordingEnabled
  /\ SubscriberLockFree
  /\ vsubs' = {"notifier"}
  /\ Goto("startVideo")
  /\ Quiet /\ UNCHANGED <<active, recording, psubs, pointers, count, pend,
                          dispVars, noteVars>>

StartVideoCapture ==
  /\ At("startVideo")
  /\ count' = [count EXCEPT !.video = [b \in Bufs |-> 0]]
  /\ recording' = TRUE
  /\ Goto("idle")
  /\ Quiet /\ UNCHANGED <<active, psubs, vsubs, pointers, pend, dispVars, noteVars>>

(* CameraHal::stopRecording: the notifier unsubscribes and forgets the     *)
(* metadata of the frames the encoder holds.                               *)
StopRecording ==
  /\ At("idle") /\ RecordingEnabled /\ SubscriberLockFree
  /\ vsubs' = {} /\ enc' = {}
  /\ app' = [pc |-> "stopVideo", left |-> Bufs]
  /\ Quiet /\ UNCHANGED <<active, recording, psubs, pointers, count, pend,
                          dispVars, frameQ, note, encHas>>

(* stopVideoCapture: give back what the encoder still has, buffer by       *)
(* buffer in the order of the map, then clear mRecording, without a lock.  *)
ReturnVideo ==
  /\ At("stopVideo") /\ app.left # {}
  /\ LET b == CHOOSE b \in app.left : TRUE
     IN  /\ ReturnFrame("app", b, "video")
         /\ app' = [app EXCEPT !.left = @ \ {b}]
  /\ Quiet /\ UNCHANGED <<adapterVars, dispVars, noteVars>>

StopVideoCapture ==
  /\ At("stopVideo") /\ app.left = {}
  /\ recording' = FALSE
  /\ Goto("idle")
  /\ Quiet /\ UNCHANGED <<active, psubs, vsubs, pointers, count, pend, dispVars,
                          noteVars>>

(* enableMsgType and disableMsgType of CAMERA_MSG_PREVIEW_FRAME.           *)
TogglePreviewCallbacks ==
  /\ At("idle") /\ active /\ SubscriberLockFree
  /\ psubs' = IF "notifier" \in psubs THEN psubs \ {"notifier"}
              ELSE psubs \cup {"notifier"}
  /\ Quiet /\ UNCHANGED <<active, recording, vsubs, pointers, count, pend,
                          dispVars, noteVars, app>>

(* CameraHal::stopPreview and forceStopPreview: first the display ...      *)
StopPreview ==
  /\ At("idle") /\ active /\ ~RecordingEnabled /\ SubscriberLockFree
  /\ psubs' = psubs \ {"display"}
  /\ Goto("removePointers")
  /\ Quiet /\ UNCHANGED <<active, recording, vsubs, pointers, count, pend,
                          dispVars, noteVars>>

RemoveFramePointers ==
  /\ At("removePointers") /\ SubscriberLockFree
  /\ pointers' = FALSE
  /\ Goto("displayStop")
  /\ Quiet /\ UNCHANGED <<active, recording, psubs, vsubs, count, pend, dispVars,
                          noteVars>>

(* ... then the notifier, whose queued frames go back ...                  *)
FlushFrame ==
  /\ At("flush") /\ frameQ # <<>>
  /\ ReturnFrame("app", Head(frameQ)[2], Head(frameQ)[1])
  /\ frameQ' = Tail(frameQ)
  /\ Quiet /\ UNCHANGED <<adapterVars, dispVars, note, enc, encHas, app>>

StopPreviewCallbacks ==
  /\ At("flush") /\ frameQ = <<>> /\ SubscriberLockFree
  /\ psubs' = {}
  /\ Goto("flushPort")
  /\ Quiet /\ UNCHANGED <<active, recording, vsubs, pointers, count, pend,
                          dispVars, noteVars>>

(* ... and last the adapter: STOP_PREVIEW flushes the port, and only when  *)
(* it is done does the state leave PREVIEW_ACTIVE.                         *)
FlushPort ==
  /\ At("flushPort")
  /\ fbd' = fbd \o SetToSeq(ducati)
  /\ ducati' = {}
  /\ Goto("stopPort")
  /\ UNCHANGED <<adapterVars, count, omx, pend, dispVars, noteVars>>

StopPort ==
  /\ At("stopPort")
  /\ count' = [count EXCEPT !.preview = [b \in Bufs |-> -1]]
  /\ active' = FALSE /\ ducati' = {}
  /\ Goto("stopped")
  /\ UNCHANGED <<recording, psubs, vsubs, pointers, fbd, omx, pend, dispVars,
                 noteVars>>

-----------------------------------------------------------------------------
OmxStep  == FillThisBuffer("omx") \/ TakeFrame \/ SetInitFrameRefCount
            \/ SendPreview \/ SendVideo \/ SendFailed
DispStep == FillThisBuffer("disp") \/ TakeDisplayMessage \/ DequeueBuffer
            \/ DisplayReturn \/ DisplayStop
NoteStep == FillThisBuffer("note") \/ NotifierGet \/ NotifyFrame
EncStep  == \/ FillThisBuffer("enc") \/ ReleaseReturn
            \/ \E b \in Bufs : ReleaseLookup(b)
AppStep  == \/ FillThisBuffer("app")
            \/ StartVideoCapture \/ StopVideoCapture
            \/ ReturnVideo
            \/ RemoveFramePointers \/ FlushFrame
            \/ StopPreviewCallbacks \/ FlushPort \/ StopPort
AppCall  == StartRecording \/ StopRecording \/ TogglePreviewCallbacks
            \/ StopPreview

(* A video frame in the OMX thread's hands while the recording is being    *)
(* stopped, or an old one still around when the next recording starts.     *)
VideoAround ==
  \/ note[1] = "video" \/ encHas # None
  \/ \E i \in DOMAIN frameQ : frameQ[i][1] = "video"
Crossing ==
  \/ app.pc = "stopVideo" /\ omx.pc # "idle" /\ omx.video
  \/ app.pc = "startVideo" /\ VideoAround

(* The returns of a frame and its deliveries part: at a crossing, and when *)
(* a frame that was delivered is given back for an error of the zoom.      *)
Straying == Crossing \/ omx.pc = "zoomError"

Latch == (Follow \/ ~astray) /\ astray' = (astray \/ Straying')

Next ==
  /\ \/ \E b \in Bufs : FrameDone(b)
     \/ OmxStep \/ DispStep \/ NoteStep \/ EncStep \/ AppStep \/ AppCall
  /\ Latch

Spec == Init /\ [][Next]_vars

(* The threads run when they can; Ducati fills what it is given; the       *)
(* encoder releases what it holds; a HAL call, once made, goes on.         *)
LiveSpec ==
  /\ Spec
  /\ WF_vars((\E b \in Bufs : FrameDone(b)) /\ Latch)
  /\ WF_vars(OmxStep /\ Latch) /\ WF_vars(DispStep /\ Latch)
  /\ WF_vars(NoteStep /\ Latch) /\ WF_vars(EncStep /\ Latch)
  /\ SF_vars(AppStep /\ Latch)

-----------------------------------------------------------------------------
(* Properties.                                                             *)

(* Every variable has its type.  In particular returnFrame never lets a    *)
(* reference count fall below zero, where -1 would read as "not mapped".   *)
TypeOK ==
  /\ active \in BOOLEAN /\ recording \in BOOLEAN /\ pointers \in BOOLEAN
  /\ psubs \subseteq {"display", "notifier"} /\ vsubs \subseteq {"notifier"}
  /\ count \in [Types -> [Bufs -> -1..2]]
  /\ ducati \subseteq Bufs /\ fbd \in Seq(Bufs)
  /\ omx \in [pc : {"idle", "count", "preview", "video", "error", "zoomError"},
              buf : Bufs \cup {None}, video : BOOLEAN]
  /\ pend \in [Threads -> Bufs \cup {None}]
  /\ window \subseteq Bufs /\ tagged \subseteq Bufs /\ dispQ \in Nat
  /\ disp \in [pc : {"idle", "dequeue", "return"}, buf : Bufs \cup {None}]
  /\ dispOn \in BOOLEAN
  /\ frameQ \in Seq(Types \X Bufs) /\ note \in (Types \X Bufs) \cup {NoFrame}
  /\ enc \subseteq Bufs /\ encHas \in Bufs \cup {None}
  /\ app \in [pc : {"idle", "startVideo", "stopVideo", "removePointers",
                    "displayStop", "flush", "flushPort", "stopPort",
                    "stopped"}, left : SUBSET Bufs]
  /\ astray \in BOOLEAN

Bit(p) == IF p THEN 1 ELSE 0
Queued(type, b) ==
  Cardinality({i \in DOMAIN frameQ : frameQ[i] = <<type, b>>})
    + Bit(note = <<type, b>>)

(* Who has a buffer as a preview frame and who as a video frame; the OMX   *)
(* thread has it for the subscribers it has counted and not yet called.    *)
PreviewHolders(b) ==
  Bit(b \in window \cap tagged) + Bit(disp = [pc |-> "return", buf |-> b])
    + Queued("preview", b)
    + (IF omx.pc = "preview" /\ omx.buf = b THEN Cardinality(psubs) ELSE 0)
VideoHolders(b) ==
  Queued("video", b) + Bit(b \in enc) + Bit(encHas = b)
    + (IF omx.pc \in {"preview", "video"} /\ omx.buf = b /\ omx.video
       THEN Cardinality(vsubs) ELSE 0)

(* The places of a buffer nobody uses: where it is filled or on its way.   *)
CameraPlaces(b) ==
  Bit(b \in ducati) + Cardinality({i \in DOMAIN fbd : fbd[i] = b})
    + Bit(omx.pc = "count" /\ omx.buf = b)
    + Cardinality({t \in Threads : pend[t] = b})

(* The properties speak of a session up to the point where it goes astray: *)
(* there a return without a holder lowers a count, a buffer is refilled    *)
(* while the window has it, and its next frame gives the display a message *)
(* without a buffer.                                                       *)
Previewing == ~astray /\ "display" \in psubs
Recording  == recording /\ vsubs # {}

(* Until the session goes astray, the counts say how many hold the buffer, *)
(* for both frame types (setInitFrameRefCount, returnFrame).               *)
CountsAgree ==
  Previewing => \A b \in Bufs :
    /\ count.preview[b] = PreviewHolders(b)
    /\ Recording => count.video[b] = VideoHolders(b)

(* Until the session goes astray a buffer is in one place: filled, or on   *)
(* its way to be filled or sent, by exactly one thread and held by nobody, *)
(* or else somebody still has to give it back.  (returnFrame: the last     *)
(* holder refills, once.)                                                  *)
BufferConserved ==
  Previewing => \A b \in Bufs :
    \/ /\ CameraPlaces(b) = 1 /\ PreviewHolders(b) = 0
       /\ Recording => VideoHolders(b) = 0
    \/ /\ CameraPlaces(b) = 0
       /\ PreviewHolders(b) > 0 \/ (recording /\ count.video[b] > 0)

(* Until the session goes astray the display thread never waits in         *)
(* dequeue_buffer: every message in mDisplayQ stands for a buffer the      *)
(* window can spare.                                                       *)
DisplayPaced ==
  ~astray /\ dispOn =>
    dispQ + Bit(disp.pc = "dequeue")
      = Cardinality(window) - Cardinality(Undequeued)

(* The preview goes on: new frames keep being distributed (FillBufferDone) *)
(* unless the session goes astray.                                         *)
FramesFlow == []<>(omx.pc = "count" \/ ~active \/ astray)

(* Every HAL call returns, disableDisplay's wait for the display thread    *)
(* included, unless the session goes astray.                               *)
CallsReturn == []<>(app.pc \in {"idle", "stopped"} \/ astray)
=============================================================================
