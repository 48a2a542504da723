----------------------- MODULE FrameDistributionProofs -----------------------
(***************************************************************************)
(* Proofs about FrameDistribution: the types of its variables, and, for a  *)
(* session that has not gone astray (no frame crosses a change of the      *)
(* recording, no change of the zoom is refused), that the display never    *)
(* waits for a buffer (DisplayPaced), that the reference counts are the    *)
(* numbers of holders (CountsAgree) and that every buffer is in one place  *)
(* (BufferConserved).                                                      *)
(*                                                                         *)
(* The last three need each other: a count is only right if nobody returns *)
(* a frame twice, which needs the buffer to be in one place, and the       *)
(* display is only paced if a frame is never posted while the window has   *)
(* its buffer.  SessionInv is their conjunction, with what every thread's  *)
(* step tells about the state between its steps.                           *)
(***************************************************************************)
EXTENDS FrameDistribution, FiniteSetTheorems, SequenceTheorems, TLAPS

-----------------------------------------------------------------------------
(* The inductive invariant.                                                *)

(* A thread between two steps on a buffer has that buffer, and no other to *)
(* refill.                                                                 *)
Steps ==
  /\ omx.pc # "idle" => omx.buf \in Bufs
  /\ omx.pc = "video" => omx.video
  /\ disp.pc = "return" => disp.buf \in Bufs
  /\ disp.pc # "idle" => Ready("disp")
  /\ note # NoFrame => Ready("note")
  /\ encHas # None => Ready("enc")
  /\ dispOn => window = tagged

(* What the step of the HAL's call says about the subscribers, the frame   *)
(* pointers and both recording flags.                                      *)
AppState ==
  /\ app.pc \in {"idle", "startVideo", "stopVideo"} <=> "display" \in psubs
  /\ "display" \in psubs => active /\ pointers /\ dispOn
  /\ CASE app.pc = "idle"       -> recording <=> vsubs = {"notifier"}
       [] app.pc = "startVideo" -> ~recording /\ vsubs = {"notifier"}
       [] app.pc = "stopVideo"  -> recording /\ vsubs = {}
       [] OTHER                 -> ~recording /\ vsubs = {}

(* Video frames exist while there is a recording, and what is left of one  *)
(* is not counted any more.                                                *)
VideoState ==
  /\ omx.pc # "idle" /\ omx.video => Recording
  /\ app.pc = "startVideo" => ~VideoAround /\ enc = {}
  /\ vsubs = {} => enc = {}
  /\ \A b \in Bufs : count.video[b] <= 1
  /\ ~recording => \A b \in Bufs : count.video[b] <= 0
  /\ app.pc = "stopVideo" => \A b \in Bufs \ app.left : count.video[b] <= 0
  /\ omx.pc \in {"preview", "video"} /\ omx.video => count.video[omx.buf] = 1

(* The frame the OMX thread sends belongs to its subscribers alone.        *)
Sending ==
  /\ omx.pc \notin {"error", "zoomError"}
  /\ omx.pc = "preview" => count.preview[omx.buf] = Cardinality(psubs)

(* The books of one buffer: its counts, and its place.                     *)
Placed(b) ==
  \/ /\ CameraPlaces(b) = 1 /\ PreviewHolders(b) = 0
     /\ recording => count.video[b] <= 0
  \/ /\ CameraPlaces(b) = 0
     /\ PreviewHolders(b) > 0 \/ (recording /\ count.video[b] > 0)
Books(b) ==
  /\ count.preview[b] = PreviewHolders(b)
  /\ Recording => count.video[b] = VideoHolders(b)
  /\ Placed(b)

SessionInv ==
  /\ TypeOK /\ Steps /\ AppState
  /\ ~astray => /\ VideoState /\ DisplayPaced
                /\ "display" \in psubs => Sending /\ \A b \in Bufs : Books(b)

-----------------------------------------------------------------------------
(* How often a value is in a queue.                                        *)

Occurs(s, x) == Cardinality({i \in DOMAIN s : s[i] = x})

(* The places of a value in a queue are finite in number. *)
LEMMA OccursType ==
  ASSUME NEW S, NEW s \in Seq(S), NEW x
  PROVE  /\ IsFiniteSet({i \in DOMAIN s : s[i] = x})
         /\ Occurs(s, x) \in Nat
<1>1. DOMAIN s = 1..Len(s) /\ Len(s) \in Nat
  OBVIOUS
<1>2. IsFiniteSet(1..Len(s))
  BY <1>1, FS_Interval
<1>3. IsFiniteSet({i \in DOMAIN s : s[i] = x})
  BY <1>1, <1>2, FS_Subset
<1> QED
  BY <1>3, FS_CardinalityType DEF Occurs

(* Nothing is in the empty queue. *)
LEMMA OccursEmpty == \A x : Occurs(<<>>, x) = 0
<1> TAKE x
<1>1. {i \in DOMAIN <<>> : <<>>[i] = x} = {}
  OBVIOUS
<1> QED
  BY <1>1, FS_EmptySet DEF Occurs

(* A one-to-one function onto a set is a bijection. *)
LEMMA BijectionExists ==
  ASSUME NEW A, NEW B, NEW f \in [A -> B],
         \A i, j \in A : f[i] = f[j] => i = j,
         \A j \in B : \E i \in A : f[i] = j
  PROVE  ExistsBijection(A, B)
<1>1. f \in Injection(A, B)
  BY DEF Injection, IsInjective
<1>2. f \in Surjection(A, B)
  BY DEF Surjection
<1> QED
  BY <1>1, <1>2 DEF ExistsBijection, Bijection

(* Append adds one to the count of its element. *)
LEMMA OccursAppend ==
  ASSUME NEW S, NEW s \in Seq(S), NEW e \in S, NEW x
  PROVE  Occurs(Append(s, e), x) = IF e = x THEN Occurs(s, x) + 1
                                   ELSE Occurs(s, x)
<1> DEFINE A == {i \in DOMAIN s : s[i] = x}
           B == {i \in DOMAIN Append(s, e) : Append(s, e)[i] = x}
<1>1. /\ Len(s) \in Nat /\ DOMAIN s = 1..Len(s)
      /\ DOMAIN Append(s, e) = 1..(Len(s) + 1)
      /\ Append(s, e)[Len(s) + 1] = e
      /\ \A i \in 1..Len(s) : Append(s, e)[i] = s[i]
  OBVIOUS
<1>2. IsFiniteSet(A) /\ Cardinality(A) \in Nat
  BY OccursType DEF Occurs
<1>3. CASE e = x
  <2>1. B = A \cup {Len(s) + 1} /\ Len(s) + 1 \notin A
    BY <1>1, <1>3
  <2>2. Cardinality(B) = Cardinality(A) + 1
    BY <1>2, <2>1, FS_AddElement
  <2> QED
    BY <1>3, <2>2 DEF Occurs, Bit
<1>4. CASE e # x
  <2>1. B = A
    BY <1>1, <1>4
  <2>2. Occurs(Append(s, e), x) = Occurs(s, x) /\ Occurs(s, x) \in Nat
    BY <1>2, <2>1 DEF Occurs
  <2> QED
    BY <1>4, <2>2 DEF Bit
<1> QED
  BY <1>3, <1>4

(* Tail takes one from the count of the head. *)
LEMMA OccursTail ==
  ASSUME NEW S, NEW s \in Seq(S), s # <<>>, NEW x
  PROVE  /\ Occurs(s, x) = IF Head(s) = x THEN Occurs(Tail(s), x) + 1
                           ELSE Occurs(Tail(s), x)
         /\ Occurs(Tail(s), x) \in Nat
<1> DEFINE A == {i \in DOMAIN s : s[i] = x}
           B == {i \in DOMAIN Tail(s) : Tail(s)[i] = x}
           f == [i \in B |-> i + 1]
<1>1. /\ Len(s) \in Nat \ {0} /\ DOMAIN s = 1..Len(s) /\ Head(s) = s[1]
      /\ DOMAIN Tail(s) = 1..(Len(s) - 1)
      /\ \A i \in 1..(Len(s) - 1) : Tail(s)[i] = s[i + 1]
  OBVIOUS
<1>2. Tail(s) \in Seq(S)
  OBVIOUS
<1>3. /\ IsFiniteSet(A) /\ Cardinality(A) \in Nat
      /\ IsFiniteSet(B) /\ Cardinality(B) \in Nat
  BY <1>2, OccursType DEF Occurs
<1>4. ExistsBijection(B, A \ {1})
  <2>1. f \in [B -> A \ {1}]
    BY <1>1
  <2>2. \A i, j \in B : f[i] = f[j] => i = j
    BY <1>1
  <2>3. \A j \in A \ {1} : \E i \in B : f[i] = j
    <3> TAKE j \in A \ {1}
    <3>1. j - 1 \in B /\ f[j - 1] = j
      BY <1>1
    <3> QED
      BY <3>1
  <2> HIDE DEF A, B, f
  <2> QED
    BY <2>1, <2>2, <2>3, BijectionExists
<1>5. Cardinality(A \ {1}) = Cardinality(B)
  BY <1>3, <1>4, FS_Bijection
<1>6. Cardinality(A \ {1}) = IF 1 \in A THEN Cardinality(A) - 1
                             ELSE Cardinality(A)
  BY <1>3, FS_RemoveElement
<1>7. 1 \in A <=> Head(s) = x
  BY <1>1
<1>8. Occurs(s, x) = Cardinality(A) /\ Occurs(Tail(s), x) = Cardinality(B)
  BY DEF Occurs
<1> HIDE DEF A, B
<1> QED
  BY <1>3, <1>5, <1>6, <1>7, <1>8 DEF Bit

(* The same for the notifier's queue of frames. *)
LEMMA OccursFrame ==
  \A q \in Seq(Types \X Bufs), a, c \in Types, b, x \in Bufs :
    Occurs(Append(q, <<a, b>>), <<c, x>>)
      = IF a = c /\ b = x THEN Occurs(q, <<c, x>>) + 1 ELSE Occurs(q, <<c, x>>)
<1> TAKE q \in Seq(Types \X Bufs), a, c \in Types, b, x \in Bufs
<1>1. PICK e \in Types \X Bufs, y \in Types \X Bufs : e = <<a, b>> /\ y = <<c, x>>
  OBVIOUS
<1>2. Occurs(Append(q, e), y) = IF e = y THEN Occurs(q, y) + 1 ELSE Occurs(q, y)
  BY OccursAppend
<1>3. e = y <=> a = c /\ b = x
  BY <1>1
<1> HIDE <1>1
<1>4. Occurs(Append(q, e), y) = IF a = c /\ b = x THEN Occurs(q, y) + 1
                                ELSE Occurs(q, y)
  BY <1>2, <1>3
<1> QED
  BY <1>1, <1>4

(* The head of a queue is in it. *)
LEMMA OccursHead ==
  ASSUME NEW S, NEW s \in Seq(S), s # <<>>
  PROVE  Head(s) \in S /\ Occurs(s, Head(s)) > 0
<1>1. /\ Occurs(s, Head(s)) = Occurs(Tail(s), Head(s)) + 1
      /\ Occurs(Tail(s), Head(s)) \in Nat
  BY OccursTail DEF Bit
<1> QED
  BY <1>1

(* A finite set listed is a sequence of its elements. *)
LEMMA SetToSeqType ==
  ASSUME NEW S, IsFiniteSet(S)
  PROVE  SetToSeq(S) \in Seq(S)
<1>1. Cardinality(S) \in Nat /\ ExistsBijection(1..Cardinality(S), S)
  BY FS_CardinalityType
<1>2. \E f \in [1..Cardinality(S) -> S] : IsInjective(f)
  BY <1>1 DEF ExistsBijection, Bijection, Injection, IsInjective
<1>3. SetToSeq(S) \in [1..Cardinality(S) -> S]
  BY <1>2 DEF SetToSeq
<1> QED
  BY <1>1, <1>3

-----------------------------------------------------------------------------
(* Types, steps and the HAL's call.                                        *)

Outline == TypeOK /\ Steps /\ AppState

CountType == count \in [Types -> [Bufs -> -1..2]]

(* Initially the variables have their types. *)
LEMMA OutlineInit == Init => Outline
<1> SUFFICES ASSUME Init PROVE Outline
  OBVIOUS
<1>1. count \in [Types -> [Bufs -> -1..2]]
  BY DEF Init, Types
<1>2. TypeOK
  <2>1. /\ active \in BOOLEAN /\ recording \in BOOLEAN /\ pointers \in BOOLEAN
        /\ dispOn \in BOOLEAN /\ astray \in BOOLEAN
    BY DEF Init
  <2>2. psubs \subseteq {"display", "notifier"} /\ vsubs \subseteq {"notifier"}
    BY DEF Init
  <2>3. /\ omx \in [pc : {"idle", "count", "preview", "video", "error"},
                    buf : Bufs \cup {None}, video : BOOLEAN]
        /\ disp \in [pc : {"idle", "dequeue", "return"}, buf : Bufs \cup {None}]
    BY DEF Init, Idle
  <2>4. /\ ducati \subseteq Bufs /\ fbd \in Seq(Bufs) /\ dispQ \in Nat
        /\ pend \in [Threads -> Bufs \cup {None}]
        /\ window \subseteq Bufs /\ tagged \subseteq Bufs
        /\ frameQ \in Seq(Types \X Bufs)
    BY FramesAssumption DEF Init
  <2>5. note \in (Types \X Bufs) \cup {NoFrame}
    BY DEF Init
  <2>6. enc \subseteq Bufs /\ encHas \in Bufs \cup {None}
    BY DEF Init
  <2>7. app \in [pc : {"idle", "startVideo", "stopVideo", "removePointers",
                      "displayStop", "flush", "flushPort", "stopPort",
                      "stopped"}, left : SUBSET Bufs]
    BY DEF Init, AppIdle
  <2> QED
    BY <1>1, <2>1, <2>2, <2>3, <2>4, <2>5, <2>6, <2>7 DEF TypeOK
<1>3. Steps
  BY DEF Init, Steps, Idle
<1>4. AppState
  BY DEF Init, AppState, AppIdle
<1> QED
  BY <1>2, <1>3, <1>4 DEF Outline

(* Both steps of returnFrame keep the counts and the buffers to refill. *)
LEMMA ReturnType ==
  ASSUME NEW t \in Threads, NEW b \in Bufs, NEW type \in Types,
         CountType, pend \in [Threads -> Bufs \cup {None}],
         ReturnFrame(t, b, type)
  PROVE  /\ CountType'
         /\ pend' \in [Threads -> Bufs \cup {None}]
         /\ \A u \in Threads \ {t} : pend'[u] = pend[u]
<1>1. CASE ~(count[type][b] > 0)
  BY <1>1 DEF ReturnFrame, CountType
<1>2. CASE count[type][b] > 0
  <2>1. count' = [count EXCEPT ![type][b] = @ - 1]
    BY <1>2 DEF ReturnFrame
  <2>2. count[type] \in [Bufs -> -1..2] /\ count[type][b] - 1 \in -1..2
    BY <1>2 DEF CountType
  <2>3. CountType'
    BY <2>1, <2>2 DEF CountType
  <2>4. \E r \in Bufs \cup {None} : pend' = [pend EXCEPT ![t] = r]
    BY <1>2 DEF ReturnFrame
  <2> QED
    BY <2>3, <2>4
<1> QED
  BY <1>1, <1>2

(* The parts of the type invariant. *)
FlagTypes ==
  /\ active \in BOOLEAN /\ recording \in BOOLEAN /\ pointers \in BOOLEAN
  /\ dispOn \in BOOLEAN
SubsTypes == psubs \subseteq {"display", "notifier"} /\ vsubs \subseteq {"notifier"}
CameraTypes == ducati \subseteq Bufs /\ fbd \in Seq(Bufs)
OmxType == omx \in [pc : {"idle", "count", "preview", "video", "error", "zoomError"},
                    buf : Bufs \cup {None}, video : BOOLEAN]
PendType == pend \in [Threads -> Bufs \cup {None}]
WindowTypes == window \subseteq Bufs /\ tagged \subseteq Bufs /\ dispQ \in Nat
DispType == disp \in [pc : {"idle", "dequeue", "return"}, buf : Bufs \cup {None}]
QueueTypes ==
  frameQ \in Seq(Types \X Bufs) /\ note \in (Types \X Bufs) \cup {NoFrame}
EncTypes == enc \subseteq Bufs /\ encHas \in Bufs \cup {None}
AppType == app \in [pc : {"idle", "startVideo", "stopVideo", "removePointers",
                         "displayStop", "flush", "flushPort", "stopPort",
                         "stopped"}, left : SUBSET Bufs]

(* TypeOK is the conjunction of its parts. *)
LEMMA TypeParts ==
  TypeOK <=> /\ FlagTypes /\ SubsTypes /\ CountType /\ CameraTypes /\ OmxType
             /\ PendType /\ WindowTypes /\ DispType /\ QueueTypes /\ EncTypes
             /\ AppType /\ astray \in BOOLEAN
BY DEF TypeOK, FlagTypes, SubsTypes, CountType, CameraTypes, OmxType, PendType,
       WindowTypes, DispType, QueueTypes, EncTypes, AppType

(* A set of at most two subscribers. *)
LEMMA SubscriberCounts ==
  ASSUME SubsTypes
  PROVE  /\ IsFiniteSet(psubs) /\ Cardinality(psubs) \in 0..2
         /\ IsFiniteSet(vsubs) /\ Cardinality(vsubs) \in 0..1
<1>1. IsFiniteSet({"display"}) /\ Cardinality({"display"}) = 1
  BY FS_Singleton
<1>2. /\ {"display", "notifier"} = {"display"} \cup {"notifier"}
      /\ "notifier" \notin {"display"}
  OBVIOUS
<1>3. /\ IsFiniteSet({"display", "notifier"})
      /\ Cardinality({"display", "notifier"}) = 2
  BY <1>1, <1>2, FS_AddElement
<1>4. IsFiniteSet({"notifier"}) /\ Cardinality({"notifier"}) = 1
  BY FS_Singleton
<1>5. IsFiniteSet(psubs) /\ Cardinality(psubs) <= 2
  BY <1>3, FS_Subset DEF SubsTypes
<1>6. IsFiniteSet(vsubs) /\ Cardinality(vsubs) <= 1
  BY <1>4, FS_Subset DEF SubsTypes
<1>7. Cardinality(psubs) \in Nat /\ Cardinality(vsubs) \in Nat
  BY <1>5, <1>6, FS_CardinalityType
<1> QED
  BY <1>5, <1>6, <1>7

(* Every step keeps the types. *)
LEMMA TypesStep == Outline /\ Next => TypeOK'
<1> SUFFICES ASSUME TypeOK, Steps, Next PROVE TypeOK'
  BY DEF Outline
<1> USE DEF adapterVars, dispVars, noteVars, Quiet, Goto, At
<1>0. astray' \in BOOLEAN
  BY DEF TypeOK, Next, Latch
<1>00. /\ FlagTypes /\ SubsTypes /\ CountType /\ CameraTypes /\ OmxType
       /\ PendType /\ WindowTypes /\ DispType /\ QueueTypes /\ EncTypes
       /\ AppType
  BY TypeParts
<1>01. Cardinality(psubs) \in 0..2 /\ Cardinality(vsubs) \in 0..1
  BY <1>00, SubscriberCounts
<1>02. /\ FlagTypes' /\ SubsTypes' /\ CountType' /\ CameraTypes' /\ OmxType'
       /\ PendType' /\ WindowTypes' /\ DispType' /\ QueueTypes' /\ EncTypes'
       /\ AppType'
       => TypeOK'
  BY <1>0 DEF TypeOK, FlagTypes, SubsTypes, CountType, CameraTypes, OmxType,
     PendType, WindowTypes, DispType, QueueTypes, EncTypes, AppType
<1>1. ASSUME NEW b \in Bufs, FrameDone(b) PROVE TypeOK'
  <2>1. CameraTypes'
    BY <1>00, <1>1 DEF CameraTypes, FrameDone
  <2>2. /\ FlagTypes' /\ SubsTypes' /\ CountType' /\ OmxType'
        /\ PendType' /\ WindowTypes' /\ DispType' /\ QueueTypes'
        /\ EncTypes' /\ AppType'
    BY <1>00, <1>1 DEF FrameDone, FlagTypes, SubsTypes, CountType,
        OmxType, PendType, WindowTypes, DispType, QueueTypes, EncTypes,
        AppType
  <2> QED
    BY <1>02, <2>1, <2>2
<1>2. ASSUME NEW t \in Threads, FillThisBuffer(t) PROVE TypeOK'
  <2>1. CameraTypes'
    BY <1>00, <1>2 DEF CameraTypes, FillThisBuffer, PendType, Ready
  <2>2. PendType'
    BY <1>00, <1>2 DEF PendType, FillThisBuffer
  <2>3. /\ FlagTypes' /\ SubsTypes' /\ CountType' /\ OmxType'
        /\ WindowTypes' /\ DispType' /\ QueueTypes' /\ EncTypes'
        /\ AppType'
    BY <1>00, <1>2 DEF FillThisBuffer, FlagTypes, SubsTypes, CountType,
        OmxType, WindowTypes, DispType, QueueTypes, EncTypes, AppType
  <2> QED
    BY <1>02, <2>1, <2>2, <2>3
<1>3. CASE TakeFrame
  <2>1. CameraTypes'
    BY <1>00, <1>3 DEF CameraTypes, TakeFrame
  <2>2. OmxType'
    BY <1>00, <1>3 DEF OmxType, TakeFrame, CameraTypes, FlagTypes
  <2>3. /\ FlagTypes' /\ SubsTypes' /\ CountType' /\ PendType'
        /\ WindowTypes' /\ DispType' /\ QueueTypes' /\ EncTypes'
        /\ AppType'
    BY <1>00, <1>3 DEF TakeFrame, FlagTypes, SubsTypes, CountType,
        PendType, WindowTypes, DispType, QueueTypes, EncTypes, AppType
  <2> QED
    BY <1>02, <2>1, <2>2, <2>3
<1>4. CASE SetInitFrameRefCount
  <2>1. CountType'
    <3>1. omx.buf \in Bufs
      BY <1>4 DEF SetInitFrameRefCount, Steps
    <3>2. /\ count.preview \in [Bufs -> -1..2] /\ count.video \in [Bufs -> -1..2]
          /\ count["preview"] = count.preview /\ count["video"] = count.video
      BY <1>00 DEF CountType, Types
    <3>3. ASSUME NEW c \in [Bufs -> -1..2], NEW n \in 0..2
          PROVE  Replaced(c, omx.buf, n) \in [Bufs -> -1..2]
      BY <3>1 DEF Replaced
    <3>4. Cardinality(psubs) \in 0..2 /\ Cardinality(vsubs) \in 0..2
      BY <1>01
    <3>5. PICK p, v \in [Bufs -> -1..2] :
            count' = [count EXCEPT !.preview = p, !.video = v]
      <4>1. Replaced(count.preview, omx.buf, Cardinality(psubs)) \in [Bufs -> -1..2]
        BY <3>2, <3>3, <3>4
      <4>2. (IF omx.video THEN Replaced(count.video, omx.buf, Cardinality(vsubs))
             ELSE count.video) \in [Bufs -> -1..2]
        BY <3>2, <3>3, <3>4
      <4> QED
        BY <1>4, <4>1, <4>2 DEF SetInitFrameRefCount
    <3> QED
      BY <1>00, <3>5 DEF CountType, Types
  <2>2. OmxType'
    BY <1>00, <1>4 DEF OmxType, SetInitFrameRefCount
  <2>3. /\ FlagTypes' /\ SubsTypes' /\ CameraTypes' /\ PendType'
        /\ WindowTypes' /\ DispType' /\ QueueTypes' /\ EncTypes'
        /\ AppType'
    BY <1>00, <1>4 DEF SetInitFrameRefCount, FlagTypes, SubsTypes,
        CameraTypes, PendType, WindowTypes, DispType, QueueTypes,
        EncTypes, AppType
  <2> QED
    BY <1>02, <2>1, <2>2, <2>3
<1>5. CASE SendPreview
  <2>1. OmxType'
    <3>1. \/ omx' \in {[omx EXCEPT !.pc = "error"], [omx EXCEPT !.pc = "video"]}
          \/ AdvanceZoom
      BY <1>5 DEF SendPreview
    <3>2. CASE omx' = [omx EXCEPT !.pc = "error"]
      BY <1>00, <3>2 DEF OmxType
    <3>3. CASE omx' = [omx EXCEPT !.pc = "video"]
      BY <1>00, <3>3 DEF OmxType
    <3>4. CASE AdvanceZoom
      <4>1. omx.buf \in Bufs \cup {None}
        BY <1>00 DEF OmxType
      <4>2. CASE omx' = Idle
        BY <4>2 DEF OmxType, Idle
      <4>3. CASE omx' = [pc |-> "zoomError", buf |-> omx.buf, video |-> FALSE]
        BY <4>1, <4>3 DEF OmxType
      <4> QED
        BY <3>4, <4>2, <4>3 DEF AdvanceZoom
    <3> QED
      BY <3>1, <3>2, <3>3, <3>4
  <2>2. WindowTypes'
    BY <1>00, <1>5 DEF WindowTypes, SendPreview, PostFrame, Steps
  <2>3. QueueTypes'
    <3>1. omx.buf \in Bufs /\ <<"preview", omx.buf>> \in Types \X Bufs
      BY <1>5 DEF SendPreview, Steps, Types
    <3>2. frameQ' \in {frameQ, Append(frameQ, <<"preview", omx.buf>>)} /\ note' = note
      BY <1>5 DEF SendPreview
    <3> QED
      BY <1>00, <3>1, <3>2 DEF QueueTypes
  <2>4. /\ FlagTypes' /\ SubsTypes' /\ CountType' /\ CameraTypes'
        /\ PendType' /\ DispType' /\ EncTypes' /\ AppType'
    BY <1>00, <1>5 DEF SendPreview, FlagTypes, SubsTypes, CountType,
        CameraTypes, PendType, DispType, EncTypes, AppType
  <2> QED
    BY <1>02, <2>1, <2>2, <2>3, <2>4
<1>6. CASE SendVideo
  <2>1. OmxType'
    <3>1. omx' = [omx EXCEPT !.pc = "error"] \/ AdvanceZoom
      BY <1>6 DEF SendVideo
    <3>2. CASE omx' = [omx EXCEPT !.pc = "error"]
      BY <1>00, <3>2 DEF OmxType
    <3>3. CASE omx' = [omx EXCEPT !.pc = "video"]
      BY <1>00, <3>3 DEF OmxType
    <3>4. CASE AdvanceZoom
      <4>1. omx.buf \in Bufs \cup {None}
        BY <1>00 DEF OmxType
      <4>2. CASE omx' = Idle
        BY <4>2 DEF OmxType, Idle
      <4>3. CASE omx' = [pc |-> "zoomError", buf |-> omx.buf, video |-> FALSE]
        BY <4>1, <4>3 DEF OmxType
      <4> QED
        BY <3>4, <4>2, <4>3 DEF AdvanceZoom
    <3> QED
      BY <3>1, <3>2, <3>3, <3>4
  <2>2. QueueTypes'
    <3>1. omx.buf \in Bufs /\ <<"video", omx.buf>> \in Types \X Bufs
      BY <1>6 DEF SendVideo, Steps, Types
    <3>2. frameQ' \in {frameQ, Append(frameQ, <<"video", omx.buf>>)} /\ note' = note
      BY <1>6 DEF SendVideo
    <3> QED
      BY <1>00, <3>1, <3>2 DEF QueueTypes
  <2>3. /\ FlagTypes' /\ SubsTypes' /\ CountType' /\ CameraTypes'
        /\ PendType' /\ WindowTypes' /\ DispType' /\ EncTypes'
        /\ AppType'
    BY <1>00, <1>6 DEF SendVideo, FlagTypes, SubsTypes, CountType,
        CameraTypes, PendType, WindowTypes, DispType, EncTypes, AppType
  <2> QED
    BY <1>02, <2>1, <2>2, <2>3
<1>7. CASE SendFailed
  <2>0. CountType' /\ PendType'
    <3>1. omx.buf \in Bufs /\ ReturnFrame("omx", omx.buf, "preview")
      BY <1>00, <1>7 DEF SendFailed, Steps
    <3> QED
      BY <1>00, <3>1, ReturnType DEF CountType, PendType, Threads, Types
  <2>1. OmxType'
    BY <1>00, <1>7 DEF OmxType, SendFailed, Idle
  <2>2. /\ FlagTypes' /\ SubsTypes' /\ CameraTypes' /\ WindowTypes'
        /\ DispType' /\ QueueTypes' /\ EncTypes' /\ AppType'
    BY <1>00, <1>7 DEF SendFailed, FlagTypes, SubsTypes, CameraTypes,
        WindowTypes, DispType, QueueTypes, EncTypes, AppType
  <2> QED
    BY <1>02, <2>0, <2>1, <2>2
<1>8. CASE TakeDisplayMessage
  <2>1. WindowTypes'
    BY <1>00, <1>8 DEF WindowTypes, TakeDisplayMessage
  <2>2. DispType'
    BY <1>00, <1>8 DEF DispType, TakeDisplayMessage
  <2>3. /\ FlagTypes' /\ SubsTypes' /\ CountType' /\ CameraTypes'
        /\ OmxType' /\ PendType' /\ QueueTypes' /\ EncTypes'
        /\ AppType'
    BY <1>00, <1>8 DEF TakeDisplayMessage, FlagTypes, SubsTypes,
        CountType, CameraTypes, OmxType, PendType, QueueTypes, EncTypes,
        AppType
  <2> QED
    BY <1>02, <2>1, <2>2, <2>3
<1>9. CASE DequeueBuffer
  <2>1. WindowTypes'
    BY <1>00, <1>9 DEF WindowTypes, DequeueBuffer
  <2>2. DispType'
    BY <1>00, <1>9 DEF DispType, DequeueBuffer, WindowTypes
  <2>3. /\ FlagTypes' /\ SubsTypes' /\ CountType' /\ CameraTypes'
        /\ OmxType' /\ PendType' /\ QueueTypes' /\ EncTypes'
        /\ AppType'
    BY <1>00, <1>9 DEF DequeueBuffer, FlagTypes, SubsTypes, CountType,
        CameraTypes, OmxType, PendType, QueueTypes, EncTypes, AppType
  <2> QED
    BY <1>02, <2>1, <2>2, <2>3
<1>10. CASE DisplayReturn
  <2>0. CountType' /\ PendType'
    <3>1. disp.buf \in Bufs /\ ReturnFrame("disp", disp.buf, "preview")
      BY <1>00, <1>10 DEF DisplayReturn, Steps
    <3> QED
      BY <1>00, <3>1, ReturnType DEF CountType, PendType, Threads, Types
  <2>1. DispType'
    BY <1>00, <1>10 DEF DispType, DisplayReturn
  <2>2. /\ FlagTypes' /\ SubsTypes' /\ CameraTypes' /\ OmxType'
        /\ WindowTypes' /\ QueueTypes' /\ EncTypes' /\ AppType'
    BY <1>00, <1>10 DEF DisplayReturn, FlagTypes, SubsTypes, CameraTypes,
        OmxType, WindowTypes, QueueTypes, EncTypes, AppType
  <2> QED
    BY <1>02, <2>0, <2>1, <2>2
<1>11. CASE DisplayStop
  <2>1. FlagTypes'
    BY <1>00, <1>11 DEF FlagTypes, DisplayStop, DisableDisplay, ReturnBuffersToWindow
  <2>2. WindowTypes'
    BY <1>00, <1>11 DEF WindowTypes, DisplayStop, DisableDisplay, ReturnBuffersToWindow
  <2>3. AppType'
    BY <1>00, <1>11 DEF AppType, DisplayStop, DisableDisplay, ReturnBuffersToWindow
  <2>4. /\ SubsTypes' /\ CountType' /\ CameraTypes' /\ OmxType'
        /\ PendType' /\ DispType' /\ QueueTypes' /\ EncTypes'
    BY <1>00, <1>11 DEF DisplayStop, DisableDisplay,
        ReturnBuffersToWindow, SubsTypes, CountType, CameraTypes, OmxType,
        PendType, DispType, QueueTypes, EncTypes
  <2> QED
    BY <1>02, <2>1, <2>2, <2>3, <2>4
<1>12. CASE NotifierGet
  <2>1. QueueTypes'
    BY <1>00, <1>12 DEF QueueTypes, NotifierGet
  <2>2. /\ FlagTypes' /\ SubsTypes' /\ CountType' /\ CameraTypes'
        /\ OmxType' /\ PendType' /\ WindowTypes' /\ DispType'
        /\ EncTypes' /\ AppType'
    BY <1>00, <1>12 DEF NotifierGet, FlagTypes, SubsTypes, CountType,
        CameraTypes, OmxType, PendType, WindowTypes, DispType, EncTypes,
        AppType
  <2> QED
    BY <1>02, <2>1, <2>2
<1>13. CASE NotifyFrame
  <2>0. CountType' /\ PendType'
    <3>1. \/ UNCHANGED <<count, pend>>
          \/ \E x \in Types, b \in Bufs : ReturnFrame("note", b, x)
      BY <1>00, <1>13 DEF NotifyFrame, QueueTypes, NoFrame, Types
    <3> QED
      BY <1>00, <3>1, ReturnType DEF CountType, PendType, Threads, Types
  <2>1. QueueTypes'
    BY <1>00, <1>13 DEF QueueTypes, NotifyFrame
  <2>2. EncTypes'
    BY <1>00, <1>13 DEF EncTypes, NotifyFrame, QueueTypes, NoFrame
  <2>3. /\ FlagTypes' /\ SubsTypes' /\ CameraTypes' /\ OmxType'
        /\ WindowTypes' /\ DispType' /\ AppType'
    BY <1>00, <1>13 DEF NotifyFrame, FlagTypes, SubsTypes, CameraTypes,
        OmxType, WindowTypes, DispType, AppType
  <2> QED
    BY <1>02, <2>0, <2>1, <2>2, <2>3
<1>14. ASSUME NEW b \in Bufs, ReleaseLookup(b) PROVE TypeOK'
  <2>1. EncTypes'
    BY <1>00, <1>14 DEF EncTypes, ReleaseLookup
  <2>2. /\ FlagTypes' /\ SubsTypes' /\ CountType' /\ CameraTypes'
        /\ OmxType' /\ PendType' /\ WindowTypes' /\ DispType'
        /\ QueueTypes' /\ AppType'
    BY <1>00, <1>14 DEF ReleaseLookup, FlagTypes, SubsTypes, CountType,
        CameraTypes, OmxType, PendType, WindowTypes, DispType, QueueTypes,
        AppType
  <2> QED
    BY <1>02, <2>1, <2>2
<1>15. CASE ReleaseReturn
  <2>0. CountType' /\ PendType'
    <3>1. encHas \in Bufs /\ ReturnFrame("enc", encHas, "video")
      BY <1>00, <1>15 DEF ReleaseReturn, EncTypes
    <3> QED
      BY <1>00, <3>1, ReturnType DEF CountType, PendType, Threads, Types
  <2>1. EncTypes'
    BY <1>00, <1>15 DEF EncTypes, ReleaseReturn
  <2>2. /\ FlagTypes' /\ SubsTypes' /\ CameraTypes' /\ OmxType'
        /\ WindowTypes' /\ DispType' /\ QueueTypes' /\ AppType'
    BY <1>00, <1>15 DEF ReleaseReturn, FlagTypes, SubsTypes, CameraTypes,
        OmxType, WindowTypes, DispType, QueueTypes, AppType
  <2> QED
    BY <1>02, <2>0, <2>1, <2>2
<1>16. CASE StartVideoCapture
  <2>1. FlagTypes'
    BY <1>00, <1>16 DEF FlagTypes, StartVideoCapture
  <2>2. CountType'
    BY <1>00, <1>16 DEF CountType, StartVideoCapture, Types
  <2>3. AppType'
    BY <1>00, <1>16 DEF AppType, StartVideoCapture
  <2>4. /\ SubsTypes' /\ CameraTypes' /\ OmxType' /\ PendType'
        /\ WindowTypes' /\ DispType' /\ QueueTypes' /\ EncTypes'
    BY <1>00, <1>16 DEF StartVideoCapture, SubsTypes, CameraTypes,
        OmxType, PendType, WindowTypes, DispType, QueueTypes, EncTypes
  <2> QED
    BY <1>02, <2>1, <2>2, <2>3, <2>4
<1>17. CASE StopVideoCapture
  <2>1. FlagTypes'
    BY <1>00, <1>17 DEF FlagTypes, StopVideoCapture
  <2>2. AppType'
    BY <1>00, <1>17 DEF AppType, StopVideoCapture
  <2>3. /\ SubsTypes' /\ CountType' /\ CameraTypes' /\ OmxType'
        /\ PendType' /\ WindowTypes' /\ DispType' /\ QueueTypes'
        /\ EncTypes'
    BY <1>00, <1>17 DEF StopVideoCapture, SubsTypes, CountType,
        CameraTypes, OmxType, PendType, WindowTypes, DispType, QueueTypes,
        EncTypes
  <2> QED
    BY <1>02, <2>1, <2>2, <2>3
<1>18. CASE ReturnVideo
  <2>0. CountType' /\ PendType'
    <3>1. \E b \in Bufs : ReturnFrame("app", b, "video")
      BY <1>00, <1>18 DEF ReturnVideo, AppType
    <3> QED
      BY <1>00, <3>1, ReturnType DEF CountType, PendType, Threads, Types
  <2>1. AppType'
    BY <1>00, <1>18 DEF AppType, ReturnVideo
  <2>2. /\ FlagTypes' /\ SubsTypes' /\ CameraTypes' /\ OmxType'
        /\ WindowTypes' /\ DispType' /\ QueueTypes' /\ EncTypes'
    BY <1>00, <1>18 DEF ReturnVideo, FlagTypes, SubsTypes, CameraTypes,
        OmxType, WindowTypes, DispType, QueueTypes, EncTypes
  <2> QED
    BY <1>02, <2>0, <2>1, <2>2
<1>19. CASE RemoveFramePointers
  <2>1. FlagTypes'
    BY <1>00, <1>19 DEF FlagTypes, RemoveFramePointers
  <2>2. AppType'
    BY <1>00, <1>19 DEF AppType, RemoveFramePointers
  <2>3. /\ SubsTypes' /\ CountType' /\ CameraTypes' /\ OmxType'
        /\ PendType' /\ WindowTypes' /\ DispType' /\ QueueTypes'
        /\ EncTypes'
    BY <1>00, <1>19 DEF RemoveFramePointers, SubsTypes, CountType,
        CameraTypes, OmxType, PendType, WindowTypes, DispType, QueueTypes,
        EncTypes
  <2> QED
    BY <1>02, <2>1, <2>2, <2>3
<1>20. CASE FlushFrame
  <2>0. CountType' /\ PendType'
    <3>1. Head(frameQ) \in Types \X Bufs
      BY <1>00, <1>20 DEF FlushFrame, QueueTypes
    <3>2. \E x \in Types, b \in Bufs : ReturnFrame("app", b, x)
      BY <1>00, <1>20, <3>1 DEF FlushFrame
    <3> QED
      BY <1>00, <3>2, ReturnType DEF CountType, PendType, Threads, Types
  <2>1. QueueTypes'
    BY <1>00, <1>20 DEF QueueTypes, FlushFrame
  <2>2. /\ FlagTypes' /\ SubsTypes' /\ CameraTypes' /\ OmxType'
        /\ WindowTypes' /\ DispType' /\ EncTypes' /\ AppType'
    BY <1>00, <1>20 DEF FlushFrame, FlagTypes, SubsTypes, CameraTypes,
        OmxType, WindowTypes, DispType, EncTypes, AppType
  <2> QED
    BY <1>02, <2>0, <2>1, <2>2
<1>21. CASE StopPreviewCallbacks
  <2>1. SubsTypes'
    BY <1>00, <1>21 DEF SubsTypes, StopPreviewCallbacks
  <2>2. AppType'
    BY <1>00, <1>21 DEF AppType, StopPreviewCallbacks
  <2>3. /\ FlagTypes' /\ CountType' /\ CameraTypes' /\ OmxType'
        /\ PendType' /\ WindowTypes' /\ DispType' /\ QueueTypes'
        /\ EncTypes'
    BY <1>00, <1>21 DEF StopPreviewCallbacks, FlagTypes, CountType,
        CameraTypes, OmxType, PendType, WindowTypes, DispType, QueueTypes,
        EncTypes
  <2> QED
    BY <1>02, <2>1, <2>2, <2>3
<1>22. CASE FlushPort
  <2>0. SetToSeq(ducati) \in Seq(Bufs)
    <3>1. IsFiniteSet(ducati) /\ ducati \subseteq Bufs
      BY <1>00, FramesAssumption, FS_Subset DEF CameraTypes
    <3>2. SetToSeq(ducati) \in Seq(ducati)
      BY <3>1, SetToSeqType
    <3> QED
      BY <3>1, <3>2, SeqMonotonic
  <2>1. CameraTypes'
    BY <1>00, <1>22, <2>0 DEF CameraTypes, FlushPort
  <2>2. AppType'
    BY <1>00, <1>22 DEF AppType, FlushPort
  <2>3. /\ FlagTypes' /\ SubsTypes' /\ CountType' /\ OmxType'
        /\ PendType' /\ WindowTypes' /\ DispType' /\ QueueTypes'
        /\ EncTypes'
    BY <1>00, <1>22 DEF FlushPort, FlagTypes, SubsTypes, CountType,
        OmxType, PendType, WindowTypes, DispType, QueueTypes, EncTypes
  <2> QED
    BY <1>02, <2>1, <2>2, <2>3
<1>23. CASE StopPort
  <2>1. FlagTypes'
    BY <1>00, <1>23 DEF FlagTypes, StopPort
  <2>2. CountType'
    BY <1>00, <1>23 DEF CountType, StopPort, Types
  <2>3. CameraTypes'
    BY <1>00, <1>23 DEF CameraTypes, StopPort
  <2>4. AppType'
    BY <1>00, <1>23 DEF AppType, StopPort
  <2>5. /\ SubsTypes' /\ OmxType' /\ PendType' /\ WindowTypes'
        /\ DispType' /\ QueueTypes' /\ EncTypes'
    BY <1>00, <1>23 DEF StopPort, SubsTypes, OmxType, PendType,
        WindowTypes, DispType, QueueTypes, EncTypes
  <2> QED
    BY <1>02, <2>1, <2>2, <2>3, <2>4, <2>5
<1>24. CASE StartRecording
  <2>1. SubsTypes'
    BY <1>00, <1>24 DEF SubsTypes, StartRecording
  <2>2. AppType'
    BY <1>00, <1>24 DEF AppType, StartRecording
  <2>3. /\ FlagTypes' /\ CountType' /\ CameraTypes' /\ OmxType'
        /\ PendType' /\ WindowTypes' /\ DispType' /\ QueueTypes'
        /\ EncTypes'
    BY <1>00, <1>24 DEF StartRecording, FlagTypes, CountType, CameraTypes,
        OmxType, PendType, WindowTypes, DispType, QueueTypes, EncTypes
  <2> QED
    BY <1>02, <2>1, <2>2, <2>3
<1>25. CASE StopRecording
  <2>1. SubsTypes'
    BY <1>00, <1>25 DEF SubsTypes, StopRecording
  <2>2. EncTypes'
    BY <1>00, <1>25 DEF EncTypes, StopRecording
  <2>3. AppType'
    BY <1>00, <1>25 DEF AppType, StopRecording
  <2>4. /\ FlagTypes' /\ CountType' /\ CameraTypes' /\ OmxType'
        /\ PendType' /\ WindowTypes' /\ DispType' /\ QueueTypes'
    BY <1>00, <1>25 DEF StopRecording, FlagTypes, CountType, CameraTypes,
        OmxType, PendType, WindowTypes, DispType, QueueTypes
  <2> QED
    BY <1>02, <2>1, <2>2, <2>3, <2>4
<1>26. CASE TogglePreviewCallbacks
  <2>1. SubsTypes'
    BY <1>00, <1>26 DEF SubsTypes, TogglePreviewCallbacks
  <2>2. /\ FlagTypes' /\ CountType' /\ CameraTypes' /\ OmxType'
        /\ PendType' /\ WindowTypes' /\ DispType' /\ QueueTypes'
        /\ EncTypes' /\ AppType'
    BY <1>00, <1>26 DEF TogglePreviewCallbacks, FlagTypes, CountType,
        CameraTypes, OmxType, PendType, WindowTypes, DispType, QueueTypes,
        EncTypes, AppType
  <2> QED
    BY <1>02, <2>1, <2>2
<1>27. CASE StopPreview
  <2>1. SubsTypes'
    BY <1>00, <1>27 DEF SubsTypes, StopPreview
  <2>2. AppType'
    BY <1>00, <1>27 DEF AppType, StopPreview
  <2>3. /\ FlagTypes' /\ CountType' /\ CameraTypes' /\ OmxType'
        /\ PendType' /\ WindowTypes' /\ DispType' /\ QueueTypes'
        /\ EncTypes'
    BY <1>00, <1>27 DEF StopPreview, FlagTypes, CountType, CameraTypes,
        OmxType, PendType, WindowTypes, DispType, QueueTypes, EncTypes
  <2> QED
    BY <1>02, <2>1, <2>2, <2>3
<1> QED
  BY <1>1, <1>2, <1>3, <1>4, <1>5, <1>6, <1>7, <1>8, <1>9, <1>10, <1>11,
     <1>12, <1>13, <1>14, <1>15, <1>16, <1>17, <1>18, <1>19, <1>20, <1>21,
     <1>22, <1>23, <1>24, <1>25, <1>26, <1>27
  DEF Next, OmxStep, DispStep, NoteStep, EncStep, AppStep, AppCall, Threads

(* Every step keeps what is known between the steps of a thread. *)
LEMMA StepsStep == Outline /\ Next => Steps'
<1> SUFFICES ASSUME TypeOK, Steps, Next PROVE Steps'
  BY DEF Outline
<1> USE DEF adapterVars, dispVars, noteVars, Quiet, Goto, At
<1>0. /\ FlagTypes /\ SubsTypes /\ CountType /\ CameraTypes /\ OmxType
      /\ PendType /\ WindowTypes /\ DispType /\ QueueTypes /\ EncTypes
      /\ AppType
  BY TypeParts
<1>1. ASSUME NEW b \in Bufs, FrameDone(b) PROVE Steps'
  BY <1>0, <1>1 DEF Steps, Ready, Threads, FrameDone
<1>2. ASSUME NEW t \in Threads, FillThisBuffer(t) PROVE Steps'
  BY <1>0, <1>2 DEF Steps, Ready, Threads, FillThisBuffer, PendType
<1>3. CASE TakeFrame
  BY <1>0, <1>3 DEF Steps, Ready, Threads, TakeFrame, CameraTypes, OmxType
<1>4. CASE SetInitFrameRefCount
  BY <1>0, <1>4 DEF Steps, Ready, Threads, SetInitFrameRefCount, OmxType
<1>5. CASE SendPreview
  <2>1. omx.buf \in Bufs
    BY <1>5 DEF SendPreview, Steps
  <2>2. /\ omx'.pc # "idle" => omx'.buf \in Bufs
        /\ omx'.pc = "video" => omx'.video
    <3>1. \/ omx' = [omx EXCEPT !.pc = "error"] \/ AdvanceZoom
          \/ omx.video /\ omx' = [omx EXCEPT !.pc = "video"]
      BY <1>5 DEF SendPreview
    <3> QED
      BY <1>0, <2>1, <3>1 DEF OmxType, Idle, AdvanceZoom
  <2>3. \/ window' = window /\ tagged' = tagged
        \/ window' = window \cup {omx.buf} /\ tagged' = tagged \cup {omx.buf}
    BY <1>5 DEF SendPreview, PostFrame
  <2>4. dispOn' => window' = tagged'
    <3>1. dispOn' = dispOn /\ (dispOn => window = tagged)
      BY <1>5 DEF SendPreview, Steps
    <3> QED
      BY <2>3, <3>1
  <2> QED
    BY <1>5, <2>2, <2>4 DEF Steps, Ready, SendPreview
<1>6. CASE SendVideo
  <2>1. omx.buf \in Bufs
    BY <1>6 DEF SendVideo, Steps
  <2>2. /\ omx'.pc # "idle" => omx'.buf \in Bufs
        /\ omx'.pc = "video" => omx'.video
    <3>1. omx' = [omx EXCEPT !.pc = "error"] \/ AdvanceZoom
      BY <1>6 DEF SendVideo
    <3> QED
      BY <1>0, <2>1, <3>1 DEF OmxType, Idle, AdvanceZoom
  <2> QED
    BY <1>6, <2>2 DEF Steps, Ready, SendVideo
<1>7. CASE SendFailed
  BY <1>0, <1>7 DEF Steps, Ready, Threads, SendFailed, Idle, ReturnFrame,
     PendType
<1>8. CASE TakeDisplayMessage
  BY <1>0, <1>8 DEF Steps, Ready, Threads, TakeDisplayMessage, DispType
<1>9. CASE DequeueBuffer
  BY <1>0, <1>9 DEF Steps, Ready, Threads, DequeueBuffer, WindowTypes
<1>10. CASE DisplayReturn
  BY <1>0, <1>10 DEF Steps, Ready, Threads, DisplayReturn, ReturnFrame,
     PendType
<1>11. CASE DisplayStop
  BY <1>0, <1>11 DEF Steps, Ready, Threads, DisplayStop, DisableDisplay,
     ReturnBuffersToWindow
<1>12. CASE NotifierGet
  BY <1>0, <1>12 DEF Steps, Ready, Threads, NotifierGet, Threads
<1>13. CASE NotifyFrame
  BY <1>0, <1>13 DEF Steps, Ready, Threads, NotifyFrame, ReturnFrame,
     PendType
<1>14. ASSUME NEW b \in Bufs, ReleaseLookup(b) PROVE Steps'
  BY <1>0, <1>14 DEF Steps, Ready, Threads, ReleaseLookup, Threads
<1>15. CASE ReleaseReturn
  BY <1>0, <1>15 DEF Steps, Ready, Threads, ReleaseReturn, ReturnFrame,
     PendType
<1>16. CASE StartVideoCapture
  BY <1>0, <1>16 DEF Steps, Ready, Threads, StartVideoCapture
<1>17. CASE StopVideoCapture
  BY <1>0, <1>17 DEF Steps, Ready, Threads, StopVideoCapture
<1>18. CASE ReturnVideo
  BY <1>0, <1>18 DEF Steps, Ready, Threads, ReturnVideo, ReturnFrame,
     PendType
<1>19. CASE RemoveFramePointers
  BY <1>0, <1>19 DEF Steps, Ready, Threads, RemoveFramePointers
<1>20. CASE FlushFrame
  BY <1>0, <1>20 DEF Steps, Ready, Threads, FlushFrame, ReturnFrame,
     PendType
<1>21. CASE StopPreviewCallbacks
  BY <1>0, <1>21 DEF Steps, Ready, Threads, StopPreviewCallbacks
<1>22. CASE FlushPort
  BY <1>0, <1>22 DEF Steps, Ready, Threads, FlushPort
<1>23. CASE StopPort
  BY <1>0, <1>23 DEF Steps, Ready, Threads, StopPort
<1>24. CASE StartRecording
  BY <1>0, <1>24 DEF Steps, Ready, Threads, StartRecording
<1>25. CASE StopRecording
  BY <1>0, <1>25 DEF Steps, Ready, Threads, StopRecording
<1>26. CASE TogglePreviewCallbacks
  BY <1>0, <1>26 DEF Steps, Ready, Threads, TogglePreviewCallbacks
<1>27. CASE StopPreview
  BY <1>0, <1>27 DEF Steps, Ready, Threads, StopPreview
<1> QED
  BY <1>1, <1>2, <1>3, <1>4, <1>5, <1>6, <1>7, <1>8, <1>9, <1>10, <1>11,
     <1>12, <1>13, <1>14, <1>15, <1>16, <1>17, <1>18, <1>19, <1>20, <1>21,
     <1>22, <1>23, <1>24, <1>25, <1>26, <1>27
  DEF Next, OmxStep, DispStep, NoteStep, EncStep, AppStep, AppCall, Threads

(* Every step keeps what the HAL's call says about the flags. *)
LEMMA AppStateStep == Outline /\ Next => AppState'
<1> SUFFICES ASSUME TypeOK, AppState, Next PROVE AppState'
  BY DEF Outline
<1> USE DEF adapterVars, dispVars, noteVars, Quiet, Goto, At
<1>0. FlagTypes /\ SubsTypes /\ AppType
  BY TypeParts
<1>1. ASSUME NEW b \in Bufs, FrameDone(b) PROVE AppState'
  BY <1>0, <1>1 DEF AppState, AppType, FlagTypes, SubsTypes, FrameDone
<1>2. ASSUME NEW t \in Threads, FillThisBuffer(t) PROVE AppState'
  BY <1>0, <1>2 DEF AppState, AppType, FlagTypes, SubsTypes, FillThisBuffer
<1>3. CASE TakeFrame
  BY <1>0, <1>3 DEF AppState, AppType, FlagTypes, SubsTypes, TakeFrame
<1>4. CASE SetInitFrameRefCount
  BY <1>0, <1>4 DEF AppState, AppType, FlagTypes, SubsTypes,
     SetInitFrameRefCount
<1>5. CASE SendPreview
  BY <1>0, <1>5 DEF AppState, AppType, FlagTypes, SubsTypes, SendPreview
<1>6. CASE SendVideo
  BY <1>0, <1>6 DEF AppState, AppType, FlagTypes, SubsTypes, SendVideo
<1>7. CASE SendFailed
  BY <1>0, <1>7 DEF AppState, AppType, FlagTypes, SubsTypes, SendFailed
<1>8. CASE TakeDisplayMessage
  BY <1>0, <1>8 DEF AppState, AppType, FlagTypes, SubsTypes,
     TakeDisplayMessage
<1>9. CASE DequeueBuffer
  BY <1>0, <1>9 DEF AppState, AppType, FlagTypes, SubsTypes, DequeueBuffer
<1>10. CASE DisplayReturn
  BY <1>0, <1>10 DEF AppState, AppType, FlagTypes, SubsTypes, DisplayReturn
<1>11. CASE DisplayStop
  BY <1>0, <1>11 DEF AppState, AppType, FlagTypes, SubsTypes, DisplayStop,
     DisableDisplay, ReturnBuffersToWindow
<1>12. CASE NotifierGet
  BY <1>0, <1>12 DEF AppState, AppType, FlagTypes, SubsTypes, NotifierGet
<1>13. CASE NotifyFrame
  BY <1>0, <1>13 DEF AppState, AppType, FlagTypes, SubsTypes, NotifyFrame
<1>14. ASSUME NEW b \in Bufs, ReleaseLookup(b) PROVE AppState'
  BY <1>0, <1>14 DEF AppState, AppType, FlagTypes, SubsTypes, ReleaseLookup
<1>15. CASE ReleaseReturn
  BY <1>0, <1>15 DEF AppState, AppType, FlagTypes, SubsTypes, ReleaseReturn
<1>16. CASE StartVideoCapture
  BY <1>0, <1>16 DEF AppState, AppType, FlagTypes, SubsTypes,
     StartVideoCapture
<1>17. CASE StopVideoCapture
  BY <1>0, <1>17 DEF AppState, AppType, FlagTypes, SubsTypes,
     StopVideoCapture
<1>18. CASE ReturnVideo
  BY <1>0, <1>18 DEF AppState, AppType, FlagTypes, SubsTypes, ReturnVideo
<1>19. CASE RemoveFramePointers
  BY <1>0, <1>19 DEF AppState, AppType, FlagTypes, SubsTypes,
     RemoveFramePointers
<1>20. CASE FlushFrame
  BY <1>0, <1>20 DEF AppState, AppType, FlagTypes, SubsTypes, FlushFrame
<1>21. CASE StopPreviewCallbacks
  BY <1>0, <1>21 DEF AppState, AppType, FlagTypes, SubsTypes,
     StopPreviewCallbacks
<1>22. CASE FlushPort
  BY <1>0, <1>22 DEF AppState, AppType, FlagTypes, SubsTypes, FlushPort
<1>23. CASE StopPort
  BY <1>0, <1>23 DEF AppState, AppType, FlagTypes, SubsTypes, StopPort
<1>24. CASE StartRecording
  BY <1>0, <1>24 DEF AppState, AppType, FlagTypes, SubsTypes,
     StartRecording, RecordingEnabled
<1>25. CASE StopRecording
  BY <1>0, <1>25 DEF AppState, AppType, FlagTypes, SubsTypes, StopRecording,
     RecordingEnabled
<1>26. CASE TogglePreviewCallbacks
  BY <1>0, <1>26 DEF AppState, AppType, FlagTypes, SubsTypes,
     TogglePreviewCallbacks
<1>27. CASE StopPreview
  BY <1>0, <1>27 DEF AppState, AppType, FlagTypes, SubsTypes, StopPreview,
     RecordingEnabled
<1> QED
  BY <1>1, <1>2, <1>3, <1>4, <1>5, <1>6, <1>7, <1>8, <1>9, <1>10, <1>11,
     <1>12, <1>13, <1>14, <1>15, <1>16, <1>17, <1>18, <1>19, <1>20, <1>21,
     <1>22, <1>23, <1>24, <1>25, <1>26, <1>27
  DEF Next, OmxStep, DispStep, NoteStep, EncStep, AppStep, AppCall, Threads

(* Every step keeps the outline. *)
LEMMA OutlineStep == Outline /\ [Next]_vars => Outline'
<1> SUFFICES ASSUME Outline, [Next]_vars PROVE Outline'
  OBVIOUS
<1>1. CASE Next
  BY <1>1, TypesStep, StepsStep, AppStateStep DEF Outline
<1>2. CASE UNCHANGED vars
  BY <1>2 DEF Outline, TypeOK, Steps, AppState, Ready, vars, adapterVars,
              dispVars, noteVars
<1> QED
  BY <1>1, <1>2

(* Every variable of the frame distribution has its type for any number of *)
(* buffers, also past a crossing: returnFrame never lets a reference count *)
(* fall below zero, and every buffer that is sent, returned or refilled is *)
(* a preview buffer.                                                       *)
THEOREM TypesCorrect == Spec => []TypeOK
<1>1. Init => Outline
  BY OutlineInit
<1>2. Outline /\ [Next]_vars => Outline'
  BY OutlineStep
<1>3. Outline => TypeOK
  BY DEF Outline
<1> QED
  BY <1>1, <1>2, <1>3, PTL DEF Spec

-----------------------------------------------------------------------------
(* The numbers in the books of a buffer.                                   *)

(* How many threads are about to refill a buffer. *)
Refilling(f, b) == Cardinality({t \in Threads : f[t] = b})

(* There are five threads. *)
LEMMA ThreadsFinite == IsFiniteSet(Threads)
<1>1. IsFiniteSet({"omx"})
  BY FS_Singleton
<1>2. IsFiniteSet({"omx"} \cup {"disp"})
  BY <1>1, FS_AddElement
<1>3. IsFiniteSet(({"omx"} \cup {"disp"}) \cup {"note"})
  BY <1>2, FS_AddElement
<1>4. IsFiniteSet((({"omx"} \cup {"disp"}) \cup {"note"}) \cup {"enc"})
  BY <1>3, FS_AddElement
<1>5. IsFiniteSet(((({"omx"} \cup {"disp"}) \cup {"note"}) \cup {"enc"}) \cup {"app"})
  BY <1>4, FS_AddElement
<1>6. Threads = ((({"omx"} \cup {"disp"}) \cup {"note"}) \cup {"enc"}) \cup {"app"}
  BY DEF Threads
<1> QED
  BY <1>5, <1>6

(* It is a number. *)
LEMMA RefillingType ==
  ASSUME NEW f, NEW b
  PROVE  IsFiniteSet({t \in Threads : f[t] = b}) /\ Refilling(f, b) \in Nat
<1>1. IsFiniteSet({t \in Threads : f[t] = b})
  BY ThreadsFinite, FS_Subset
<1> QED
  BY <1>1, FS_CardinalityType DEF Refilling

(* A thread takes a buffer to refill, or has refilled it. *)
LEMMA RefillingExcept ==
  ASSUME NEW f \in [Threads -> Bufs \cup {None}], NEW t \in Threads,
         NEW r \in Bufs \cup {None}, NEW b \in Bufs,
         NEW g, g[t] = r, \A u \in Threads \ {t} : g[u] = f[u]
  PROVE  Refilling(g, b) + (IF f[t] = b THEN 1 ELSE 0)
           = Refilling(f, b) + (IF r = b THEN 1 ELSE 0)
<1> DEFINE A == {u \in Threads : f[u] = b}
           B == {u \in Threads : g[u] = b}
<1>2. /\ IsFiniteSet(A) /\ Cardinality(A) \in Nat
      /\ IsFiniteSet(B) /\ Cardinality(B) \in Nat
  BY RefillingType DEF Refilling
<1>3. A \ {t} = B \ {t}
  OBVIOUS
<1>4. /\ t \in A <=> f[t] = b
      /\ t \in B <=> r = b
  OBVIOUS
<1>5. Refilling(g, b) = Cardinality(B) /\ Refilling(f, b) = Cardinality(A)
  BY DEF Refilling
<1> HIDE DEF A, B
<1>6. Cardinality(A \ {t}) = IF t \in A THEN Cardinality(A) - 1
                             ELSE Cardinality(A)
  BY <1>2, FS_RemoveElement
<1>7. Cardinality(B \ {t}) = IF t \in B THEN Cardinality(B) - 1
                             ELSE Cardinality(B)
  BY <1>2, FS_RemoveElement
<1> QED
  BY <1>2, <1>3, <1>4, <1>5, <1>6, <1>7

(* Every number in the books is a natural number. *)
LEMMA BookTypes ==
  ASSUME Outline, NEW b \in Bufs
  PROVE  /\ \A type \in Types : Queued(type, b) \in Nat
         /\ PreviewHolders(b) \in Nat /\ VideoHolders(b) \in Nat
         /\ CameraPlaces(b) \in Nat
         /\ \A type \in Types :
              Queued(type, b) = Occurs(frameQ, <<type, b>>) + Bit(note = <<type, b>>)
         /\ CameraPlaces(b) = Bit(b \in ducati) + Occurs(fbd, b)
              + Bit(omx.pc = "count" /\ omx.buf = b) + Refilling(pend, b)
<1>1. /\ QueueTypes /\ CameraTypes /\ PendType /\ SubsTypes
  BY TypeParts DEF Outline
<1>2. \A type \in Types :
        /\ Queued(type, b) = Occurs(frameQ, <<type, b>>) + Bit(note = <<type, b>>)
        /\ Occurs(frameQ, <<type, b>>) \in Nat
  BY <1>1, OccursType DEF QueueTypes, Queued, Occurs
<1>3. \A type \in Types : Queued(type, b) \in Nat
  <2> TAKE type \in Types
  <2>1. /\ Queued(type, b) = Occurs(frameQ, <<type, b>>) + Bit(note = <<type, b>>)
        /\ Occurs(frameQ, <<type, b>>) \in Nat
    BY <1>2
  <2> QED
    BY <2>1 DEF Bit
<1>4. Cardinality(psubs) \in Nat /\ Cardinality(vsubs) \in Nat
  BY <1>1, SubscriberCounts
<1>5. Queued("preview", b) \in Nat /\ Queued("video", b) \in Nat
  BY <1>3 DEF Types
<1>6. PreviewHolders(b) \in Nat
  BY <1>4, <1>5 DEF PreviewHolders, Bit
<1>7. VideoHolders(b) \in Nat
  BY <1>4, <1>5 DEF VideoHolders, Bit
<1>8. Occurs(fbd, b) \in Nat /\ Refilling(pend, b) \in Nat
  BY <1>1, OccursType, RefillingType DEF CameraTypes
<1>9. CameraPlaces(b) = Bit(b \in ducati) + Occurs(fbd, b)
        + Bit(omx.pc = "count" /\ omx.buf = b) + Refilling(pend, b)
  BY DEF CameraPlaces, Occurs, Refilling
<1>10. CameraPlaces(b) \in Nat
  BY <1>8, <1>9 DEF Bit
<1> QED
  BY <1>2, <1>3, <1>6, <1>7, <1>9, <1>10

(* Where a buffer that is not filled, sent or refilled counts as before.   *)
(* t takes r to refill; it had nothing to refill before.                   *)
LEMMA PlacesOfRefill ==
  ASSUME Outline, NEW t \in Threads, NEW r \in Bufs \cup {None}, Ready(t),
         pend' = [pend EXCEPT ![t] = r], UNCHANGED <<ducati, fbd, omx>>
  PROVE  \A x \in Bufs : CameraPlaces(x)' = CameraPlaces(x) + Bit(r = x)
<1> TAKE x \in Bufs
<1>1. PendType /\ OmxType
  BY TypeParts DEF Outline
<1>2. /\ pend \in [Threads -> Bufs \cup {None}] /\ pend[t] = None
      /\ None # x
  BY <1>1, FramesAssumption DEF PendType, Ready
<1>3. Refilling(pend', x) + (IF pend[t] = x THEN 1 ELSE 0)
        = Refilling(pend, x) + (IF r = x THEN 1 ELSE 0)
  <2>1. pend'[t] = r /\ \A u \in Threads \ {t} : pend'[u] = pend[u]
    BY <1>2
  <2>2. ASSUME NEW g, g[t] = r, \A u \in Threads \ {t} : g[u] = pend[u]
        PROVE  Refilling(g, x) + (IF pend[t] = x THEN 1 ELSE 0)
                 = Refilling(pend, x) + (IF r = x THEN 1 ELSE 0)
    BY <1>2, <2>2, RefillingExcept
  <2> QED
    BY <2>1, <2>2
<1>4. Refilling(pend, x) \in Nat /\ Refilling(pend', x) \in Nat
  BY RefillingType
<1>5. /\ CameraPlaces(x) = Bit(x \in ducati) + Occurs(fbd, x)
           + Bit(omx.pc = "count" /\ omx.buf = x) + Refilling(pend, x)
      /\ CameraPlaces(x) \in Nat
  BY BookTypes
<1>6. CameraPlaces(x)' = Bit(x \in ducati) + Occurs(fbd, x)
        + Bit(omx.pc = "count" /\ omx.buf = x) + Refilling(pend', x)
  BY DEF CameraPlaces, Occurs, Refilling
<1>7. Occurs(fbd, x) \in Nat
  BY TypeParts, OccursType DEF Outline, CameraTypes
<1> QED
  BY <1>2, <1>3, <1>4, <1>5, <1>6, <1>7 DEF Bit

(* returnFrame keeps the books: the holder that returns the frame had it,  *)
(* and the last one takes the buffer to refill it.                         *)
LEMMA GiveBack ==
  ASSUME Outline, NEW t \in Threads, NEW b \in Bufs, NEW type \in Types,
         Ready(t), ReturnFrame(t, b, type),
         UNCHANGED <<recording, vsubs, ducati, fbd, omx>>,
         \A x \in Bufs : Books(x),
         ~recording => count.video[b] <= 0,
         type = "preview" => PreviewHolders(b) > 0,
         type = "video" /\ Recording => VideoHolders(b) > 0,
         \A x \in Bufs : PreviewHolders(x)'
           = IF x = b /\ type = "preview" THEN PreviewHolders(x) - 1
             ELSE PreviewHolders(x),
         Recording => \A x \in Bufs : VideoHolders(x)'
           = IF x = b /\ type = "video" THEN VideoHolders(x) - 1
             ELSE VideoHolders(x)
  PROVE  \A x \in Bufs : Books(x)'
<1>0. /\ CountType /\ PendType
      /\ count.preview \in [Bufs -> -1..2] /\ count.video \in [Bufs -> -1..2]
      /\ count["preview"] = count.preview /\ count["video"] = count.video
  BY TypeParts DEF Outline, CountType, Types
<1>1. CASE ~(count[type][b] > 0)
  <2>1. UNCHANGED <<count, pend>>
    BY <1>1 DEF ReturnFrame
  <2>2. type # "preview"
    <3> SUFFICES ASSUME type = "preview" PROVE FALSE
      OBVIOUS
    <3>1. count.preview[b] > 0
      BY DEF Books
    <3> QED
      BY <1>0, <1>1, <3>1
  <2>3. type = "video" /\ ~Recording
    <3>1. type = "video"
      BY <2>2 DEF Types
    <3> SUFFICES ASSUME Recording PROVE FALSE
      BY <3>1
    <3>2. count.video[b] > 0
      BY <3>1 DEF Books
    <3> QED
      BY <1>0, <1>1, <3>1, <3>2
  <2>4. ~Recording'
    BY <2>3 DEF Recording
  <2> TAKE x \in Bufs
  <2>5. CameraPlaces(x)' = CameraPlaces(x)
    BY <2>1 DEF CameraPlaces
  <2>6. PreviewHolders(x)' = PreviewHolders(x)
    BY <2>2
  <2> QED
    BY <2>1, <2>4, <2>5, <2>6 DEF Books, Placed
<1>2. CASE count[type][b] > 0
  <2>1. PICK r \in Bufs \cup {None} :
          /\ count' = [count EXCEPT ![type][b] = @ - 1]
          /\ pend' = [pend EXCEPT ![t] = r]
          /\ r = IF Unneeded(count', b, type) THEN b ELSE None
    BY <1>2 DEF ReturnFrame
  <2>2. \A x \in Bufs : CameraPlaces(x)' = CameraPlaces(x) + Bit(r = x)
    BY <2>1, PlacesOfRefill
  <2> TAKE x \in Bufs
  <2>3. PreviewHolders(x) \in Nat /\ VideoHolders(x) \in Nat /\ CameraPlaces(x) \in Nat
    BY BookTypes
  <2>4. /\ count.preview[x] \in Int /\ count.video[x] \in Int
        /\ count'.preview[x] = IF x = b /\ type = "preview" THEN count.preview[x] - 1
                               ELSE count.preview[x]
        /\ count'.video[x] = IF x = b /\ type = "video" THEN count.video[x] - 1
                             ELSE count.video[x]
        /\ count'["preview"][x] = count'.preview[x]
        /\ count'["video"][x] = count'.video[x]
    <3>1. CASE type = "preview"
      BY <1>0, <2>1, <3>1 DEF CountType, Types
    <3>2. CASE type = "video"
      BY <1>0, <2>1, <3>2 DEF CountType, Types
    <3> QED
      BY <3>1, <3>2 DEF Types
  <2>5. /\ count.preview[x] = PreviewHolders(x)
        /\ Recording => count.video[x] = VideoHolders(x)
        /\ Placed(x)
    BY DEF Books
  <2>6. PreviewHolders(x)' = IF x = b /\ type = "preview" THEN PreviewHolders(x) - 1
                             ELSE PreviewHolders(x)
    OBVIOUS
  <2>7. Recording => VideoHolders(x)' =
          IF x = b /\ type = "video" THEN VideoHolders(x) - 1 ELSE VideoHolders(x)
    OBVIOUS
  <2>8. Recording' <=> Recording
    BY DEF Recording
  <2>9. CASE x # b
    <3>1. CameraPlaces(x)' = CameraPlaces(x)
      <4>1. r # x
        BY <2>1, <2>9, FramesAssumption
      <4> QED
        BY <2>2, <2>3, <4>1 DEF Bit
    <3> QED
      BY <2>4, <2>5, <2>6, <2>7, <2>8, <2>9, <3>1 DEF Books, Placed
  <2>10. CASE x = b
    <3>1. r = b <=> Unneeded(count', b, type)
      BY <2>1, FramesAssumption
    <3>2. CameraPlaces(b)' = CameraPlaces(b) + (IF Unneeded(count', b, type) THEN 1 ELSE 0)
      BY <2>2, <3>1 DEF Bit
    <3>3. CASE type = "preview"
      <4>1. Unneeded(count', b, type) <=>
              count'.preview[b] = 0 /\ (recording => count'.video[b] <= 0)
        BY <2>4, <2>10, <3>3 DEF Unneeded, Types
      <4>2. CameraPlaces(b) = 0
        BY <2>5, <2>10, <3>3 DEF Placed
      <4> QED
        BY <2>3, <2>4, <2>5, <2>6, <2>7, <2>8, <2>10, <3>2, <3>3, <4>1, <4>2
        DEF Books, Placed, Recording
    <3>4. CASE type = "video"
      <4>1. recording /\ count.video[b] > 0
        BY <1>0, <1>2, <3>4
      <4>2. Unneeded(count', b, type) <=>
              count'.video[b] = 0 /\ (recording => count'.preview[b] <= 0)
        BY <2>4, <2>10, <3>4 DEF Unneeded, Types
      <4>3. CameraPlaces(b) = 0
        BY <2>4, <2>5, <2>10, <4>1 DEF Placed
      <4> QED
        BY <2>3, <2>4, <2>5, <2>6, <2>7, <2>8, <2>10, <3>2, <3>4, <4>1, <4>2, <4>3
        DEF Books, Placed, Recording
    <3> QED
      BY <3>3, <3>4 DEF Types
  <2> QED
    BY <2>9, <2>10
<1> QED
  BY <1>1, <1>2

-----------------------------------------------------------------------------
(* The books, step by step, while the preview runs.                        *)

Running ==
  /\ Outline /\ ~astray /\ VideoState /\ "display" \in psubs
  /\ Sending /\ \A b \in Bufs : Books(b)

(* A step that moves a buffer without changing its numbers. *)
LEMMA BooksSame ==
  ASSUME Running, UNCHANGED <<count, recording, vsubs>>,
         \A x \in Bufs : /\ CameraPlaces(x)' = CameraPlaces(x)
                         /\ PreviewHolders(x)' = PreviewHolders(x)
                         /\ VideoHolders(x)' = VideoHolders(x)
  PROVE  \A x \in Bufs : Books(x)'
BY DEF Running, Books, Placed, Recording

(* Holders that no step of the OMX thread, the display, the notifier or    *)
(* the encoder touches.                                                    *)
LEMMA HoldersSame ==
  ASSUME UNCHANGED <<omx, psubs, vsubs, window, tagged, disp, frameQ, note, enc,
                     encHas>>
  PROVE  \A x \in Bufs : /\ PreviewHolders(x)' = PreviewHolders(x)
                         /\ VideoHolders(x)' = VideoHolders(x)
BY DEF PreviewHolders, VideoHolders, Queued

(* Ducati gives a filled buffer to the OMX thread. *)
LEMMA FrameDoneBooks ==
  ASSUME Running, NEW b \in Bufs, FrameDone(b)
  PROVE  \A x \in Bufs : Books(x)'
<1> USE DEF adapterVars, dispVars, noteVars
<1>1. \A x \in Bufs : /\ PreviewHolders(x)' = PreviewHolders(x)
                      /\ VideoHolders(x)' = VideoHolders(x)
  BY HoldersSame DEF FrameDone
<1>2. ASSUME NEW x \in Bufs
      PROVE  CameraPlaces(x)' = CameraPlaces(x)
  <2>1. fbd \in Seq(Bufs) /\ b \in ducati
    BY TypeParts DEF Running, Outline, CameraTypes, FrameDone
  <2>2. Occurs(fbd', x) = IF b = x THEN Occurs(fbd, x) + 1 ELSE Occurs(fbd, x)
    BY <2>1, OccursAppend DEF FrameDone
  <2>3. Occurs(fbd, x) \in Nat /\ Refilling(pend, x) \in Nat
    BY <2>1, OccursType, RefillingType
  <2>4. /\ CameraPlaces(x) = Bit(x \in ducati) + Occurs(fbd, x)
             + Bit(omx.pc = "count" /\ omx.buf = x) + Refilling(pend, x)
        /\ CameraPlaces(x)' = Bit(x \in ducati') + Occurs(fbd', x)
             + Bit(omx.pc = "count" /\ omx.buf = x) + Refilling(pend, x)
    BY DEF CameraPlaces, Occurs, Refilling, FrameDone
  <2>5. x \in ducati' <=> x \in ducati /\ x # b
    BY DEF FrameDone
  <2> HIDE DEF adapterVars, dispVars, noteVars
  <2>6. CASE x = b
    BY <2>1, <2>2, <2>3, <2>4, <2>5, <2>6 DEF Bit
  <2>7. CASE x # b
    BY <2>1, <2>2, <2>3, <2>4, <2>5, <2>7 DEF Bit
  <2> QED
    BY <2>6, <2>7
<1>3. UNCHANGED <<count, recording, vsubs>>
  BY DEF FrameDone
<1> QED
  BY <1>1, <1>2, <1>3, BooksSame

(* A thread gives a buffer back to Ducati, which did not have it. *)
LEMMA FillThisBufferBooks ==
  ASSUME Running, NEW t \in Threads, FillThisBuffer(t)
  PROVE  \A x \in Bufs : Books(x)'
<1> USE DEF adapterVars, dispVars, noteVars
<1>1. \A x \in Bufs : /\ PreviewHolders(x)' = PreviewHolders(x)
                      /\ VideoHolders(x)' = VideoHolders(x)
  BY HoldersSame DEF FillThisBuffer
<1>2. PICK b \in Bufs : /\ pend[t] = b /\ ducati' = ducati \cup {b}
                        /\ pend'[t] = None
                        /\ \A u \in Threads \ {t} : pend'[u] = pend[u]
  <2>1. PendType
    BY TypeParts DEF Running, Outline
  <2>2. active
    BY DEF Running, Outline, AppState
  <2> QED
    BY <2>1, <2>2 DEF PendType, FillThisBuffer, Ready
<1>3. ASSUME NEW x \in Bufs
      PROVE  CameraPlaces(x)' = CameraPlaces(x)
  <2>1. CameraTypes /\ pend \in [Threads -> Bufs \cup {None}] /\ None # x
    BY TypeParts, FramesAssumption DEF Running, Outline, PendType
  <2>2. Refilling(pend', x) + (IF pend[t] = x THEN 1 ELSE 0)
          = Refilling(pend, x) + (IF None = x THEN 1 ELSE 0)
    <3>1. ASSUME NEW g, g[t] = None, \A u \in Threads \ {t} : g[u] = pend[u]
          PROVE  Refilling(g, x) + (IF pend[t] = x THEN 1 ELSE 0)
                   = Refilling(pend, x) + (IF None = x THEN 1 ELSE 0)
      BY <2>1, <3>1, RefillingExcept
    <3> QED
      BY <1>2, <3>1
  <2>3. /\ Occurs(fbd, x) \in Nat
        /\ Refilling(pend, x) \in Nat /\ Refilling(pend', x) \in Nat
    BY <2>1, OccursType, RefillingType DEF CameraTypes
  <2>4. /\ CameraPlaces(x) = Bit(x \in ducati) + Occurs(fbd, x)
             + Bit(omx.pc = "count" /\ omx.buf = x) + Refilling(pend, x)
        /\ CameraPlaces(x)' = Bit(x \in ducati') + Occurs(fbd, x)
             + Bit(omx.pc = "count" /\ omx.buf = x) + Refilling(pend', x)
    BY DEF CameraPlaces, Occurs, Refilling, FillThisBuffer
  <2>5. CameraPlaces(x) \in {0, 1}
    BY DEF Running, Books, Placed
  <2> HIDE DEF adapterVars, dispVars, noteVars
  <2>6. CASE x = b
    BY <1>2, <2>1, <2>2, <2>3, <2>4, <2>5, <2>6 DEF Bit
  <2>7. CASE x # b
    BY <1>2, <2>1, <2>2, <2>3, <2>4, <2>7 DEF Bit
  <2> QED
    BY <2>6, <2>7
<1>4. UNCHANGED <<count, recording, vsubs>>
  BY DEF FillThisBuffer
<1> QED
  BY <1>1, <1>3, <1>4, BooksSame

(* The OMX thread takes a filled buffer. *)
LEMMA TakeFrameBooks ==
  ASSUME Running, TakeFrame
  PROVE  \A x \in Bufs : Books(x)'
<1> USE DEF adapterVars, dispVars, noteVars
<1>1. /\ omx.pc = "idle" /\ omx'.pc = "count" /\ omx'.buf = Head(fbd)
      /\ fbd # <<>> /\ fbd' = Tail(fbd)
  BY DEF TakeFrame, Running, Outline, AppState
<1>2. \A x \in Bufs : /\ PreviewHolders(x)' = PreviewHolders(x)
                      /\ VideoHolders(x)' = VideoHolders(x)
  BY <1>1 DEF TakeFrame, PreviewHolders, VideoHolders, Queued
<1>3. ASSUME NEW x \in Bufs
      PROVE  CameraPlaces(x)' = CameraPlaces(x)
  <2>1. fbd \in Seq(Bufs)
    BY TypeParts DEF Running, Outline, CameraTypes
  <2>2. /\ Occurs(fbd, x) = IF Head(fbd) = x THEN Occurs(fbd', x) + 1
                            ELSE Occurs(fbd', x)
        /\ Occurs(fbd', x) \in Nat
    BY <1>1, <2>1, OccursTail
  <2>3. Refilling(pend, x) \in Nat
    BY RefillingType
  <2>4. /\ CameraPlaces(x) = Bit(x \in ducati) + Occurs(fbd, x)
             + Bit(omx.pc = "count" /\ omx.buf = x) + Refilling(pend, x)
        /\ CameraPlaces(x)' = Bit(x \in ducati) + Occurs(fbd', x)
             + Bit(omx'.pc = "count" /\ omx'.buf = x) + Refilling(pend, x)
    BY DEF CameraPlaces, Occurs, Refilling, TakeFrame
  <2> HIDE DEF adapterVars, dispVars, noteVars
  <2>5. CASE x = Head(fbd)
    BY <1>1, <2>2, <2>3, <2>4, <2>5 DEF Bit
  <2>6. CASE x # Head(fbd)
    BY <1>1, <2>2, <2>3, <2>4, <2>6 DEF Bit
  <2> QED
    BY <2>5, <2>6
<1>4. UNCHANGED <<count, recording, vsubs>>
  BY DEF TakeFrame
<1> QED
  BY <1>2, <1>3, <1>4, BooksSame

(* The subscribers that share a preview frame: at least the display. *)
LEMMA Subscribed ==
  ASSUME Running
  PROVE  Cardinality(psubs) \in 1..2 /\ Cardinality(vsubs) \in 0..1
<1>1. /\ IsFiniteSet(psubs) /\ Cardinality(psubs) \in 0..2
      /\ Cardinality(vsubs) \in 0..1
  BY TypeParts, SubscriberCounts DEF Running, Outline
<1>2. Cardinality(psubs) # 0
  BY <1>1, FS_EmptySet DEF Running
<1> QED
  BY <1>1, <1>2

(* The counts as two functions. *)
LEMMA CountFields ==
  ASSUME CountType
  PROVE  /\ count.preview \in [Bufs -> -1..2] /\ count.video \in [Bufs -> -1..2]
         /\ count["preview"] = count.preview /\ count["video"] = count.video
BY DEF CountType, Types

(* sendCallBacks counts the subscribers of the frame it has taken. *)
LEMMA SetInitBooks ==
  ASSUME Running, SetInitFrameRefCount
  PROVE  \A x \in Bufs : Books(x)'
<1> USE DEF adapterVars, dispVars, noteVars
<1>1. PICK b \in Bufs : /\ omx.buf = b /\ omx'.buf = b
                        /\ omx.pc = "count" /\ omx'.pc = "preview"
                        /\ omx'.video = omx.video
  BY TypeParts DEF Running, Outline, Steps, SetInitFrameRefCount, OmxType
<1>2. PICK p \in 1..2, v \in 0..1 : p = Cardinality(psubs) /\ v = Cardinality(vsubs)
  BY Subscribed
<1>3. CountType
  BY TypeParts DEF Running, Outline
<1>4. /\ count'.preview = Replaced(count.preview, b, p)
      /\ count'.video = IF omx.video THEN Replaced(count.video, b, v)
                        ELSE count.video
  BY <1>1, <1>2, <1>3, CountFields DEF SetInitFrameRefCount, CountType, Types
<1>5. UNCHANGED <<recording, vsubs, psubs, ducati, fbd, pend, window, tagged, disp,
                  frameQ, note, enc, encHas>>
  BY DEF SetInitFrameRefCount
<1> HIDE DEF adapterVars, dispVars, noteVars
<1> TAKE x \in Bufs
<1>6. /\ PreviewHolders(x) \in Nat /\ VideoHolders(x) \in Nat /\ CameraPlaces(x) \in Nat
      /\ Queued("preview", x) \in Nat /\ Queued("video", x) \in Nat
  BY BookTypes DEF Running, Types
<1>7. PreviewHolders(x)' = IF x = b THEN PreviewHolders(x) + p ELSE PreviewHolders(x)
  <2>1. Queued("preview", x)' = Queued("preview", x)
    BY <1>5 DEF Queued
  <2> QED
    BY <1>1, <1>2, <1>5, <1>6, <2>1 DEF PreviewHolders, Bit
<1>8. VideoHolders(x)' = IF x = b /\ omx.video THEN VideoHolders(x) + v
                         ELSE VideoHolders(x)
  <2>1. Queued("video", x)' = Queued("video", x)
    BY <1>5 DEF Queued
  <2> QED
    BY <1>1, <1>2, <1>5, <1>6, <2>1 DEF VideoHolders, Bit
<1>9. /\ CameraPlaces(x)' = IF x = b THEN CameraPlaces(x) - 1 ELSE CameraPlaces(x)
      /\ x = b => CameraPlaces(x) > 0
  <2>1. Occurs(fbd, x) \in Nat /\ Refilling(pend, x) \in Nat
    BY TypeParts, OccursType, RefillingType DEF Running, Outline, CameraTypes
  <2>2. /\ CameraPlaces(x) = Bit(x \in ducati) + Occurs(fbd, x)
             + Bit(omx.pc = "count" /\ omx.buf = x) + Refilling(pend, x)
        /\ CameraPlaces(x)' = Bit(x \in ducati) + Occurs(fbd, x)
             + Bit(omx'.pc = "count" /\ omx'.buf = x) + Refilling(pend, x)
    BY <1>5 DEF CameraPlaces, Occurs, Refilling
  <2> QED
    BY <1>1, <2>1, <2>2 DEF Bit
<1>10. /\ count.preview[x] \in Int /\ count.video[x] \in Int
       /\ count'.preview[x] = IF x = b /\ count.preview[x] # -1 THEN p
                              ELSE count.preview[x]
       /\ count'.video[x] = IF x = b /\ omx.video /\ count.video[x] # -1 THEN v
                            ELSE count.video[x]
  <2>1. count.preview \in [Bufs -> -1..2] /\ count.video \in [Bufs -> -1..2]
    BY <1>3, CountFields
  <2> QED
    BY <1>4, <2>1 DEF Replaced
<1>11. Recording' <=> Recording
  BY <1>5 DEF Recording
<1>12. /\ count.preview[x] = PreviewHolders(x)
       /\ Recording => count.video[x] = VideoHolders(x)
       /\ Placed(x)
  BY DEF Running, Books
<1>13. omx.video => Recording
  BY <1>1 DEF Running, VideoState
<1>14. CASE x = b
  <2>1. /\ CameraPlaces(x) = 1 /\ PreviewHolders(x) = 0
        /\ recording => count.video[x] <= 0
    <3>1. CameraPlaces(x) # 0
      BY <1>6, <1>9, <1>14
    <3> QED
      BY <1>12, <3>1 DEF Placed
  <2>2. Recording => VideoHolders(x) = 0 /\ count.video[x] = 0
    BY <1>6, <1>10, <1>12, <2>1 DEF Recording
  <2> QED
    BY <1>2, <1>5, <1>6, <1>7, <1>8, <1>9, <1>10, <1>11, <1>12, <1>13, <1>14,
       <2>1, <2>2 DEF Books, Placed
<1>15. CASE x # b
  BY <1>5, <1>7, <1>8, <1>9, <1>10, <1>11, <1>12, <1>15 DEF Books, Placed
<1> QED
  BY <1>14, <1>15

(* The frame of the OMX thread is held by its subscribers alone. *)
LEMMA SendingAlone ==
  ASSUME Running, omx.pc = "preview"
  PROVE  /\ omx.buf \in Bufs
         /\ count.preview[omx.buf] = Cardinality(psubs)
         /\ omx.buf \notin window \cap tagged
         /\ disp # [pc |-> "return", buf |-> omx.buf]
         /\ Queued("preview", omx.buf) = 0
<1>1. PICK b \in Bufs : omx.buf = b
  BY DEF Running, Outline, Steps
<1>2. /\ count.preview[b] = Cardinality(psubs)
      /\ count.preview[b] = PreviewHolders(b)
  BY <1>1 DEF Running, Sending, Books
<1>3. Cardinality(psubs) \in 1..2 /\ Queued("preview", b) \in Nat
  BY Subscribed, BookTypes DEF Running, Types
<1>4. PreviewHolders(b) = Bit(b \in window \cap tagged)
        + Bit(disp = [pc |-> "return", buf |-> b]) + Queued("preview", b)
        + Cardinality(psubs)
  BY <1>1 DEF PreviewHolders
<1> QED
  BY <1>1, <1>2, <1>3, <1>4 DEF Bit

(* What sendCallBacks does with a preview frame: every subscriber gets it. *)
LEMMA SendPreviewStep ==
  ASSUME Running, SendPreview, omx'.pc # "zoomError"
  PROVE  /\ window' = window \cup {omx.buf} /\ tagged' = tagged \cup {omx.buf}
         /\ dispQ' = dispQ + 1
         /\ frameQ' = IF "notifier" \in psubs
                      THEN Append(frameQ, <<"preview", omx.buf>>) ELSE frameQ
         /\ omx' = IF omx.video THEN [omx EXCEPT !.pc = "video"] ELSE Idle
<1>1. /\ count.preview[omx.buf] = Cardinality(psubs)
      /\ Cardinality(psubs) \in 1..2
  BY SendingAlone, Subscribed DEF SendPreview
<1>2. Sendable("preview", psubs)
  <2>1. pointers /\ CountType
    BY TypeParts DEF Running, Outline, AppState
  <2> QED
    BY <1>1, <2>1, CountFields DEF Sendable
<1>3. PICK S \in SUBSET psubs :
        /\ Cardinality(S) = count.preview[omx.buf]
        /\ IF "display" \in S THEN PostFrame
           ELSE UNCHANGED <<window, tagged, dispQ>>
        /\ frameQ' = IF "notifier" \in S
                     THEN Append(frameQ, <<"preview", omx.buf>>) ELSE frameQ
        /\ omx' = IF omx.video THEN [omx EXCEPT !.pc = "video"] ELSE Idle
  BY <1>2 DEF SendPreview, AdvanceZoom
<1>4. S = psubs
  <2>1. IsFiniteSet(psubs)
    BY TypeParts, SubscriberCounts DEF Running, Outline
  <2> QED
    BY <1>1, <1>3, <2>1, FS_Subset
<1>5. "display" \in psubs
  BY DEF Running
<1> QED
  BY <1>3, <1>4, <1>5 DEF PostFrame

(* How many subscribers there are. *)
LEMMA HowManySubscribers ==
  ASSUME Running
  PROVE  Cardinality(psubs) = IF "notifier" \in psubs THEN 2 ELSE 1
<1>1. psubs = IF "notifier" \in psubs THEN {"display"} \cup {"notifier"}
              ELSE {"display"}
  BY TypeParts DEF Running, Outline, SubsTypes
<1>2. IsFiniteSet({"display"}) /\ Cardinality({"display"}) = 1
  BY FS_Singleton
<1>3. "notifier" \notin {"display"}
  OBVIOUS
<1>4. Cardinality({"display"} \cup {"notifier"}) = 2
  BY <1>2, <1>3, FS_AddElement
<1> QED
  BY <1>1, <1>2, <1>4

(* Sending a preview frame hands it from the OMX thread to its subscribers. *)
LEMMA SendPreviewBooks ==
  ASSUME Running, SendPreview, omx'.pc # "zoomError"
  PROVE  \A x \in Bufs : Books(x)'
<1> USE DEF adapterVars, dispVars, noteVars
<1>1. PICK b \in Bufs : /\ omx.buf = b /\ omx.pc = "preview"
                        /\ window' = window \cup {b} /\ tagged' = tagged \cup {b}
                        /\ frameQ' = IF "notifier" \in psubs
                                     THEN Append(frameQ, <<"preview", b>>)
                                     ELSE frameQ
                        /\ omx' = IF omx.video THEN [omx EXCEPT !.pc = "video"]
                                  ELSE Idle
                        /\ b \notin window \cap tagged
                        /\ disp # [pc |-> "return", buf |-> b]
                        /\ Queued("preview", b) = 0
  BY SendPreviewStep, SendingAlone DEF SendPreview
<1>2. UNCHANGED <<count, recording, vsubs, psubs, ducati, fbd, pend, disp, note, enc,
                  encHas>>
  BY DEF SendPreview
<1>3. /\ omx'.pc = IF omx.video THEN "video" ELSE "idle"
      /\ omx.video => omx'.buf = b /\ omx'.video
  BY <1>1, TypeParts DEF Running, Outline, OmxType, Idle
<1> HIDE DEF adapterVars, dispVars, noteVars
<1>4. ASSUME NEW x \in Bufs
      PROVE  CameraPlaces(x)' = CameraPlaces(x)
  BY <1>1, <1>2, <1>3 DEF CameraPlaces
<1>5. frameQ \in Seq(Types \X Bufs) /\ <<"preview", b>> \in Types \X Bufs
  BY TypeParts DEF Running, Outline, QueueTypes, Types
<1>6. ASSUME NEW x \in Bufs
      PROVE  /\ Occurs(frameQ', <<"video", x>>) = Occurs(frameQ, <<"video", x>>)
             /\ Occurs(frameQ', <<"preview", x>>)
                  = IF x = b /\ "notifier" \in psubs
                    THEN Occurs(frameQ, <<"preview", x>>) + 1
                    ELSE Occurs(frameQ, <<"preview", x>>)
  <2>1. CASE "notifier" \in psubs
    <3>1. frameQ' = Append(frameQ, <<"preview", b>>)
      BY <1>1, <2>1
    <3>2. "preview" \in Types /\ "video" \in Types
      BY DEF Types
    <3>3. Occurs(frameQ', <<"video", x>>) = Occurs(frameQ, <<"video", x>>)
      <4>1. PICK e \in Types \X Bufs, y \in Types \X Bufs :
              e = <<"preview", b>> /\ y = <<"video", x>>
        BY <3>2
      <4>2. frameQ' = Append(frameQ, e) /\ e # y
        BY <3>1, <4>1
      <4> HIDE <4>1
      <4>3. Occurs(frameQ', y) = Occurs(frameQ, y)
        BY <1>5, <4>2, OccursAppend
      <4> QED
        BY <4>1, <4>3
    <3>4. Occurs(frameQ', <<"preview", x>>)
            = IF b = x THEN Occurs(frameQ, <<"preview", x>>) + 1
              ELSE Occurs(frameQ, <<"preview", x>>)
      <4>1. PICK e \in Types \X Bufs, y \in Types \X Bufs :
              e = <<"preview", b>> /\ y = <<"preview", x>>
        BY <3>2
      <4>2. frameQ' = Append(frameQ, e) /\ (e = y <=> b = x)
        BY <3>1, <4>1
      <4> HIDE <4>1
      <4>3. Occurs(frameQ', y) = IF b = x THEN Occurs(frameQ, y) + 1
                                 ELSE Occurs(frameQ, y)
        BY <1>5, <4>2, OccursAppend
      <4> QED
        BY <4>1, <4>3
    <3> QED
      BY <2>1, <3>3, <3>4
  <2>2. CASE "notifier" \notin psubs
    BY <1>1, <2>2
  <2> QED
    BY <2>1, <2>2
<1>7. ASSUME NEW x \in Bufs
      PROVE  VideoHolders(x)' = VideoHolders(x)
  <2>1. Queued("video", x)' = Queued("video", x)
    BY <1>2, <1>6 DEF Queued, Occurs
  <2> QED
    BY <1>1, <1>2, <1>3, <2>1 DEF VideoHolders
<1>8. ASSUME NEW x \in Bufs
      PROVE  PreviewHolders(x)' = PreviewHolders(x)
  <2>0. PICK n \in 1..2 : /\ n = Cardinality(psubs)
                          /\ n = IF "notifier" \in psubs THEN 2 ELSE 1
    BY Subscribed, HowManySubscribers
  <2>1. Queued("preview", x) \in Nat /\ Occurs(frameQ, <<"preview", x>>) \in Nat
    BY <1>5, BookTypes, OccursType DEF Running, Types
  <2>2. Queued("preview", x)' = IF x = b THEN Queued("preview", x) + (n - 1)
                                ELSE Queued("preview", x)
    <3>1. /\ Queued("preview", x) = Occurs(frameQ, <<"preview", x>>)
               + Bit(note = <<"preview", x>>)
          /\ Queued("preview", x)' = Occurs(frameQ', <<"preview", x>>)
               + Bit(note = <<"preview", x>>)
      BY <1>2 DEF Queued, Occurs
    <3>2. PICK m \in Nat : m = Occurs(frameQ, <<"preview", x>>)
      BY <2>1
    <3>3. Occurs(frameQ', <<"preview", x>>) = IF x = b THEN m + (n - 1) ELSE m
      <4>0. Occurs(frameQ', <<"preview", x>>)
              = IF x = b /\ "notifier" \in psubs THEN m + 1 ELSE m
        BY <1>6, <3>2
      <4>1. CASE "notifier" \in psubs
        BY <2>0, <4>0, <4>1
      <4>2. CASE "notifier" \notin psubs
        BY <2>0, <4>0, <4>2
      <4> QED
        BY <4>1, <4>2
    <3> QED
      BY <2>0, <3>1, <3>2, <3>3 DEF Bit
  <2>3. PreviewHolders(x) = Bit(x \in window \cap tagged)
          + Bit(disp = [pc |-> "return", buf |-> x]) + Queued("preview", x)
          + (IF b = x THEN n ELSE 0)
    BY <1>1, <2>0 DEF PreviewHolders
  <2>4. PreviewHolders(x)' = Bit(x \in window' \cap tagged')
          + Bit(disp = [pc |-> "return", buf |-> x]) + Queued("preview", x)' + 0
    BY <1>2, <1>3 DEF PreviewHolders
  <2>5. x \in window' \cap tagged' <=> x \in window \cap tagged \/ x = b
    BY <1>1
  <2>6. CASE x = b
    <3>1. /\ Bit(x \in window \cap tagged) = 0
          /\ Bit(x \in window' \cap tagged') = 1
          /\ Bit(disp = [pc |-> "return", buf |-> x]) = 0
      BY <1>1, <2>5, <2>6 DEF Bit
    <3>2. Queued("preview", x)' = n - 1 /\ Queued("preview", x) = 0
      BY <1>1, <2>0, <2>2, <2>6
    <3> QED
      BY <2>0, <2>3, <2>4, <2>6, <3>1, <3>2
  <2>7. CASE x # b
    BY <2>0, <2>1, <2>2, <2>3, <2>4, <2>5, <2>7 DEF Bit
  <2> QED
    BY <2>6, <2>7
<1> QED
  BY <1>2, <1>4, <1>7, <1>8, BooksSame

(* A frame posted to the notifier is queued once more. *)
LEMMA PostedFrame ==
  ASSUME Outline, NEW a \in Types, NEW b \in Bufs,
         frameQ' = Append(frameQ, <<a, b>>), note' = note,
         NEW c \in Types, NEW x \in Bufs
  PROVE  Queued(c, x)' = IF a = c /\ b = x THEN Queued(c, x) + 1 ELSE Queued(c, x)
<1>1. frameQ \in Seq(Types \X Bufs)
  BY TypeParts DEF Outline, QueueTypes
<1>2. PICK e \in Types \X Bufs, y \in Types \X Bufs : e = <<a, b>> /\ y = <<c, x>>
  OBVIOUS
<1>3. frameQ' = Append(frameQ, e) /\ (e = y <=> a = c /\ b = x)
  BY <1>2
<1>4. /\ Queued(c, x) = Occurs(frameQ, y) + Bit(note = y)
      /\ Queued(c, x)' = Occurs(frameQ', y) + Bit(note = y)
  BY <1>2 DEF Queued, Occurs
<1> HIDE <1>2
<1>5. /\ Occurs(frameQ', y) = IF e = y THEN Occurs(frameQ, y) + 1
                              ELSE Occurs(frameQ, y)
      /\ Occurs(frameQ, y) \in Nat
  <2>1. Occurs(Append(frameQ, e), y) = IF e = y THEN Occurs(frameQ, y) + 1
                                       ELSE Occurs(frameQ, y)
    BY <1>1, OccursAppend
  <2>2. Occurs(frameQ, y) \in Nat
    BY <1>1, OccursType
  <2> QED
    BY <1>3, <2>1, <2>2
<1> QED
  BY <1>3, <1>4, <1>5 DEF Bit

(* The frame the notifier takes stays with it. *)
LEMMA TakenFrame ==
  ASSUME Outline, note = NoFrame, frameQ # <<>>,
         note' = Head(frameQ), frameQ' = Tail(frameQ),
         NEW c \in Types, NEW x \in Bufs
  PROVE  Queued(c, x)' = Queued(c, x)
<1>1. frameQ \in Seq(Types \X Bufs)
  BY TypeParts DEF Outline, QueueTypes
<1>2. PICK y \in Types \X Bufs : y = <<c, x>>
  OBVIOUS
<1>3. note # y
  BY <1>2, FramesAssumption DEF NoFrame
<1>4. /\ Queued(c, x) = Occurs(frameQ, y) + Bit(note = y)
      /\ Queued(c, x)' = Occurs(frameQ', y) + Bit(note' = y)
  BY <1>2 DEF Queued, Occurs
<1> HIDE <1>2
<1>5. /\ Occurs(frameQ, y) = IF note' = y THEN Occurs(frameQ', y) + 1
                             ELSE Occurs(frameQ', y)
      /\ Occurs(frameQ', y) \in Nat
  BY <1>1, OccursTail
<1> QED
  BY <1>3, <1>4, <1>5 DEF Bit

(* Sending a video frame hands it from the OMX thread to the notifier. *)
LEMMA SendVideoStep ==
  ASSUME Running, SendVideo, omx'.pc # "zoomError"
  PROVE  /\ omx.buf \in Bufs /\ Recording
         /\ frameQ' = Append(frameQ, <<"video", omx.buf>>) /\ omx' = Idle
<1>1. omx.pc = "video" /\ omx.buf \in Bufs
  BY DEF SendVideo, Running, Outline, Steps
<1>2. omx.video
  BY <1>1 DEF Running, Outline, Steps
<1>3. Recording /\ count.video[omx.buf] = 1
  BY <1>1, <1>2 DEF Running, VideoState
<1>4. Cardinality(vsubs) = 1
  <2>1. vsubs = {"notifier"}
    BY <1>3, TypeParts DEF Running, Outline, SubsTypes, Recording
  <2> QED
    BY <2>1, FS_Singleton
<1>5. Sendable("video", vsubs)
  <2>1. pointers /\ CountType
    BY TypeParts DEF Running, Outline, AppState
  <2> QED
    BY <1>3, <1>4, <2>1, CountFields DEF Sendable
<1> QED
  BY <1>1, <1>3, <1>5 DEF SendVideo, AdvanceZoom

(* Sending a video frame keeps the books. *)
LEMMA SendVideoBooks ==
  ASSUME Running, SendVideo, omx'.pc # "zoomError"
  PROVE  \A x \in Bufs : Books(x)'
<1> USE DEF adapterVars, dispVars, noteVars
<1>1. PICK b \in Bufs : /\ omx.buf = b /\ omx.pc = "video" /\ omx.video
                        /\ frameQ' = Append(frameQ, <<"video", b>>)
                        /\ omx'.pc = "idle" /\ Recording
  BY SendVideoStep DEF SendVideo, Idle, Running, Outline, Steps
<1>2. UNCHANGED <<count, recording, vsubs, psubs, ducati, fbd, pend, window, tagged,
                  disp, note, enc, encHas>>
  BY DEF SendVideo
<1> HIDE DEF adapterVars, dispVars, noteVars
<1>3. Cardinality(vsubs) = 1
  <2>1. vsubs = {"notifier"}
    BY <1>1, TypeParts DEF Running, Outline, SubsTypes, Recording
  <2> QED
    BY <2>1, FS_Singleton
<1>4. ASSUME NEW x \in Bufs
      PROVE  /\ Queued("preview", x)' = Queued("preview", x)
             /\ Queued("video", x)' = IF b = x THEN Queued("video", x) + 1
                                      ELSE Queued("video", x)
  <2>1. "preview" \in Types /\ "video" \in Types /\ note' = note /\ Outline
    BY <1>2 DEF Types, Running
  <2>2. \A c \in Types : Queued(c, x)' = IF "video" = c /\ b = x THEN Queued(c, x) + 1
                                         ELSE Queued(c, x)
    BY <1>1, <2>1, PostedFrame
  <2> QED
    BY <2>1, <2>2
<1>5. ASSUME NEW x \in Bufs
      PROVE  /\ CameraPlaces(x)' = CameraPlaces(x)
             /\ PreviewHolders(x)' = PreviewHolders(x)
  BY <1>1, <1>2, <1>4 DEF CameraPlaces, PreviewHolders
<1>6. ASSUME NEW x \in Bufs
      PROVE  VideoHolders(x)' = VideoHolders(x)
  <2>1. Queued("video", x) \in Nat
    BY BookTypes DEF Running, Types
  <2>2. VideoHolders(x) = Queued("video", x) + Bit(x \in enc) + Bit(encHas = x)
          + (IF b = x THEN 1 ELSE 0)
    BY <1>1, <1>3 DEF VideoHolders
  <2>3. VideoHolders(x)' = Queued("video", x)' + Bit(x \in enc) + Bit(encHas = x) + 0
    BY <1>1, <1>2 DEF VideoHolders
  <2> QED
    BY <1>4, <2>1, <2>2, <2>3 DEF Bit
<1> QED
  BY <1>2, <1>5, <1>6, BooksSame

(* The display thread takes a message, then the buffer it stands for. *)
LEMMA DisplayBooks ==
  ASSUME Running, TakeDisplayMessage \/ DequeueBuffer
  PROVE  \A x \in Bufs : Books(x)'
<1> USE DEF adapterVars, dispVars, noteVars
<1>1. UNCHANGED <<count, recording, vsubs, psubs, ducati, fbd, pend, omx, frameQ,
                  note, enc, encHas>>
  BY DEF TakeDisplayMessage, DequeueBuffer
<1>2. CASE TakeDisplayMessage
  <2>1. /\ disp.pc = "idle" /\ disp'.pc = "dequeue"
        /\ UNCHANGED <<window, tagged>>
    BY <1>2, TypeParts DEF TakeDisplayMessage, Running, Outline, DispType
  <2>2. ASSUME NEW x \in Bufs
        PROVE  /\ disp # [pc |-> "return", buf |-> x]
               /\ disp' # [pc |-> "return", buf |-> x]
    BY <2>1
  <2> HIDE DEF adapterVars, dispVars, noteVars
  <2>3. ASSUME NEW x \in Bufs
        PROVE  /\ CameraPlaces(x)' = CameraPlaces(x)
               /\ VideoHolders(x)' = VideoHolders(x)
               /\ PreviewHolders(x)' = PreviewHolders(x)
    BY <1>1, <2>1, <2>2 DEF CameraPlaces, VideoHolders, PreviewHolders, Queued, Bit
  <2> QED
    BY <1>1, <2>3, BooksSame
<1>3. CASE DequeueBuffer
  <2>0. window = tagged
    BY <1>3 DEF DequeueBuffer, Running, Outline, Steps, AppState
  <2>1. PICK b \in window : /\ window' = window \ {b} /\ tagged' = tagged \ {b}
                            /\ disp' = [pc |-> "return", buf |-> b]
                            /\ disp.pc = "dequeue"
    BY <1>3, <2>0 DEF DequeueBuffer
  <2>2. ASSUME NEW x \in Bufs
        PROVE  /\ disp # [pc |-> "return", buf |-> x]
               /\ disp' = [pc |-> "return", buf |-> x] <=> x = b
               /\ x \in window' \cap tagged' <=> x \in window \cap tagged /\ x # b
               /\ b \in window \cap tagged
    BY <2>0, <2>1
  <2> HIDE DEF adapterVars, dispVars, noteVars
  <2>3. ASSUME NEW x \in Bufs
        PROVE  /\ CameraPlaces(x)' = CameraPlaces(x)
               /\ VideoHolders(x)' = VideoHolders(x)
               /\ Queued("preview", x)' = Queued("preview", x)
               /\ Queued("preview", x) \in Nat
    BY <1>1, BookTypes DEF Running, Types, CameraPlaces, VideoHolders, Queued
  <2>4. ASSUME NEW x \in Bufs
        PROVE  PreviewHolders(x)' = PreviewHolders(x)
    <3>1. PICK k \in Nat :
            k = IF omx.pc = "preview" /\ omx.buf = x THEN Cardinality(psubs) ELSE 0
      BY Subscribed
    <3>2. PreviewHolders(x) = Bit(x \in window \cap tagged)
            + Bit(disp = [pc |-> "return", buf |-> x]) + Queued("preview", x) + k
      BY <3>1 DEF PreviewHolders
    <3>3. PreviewHolders(x)' = Bit(x \in window' \cap tagged')
            + Bit(disp' = [pc |-> "return", buf |-> x]) + Queued("preview", x)' + k
      BY <1>1, <3>1 DEF PreviewHolders
    <3>4. CASE x = b
      BY <2>2, <2>3, <3>2, <3>3, <3>4 DEF Bit
    <3>5. CASE x # b
      BY <2>2, <2>3, <3>2, <3>3, <3>5 DEF Bit
    <3> QED
      BY <3>4, <3>5
  <2> QED
    BY <1>1, <2>3, <2>4, BooksSame
<1> QED
  BY <1>2, <1>3

(* The display thread returns a preview frame. *)
LEMMA DisplayReturnBooks ==
  ASSUME Running, DisplayReturn
  PROVE  \A x \in Bufs : Books(x)'
<1> USE DEF adapterVars, dispVars, noteVars
<1>1. PICK b \in Bufs : /\ ReturnFrame("disp", b, "preview")
                        /\ disp.pc = "return" /\ disp.buf = b
                        /\ disp'.pc = "idle"
                        /\ Ready("disp")
  BY DEF DisplayReturn, Running, Outline, Steps
<1>2. UNCHANGED <<recording, vsubs, psubs, ducati, fbd, omx, window, tagged, frameQ,
                  note, enc, encHas>>
  BY DEF DisplayReturn
<1> HIDE DEF adapterVars, dispVars, noteVars
<1>3. ASSUME NEW x \in Bufs
      PROVE  /\ disp = [pc |-> "return", buf |-> x] <=> x = b
             /\ disp' # [pc |-> "return", buf |-> x]
  <2>1. disp = [pc |-> "return", buf |-> b]
    BY <1>1, TypeParts DEF Running, Outline, DispType
  <2> QED
    BY <1>1, <2>1
<1>4. ASSUME NEW x \in Bufs
      PROVE  /\ PreviewHolders(x)' = IF x = b THEN PreviewHolders(x) - 1
                                     ELSE PreviewHolders(x)
             /\ x = b => PreviewHolders(x) > 0
             /\ VideoHolders(x)' = VideoHolders(x)
  <2>1. PICK k \in Nat :
          k = IF omx.pc = "preview" /\ omx.buf = x THEN Cardinality(psubs) ELSE 0
    BY Subscribed
  <2>2. Queued("preview", x) \in Nat /\ Queued("preview", x)' = Queued("preview", x)
    BY <1>2, BookTypes DEF Running, Types, Queued
  <2>3. PreviewHolders(x) = Bit(x \in window \cap tagged)
          + Bit(disp = [pc |-> "return", buf |-> x]) + Queued("preview", x) + k
    BY <2>1 DEF PreviewHolders
  <2>4. PreviewHolders(x)' = Bit(x \in window \cap tagged)
          + Bit(disp' = [pc |-> "return", buf |-> x]) + Queued("preview", x) + k
    BY <1>2, <2>1, <2>2 DEF PreviewHolders
  <2>5. VideoHolders(x)' = VideoHolders(x)
    BY <1>2 DEF VideoHolders, Queued
  <2> QED
    BY <1>3, <2>2, <2>3, <2>4, <2>5 DEF Bit
<1>5. /\ "disp" \in Threads /\ "preview" \in Types /\ Outline
      /\ \A x \in Bufs : Books(x)
      /\ ~recording => count.video[b] <= 0
  BY DEF Threads, Types, Running, VideoState
<1> QED
  BY <1>1, <1>2, <1>4, <1>5, GiveBack

(* The notifier takes a frame from its queue. *)
LEMMA NotifierGetBooks ==
  ASSUME Running, NotifierGet
  PROVE  \A x \in Bufs : Books(x)'
<1> USE DEF adapterVars, dispVars, noteVars
<1>1. /\ note = NoFrame /\ frameQ # <<>> /\ note' = Head(frameQ)
      /\ frameQ' = Tail(frameQ) /\ Outline
  BY DEF NotifierGet, Running
<1>2. UNCHANGED <<count, recording, vsubs, psubs, ducati, fbd, pend, omx, window,
                  tagged, disp, enc, encHas>>
  BY DEF NotifierGet
<1> HIDE DEF adapterVars, dispVars, noteVars
<1>3. ASSUME NEW x \in Bufs
      PROVE  /\ Queued("preview", x)' = Queued("preview", x)
             /\ Queued("video", x)' = Queued("video", x)
  <2>1. "preview" \in Types /\ "video" \in Types
    BY DEF Types
  <2> QED
    BY <1>1, <2>1, TakenFrame
<1>4. ASSUME NEW x \in Bufs
      PROVE  /\ CameraPlaces(x)' = CameraPlaces(x)
             /\ PreviewHolders(x)' = PreviewHolders(x)
             /\ VideoHolders(x)' = VideoHolders(x)
  BY <1>2, <1>3 DEF CameraPlaces, PreviewHolders, VideoHolders
<1> QED
  BY <1>2, <1>4, BooksSame

(* The frame in the notifier's hands leaves it. *)
LEMMA DroppedFrame ==
  ASSUME Outline, NEW a \in Types, NEW b \in Bufs,
         note = <<a, b>>, note' = NoFrame, frameQ' = frameQ,
         NEW c \in Types, NEW x \in Bufs
  PROVE  /\ Queued(c, x)' = IF a = c /\ b = x THEN Queued(c, x) - 1 ELSE Queued(c, x)
         /\ a = c /\ b = x => Queued(c, x) > 0
<1>1. frameQ \in Seq(Types \X Bufs)
  BY TypeParts DEF Outline, QueueTypes
<1>2. PICK y \in Types \X Bufs : y = <<c, x>>
  OBVIOUS
<1>3. note' # y /\ (note = y <=> a = c /\ b = x)
  BY <1>2, FramesAssumption DEF NoFrame
<1>4. /\ Queued(c, x) = Occurs(frameQ, y) + Bit(note = y)
      /\ Queued(c, x)' = Occurs(frameQ, y) + Bit(note' = y)
  BY <1>2 DEF Queued, Occurs
<1>5. Occurs(frameQ, y) \in Nat
  BY <1>1, OccursType
<1> QED
  BY <1>3, <1>4, <1>5 DEF Bit

(* The notifier gives a frame back, passes it to the encoder or forgets it. *)
LEMMA NotifyFrameBooks ==
  ASSUME Running, NotifyFrame
  PROVE  \A x \in Bufs : Books(x)'
<1> USE DEF adapterVars, dispVars, noteVars
<1>1. PICK a \in Types, b \in Bufs : note = <<a, b>>
  BY TypeParts DEF NotifyFrame, Running, Outline, QueueTypes
<1>2. /\ note' = NoFrame /\ frameQ' = frameQ /\ Outline /\ Ready("note")
      /\ \A x \in Bufs : Books(x)
      /\ ~recording => count.video[b] <= 0
  BY DEF NotifyFrame, Running, VideoState, Outline, Steps
<1>3. UNCHANGED <<recording, vsubs, psubs, ducati, fbd, omx, window, tagged, disp,
                  encHas>>
  BY DEF NotifyFrame
<1>4. \/ ReturnFrame("note", b, a) /\ enc' = enc
      \/ /\ a = "video" /\ UNCHANGED <<count, pend>>
         /\ enc' = IF vsubs # {} THEN enc \cup {b} ELSE enc
  BY <1>1 DEF NotifyFrame
<1> HIDE DEF adapterVars, dispVars, noteVars
<1>5. "preview" \in Types /\ "video" \in Types /\ "preview" # "video"
  BY DEF Types
<1>6. ASSUME NEW x \in Bufs, NEW c \in Types
      PROVE  /\ Queued(c, x)' = IF a = c /\ b = x THEN Queued(c, x) - 1
                                ELSE Queued(c, x)
             /\ a = c /\ b = x => Queued(c, x) > 0
             /\ Queued(c, x) \in Nat
  BY <1>1, <1>2, DroppedFrame, BookTypes
<1>7. ASSUME NEW x \in Bufs
      PROVE  /\ PreviewHolders(x)' = IF x = b /\ a = "preview"
                                     THEN PreviewHolders(x) - 1 ELSE PreviewHolders(x)
             /\ x = b /\ a = "preview" => PreviewHolders(x) > 0
  <2>1. PICK k \in Nat :
          k = Bit(x \in window \cap tagged) + Bit(disp = [pc |-> "return", buf |-> x])
      BY DEF Bit
  <2>2. PICK m \in Nat :
          m = IF omx.pc = "preview" /\ omx.buf = x THEN Cardinality(psubs) ELSE 0
    BY Subscribed
  <2>3. PreviewHolders(x) = k + Queued("preview", x) + m
    BY <2>1, <2>2 DEF PreviewHolders
  <2>4. PreviewHolders(x)' = k + Queued("preview", x)' + m
    BY <1>3, <2>1, <2>2 DEF PreviewHolders
  <2> QED
    BY <1>5, <1>6, <2>3, <2>4
<1>8. ASSUME NEW x \in Bufs
      PROVE  \E k, m \in Nat :
               /\ k = Bit(encHas = x)
               /\ m = IF omx.pc \in {"preview", "video"} /\ omx.buf = x /\ omx.video
                      THEN Cardinality(vsubs) ELSE 0
               /\ VideoHolders(x) = Queued("video", x) + Bit(x \in enc) + k + m
               /\ VideoHolders(x)' = Queued("video", x)' + Bit(x \in enc') + k + m
  <2>1. PICK k \in Nat : k = Bit(encHas = x)
    BY DEF Bit
  <2>2. PICK m \in Nat :
          m = IF omx.pc \in {"preview", "video"} /\ omx.buf = x /\ omx.video
              THEN Cardinality(vsubs) ELSE 0
    BY Subscribed
  <2>3. VideoHolders(x) = Queued("video", x) + Bit(x \in enc) + k + m
    BY <2>1, <2>2 DEF VideoHolders
  <2>4. VideoHolders(x)' = Queued("video", x)' + Bit(x \in enc') + k + m
    BY <1>3, <2>1, <2>2 DEF VideoHolders
  <2> QED
    BY <2>1, <2>2, <2>3, <2>4
<1>9. CASE ReturnFrame("note", b, a) /\ enc' = enc
  <2>1. ASSUME NEW x \in Bufs
        PROVE  /\ VideoHolders(x)' = IF x = b /\ a = "video"
                                     THEN VideoHolders(x) - 1 ELSE VideoHolders(x)
               /\ x = b /\ a = "video" => VideoHolders(x) > 0
    <3>1. PICK k, m \in Nat :
             /\ VideoHolders(x) = Queued("video", x) + Bit(x \in enc) + k + m
             /\ VideoHolders(x)' = Queued("video", x)' + Bit(x \in enc) + k + m
      BY <1>8, <1>9
    <3>2. PICK i \in Nat : i = Bit(x \in enc)
      BY DEF Bit
    <3>3. /\ Queued("video", x)' = IF a = "video" /\ b = x THEN Queued("video", x) - 1
                                   ELSE Queued("video", x)
          /\ a = "video" /\ b = x => Queued("video", x) > 0
          /\ Queued("video", x) \in Nat
      BY <1>5, <1>6
    <3>4. /\ VideoHolders(x) = Queued("video", x) + i + k + m
          /\ VideoHolders(x)' = Queued("video", x)' + i + k + m
      BY <3>1, <3>2
    <3> HIDE <3>1, <3>2
    <3> QED
      BY <3>3, <3>4
  <2>2. "note" \in Threads
    BY DEF Threads
  <2> QED
    BY <1>2, <1>3, <1>7, <1>9, <2>1, <2>2, GiveBack
<1>10. CASE /\ a = "video" /\ UNCHANGED <<count, pend>>
            /\ enc' = IF vsubs # {} THEN enc \cup {b} ELSE enc
  <2>1. ASSUME NEW x \in Bufs
        PROVE  /\ CameraPlaces(x)' = CameraPlaces(x)
               /\ PreviewHolders(x)' = PreviewHolders(x)
    BY <1>3, <1>5, <1>7, <1>10 DEF CameraPlaces
  <2>2. ASSUME NEW x \in Bufs, Recording
        PROVE  VideoHolders(x)' = VideoHolders(x)
    <3>1. PICK k, m \in Nat :
             /\ VideoHolders(x) = Queued("video", x) + Bit(x \in enc) + k + m
             /\ VideoHolders(x)' = Queued("video", x)' + Bit(x \in enc') + k + m
      BY <1>8
    <3>2. VideoHolders(x) <= 1
      <4>1. CountType
        BY TypeParts DEF Running, Outline
      <4>2. count.video[x] = VideoHolders(x) /\ count.video[x] <= 1
        BY <2>2 DEF Running, Books, VideoState
      <4> QED
        BY <4>2
    <3>3. /\ Queued("video", x)' = IF b = x THEN Queued("video", x) - 1
                                   ELSE Queued("video", x)
          /\ b = x => Queued("video", x) > 0
          /\ Queued("video", x) \in Nat
      BY <1>5, <1>6, <1>10
    <3>4. x \in enc' <=> x \in enc \/ x = b
      BY <1>10, <2>2 DEF Recording
    <3>5. CASE x = b
      BY <3>1, <3>2, <3>3, <3>4, <3>5 DEF Bit
    <3>6. CASE x # b
      BY <3>1, <3>3, <3>4, <3>6 DEF Bit
    <3> QED
      BY <3>5, <3>6
  <2>3. Recording' <=> Recording
    BY <1>3 DEF Recording
  <2> QED
    BY <1>2, <1>3, <1>10, <2>1, <2>2, <2>3 DEF Books, Placed
<1> QED
  BY <1>4, <1>9, <1>10

(* releaseRecordingFrame looks a frame up. *)
LEMMA ReleaseLookupBooks ==
  ASSUME Running, NEW b \in Bufs, ReleaseLookup(b)
  PROVE  \A x \in Bufs : Books(x)'
<1> USE DEF adapterVars, dispVars, noteVars
<1>1. b \in enc /\ encHas = None /\ encHas' = b /\ enc' = enc \ {b}
  BY DEF ReleaseLookup
<1>2. UNCHANGED <<count, recording, vsubs, psubs, ducati, fbd, pend, omx, window,
                  tagged, disp, frameQ, note>>
  BY DEF ReleaseLookup
<1> HIDE DEF adapterVars, dispVars, noteVars
<1>3. ASSUME NEW x \in Bufs
      PROVE  /\ CameraPlaces(x)' = CameraPlaces(x)
             /\ PreviewHolders(x)' = PreviewHolders(x)
             /\ Queued("video", x)' = Queued("video", x)
             /\ Queued("video", x) \in Nat
  BY <1>2, BookTypes DEF Running, Types, CameraPlaces, PreviewHolders, Queued
<1>4. ASSUME NEW x \in Bufs
      PROVE  VideoHolders(x)' = VideoHolders(x)
  <2>1. PICK m \in Nat :
          m = IF omx.pc \in {"preview", "video"} /\ omx.buf = x /\ omx.video
              THEN Cardinality(vsubs) ELSE 0
    BY Subscribed
  <2>2. VideoHolders(x) = Queued("video", x) + Bit(x \in enc) + Bit(encHas = x) + m
    BY <2>1 DEF VideoHolders
  <2>3. VideoHolders(x)' = Queued("video", x) + Bit(x \in enc') + Bit(encHas' = x) + m
    BY <1>2, <1>3, <2>1 DEF VideoHolders
  <2>4. encHas # x
    BY <1>1, FramesAssumption
  <2>5. CASE x = b
    BY <1>1, <1>3, <2>2, <2>3, <2>4, <2>5 DEF Bit
  <2>6. CASE x # b
    BY <1>1, <1>3, <2>2, <2>3, <2>4, <2>6 DEF Bit
  <2> QED
    BY <2>5, <2>6
<1> QED
  BY <1>2, <1>3, <1>4, BooksSame

(* ... and returns it. *)
LEMMA ReleaseReturnBooks ==
  ASSUME Running, ReleaseReturn
  PROVE  \A x \in Bufs : Books(x)'
<1> USE DEF adapterVars, dispVars, noteVars
<1>1. PICK b \in Bufs : /\ ReturnFrame("enc", b, "video") /\ encHas = b
                        /\ encHas' = None /\ Ready("enc")
  BY TypeParts DEF ReleaseReturn, Running, Outline, Steps, EncTypes
<1>2. UNCHANGED <<recording, vsubs, psubs, ducati, fbd, omx, window, tagged, disp,
                  frameQ, note, enc>>
  BY DEF ReleaseReturn
<1> HIDE DEF adapterVars, dispVars, noteVars
<1>3. ASSUME NEW x \in Bufs
      PROVE  /\ PreviewHolders(x)' = PreviewHolders(x)
             /\ VideoHolders(x)' = IF x = b THEN VideoHolders(x) - 1
                                   ELSE VideoHolders(x)
             /\ x = b => VideoHolders(x) > 0
  <2>1. PICK m \in Nat :
          m = IF omx.pc \in {"preview", "video"} /\ omx.buf = x /\ omx.video
              THEN Cardinality(vsubs) ELSE 0
    BY Subscribed
  <2>2. Queued("video", x)' = Queued("video", x) /\ Queued("video", x) \in Nat
    BY <1>2, BookTypes DEF Running, Types, Queued
  <2>3. VideoHolders(x) = Queued("video", x) + Bit(x \in enc) + Bit(encHas = x) + m
    BY <2>1 DEF VideoHolders
  <2>4. VideoHolders(x)' = Queued("video", x) + Bit(x \in enc) + Bit(encHas' = x) + m
    BY <1>2, <2>1, <2>2 DEF VideoHolders
  <2>5. encHas' # x
    BY <1>1, FramesAssumption
  <2>6. PreviewHolders(x)' = PreviewHolders(x)
    BY <1>2 DEF PreviewHolders, Queued
  <2> QED
    BY <1>1, <2>2, <2>3, <2>4, <2>5, <2>6 DEF Bit
<1>4. /\ "enc" \in Threads /\ "video" \in Types /\ Outline
      /\ \A x \in Bufs : Books(x)
      /\ ~recording => count.video[b] <= 0
  BY DEF Threads, Types, Running, VideoState
<1> QED
  BY <1>1, <1>2, <1>3, <1>4, GiveBack

(* stopVideoCapture returns what is left of a recording. *)
LEMMA ReturnVideoBooks ==
  ASSUME Running, ReturnVideo
  PROVE  \A x \in Bufs : Books(x)'
<1> USE DEF adapterVars, dispVars, noteVars, Quiet
<1>1. PICK b \in Bufs : ReturnFrame("app", b, "video") /\ Ready("app")
  BY TypeParts DEF ReturnVideo, At, Running, Outline, AppType
<1>2. UNCHANGED <<recording, vsubs, psubs, ducati, fbd, omx, window, tagged, disp,
                  frameQ, note, enc, encHas>>
  BY DEF ReturnVideo
<1>3. ~Recording
  BY DEF ReturnVideo, At, Running, Outline, AppState, Recording
<1> HIDE DEF adapterVars, dispVars, noteVars, Quiet
<1>4. \A x \in Bufs : PreviewHolders(x)' = PreviewHolders(x)
  BY <1>2, HoldersSame
<1>5. /\ "app" \in Threads /\ "video" \in Types /\ "video" # "preview" /\ Outline
      /\ \A x \in Bufs : Books(x)
      /\ ~recording => count.video[b] <= 0
  BY DEF Threads, Types, Running, VideoState
<1> QED
  BY <1>1, <1>2, <1>3, <1>4, <1>5, GiveBack

(* startVideoCapture begins with no video frame. *)
LEMMA StartVideoBooks ==
  ASSUME Running, StartVideoCapture
  PROVE  \A x \in Bufs : Books(x)'
<1> USE DEF adapterVars, dispVars, noteVars, Quiet
<1>1. app.pc = "startVideo" /\ ~recording /\ enc = {} /\ ~VideoAround
  BY DEF StartVideoCapture, At, Running, Outline, AppState, VideoState
<1>2. UNCHANGED <<vsubs, psubs, ducati, fbd, pend, omx, window, tagged, disp, frameQ,
                  note, enc, encHas>>
  BY DEF StartVideoCapture
<1>3. count' = [count EXCEPT !.video = [b \in Bufs |-> 0]]
  BY DEF StartVideoCapture
<1> HIDE DEF adapterVars, dispVars, noteVars, Quiet
<1>4. \A x \in Bufs : count'.preview[x] = count.preview[x] /\ count'.video[x] = 0
  <2>1. CountType
    BY TypeParts DEF Running, Outline
  <2> QED
    BY <1>3, <2>1 DEF CountType, Types
<1>5. \A x \in Bufs : /\ PreviewHolders(x)' = PreviewHolders(x)
                      /\ VideoHolders(x)' = VideoHolders(x)
  BY <1>2, HoldersSame
<1>6. ASSUME NEW x \in Bufs
      PROVE  VideoHolders(x) = 0
  <2>1. encHas # x /\ x \notin enc /\ note # <<"video", x>>
    BY <1>1, FramesAssumption DEF VideoAround
  <2>2. ~(omx.pc \in {"preview", "video"} /\ omx.buf = x /\ omx.video)
    BY <1>1 DEF Running, VideoState, Recording
  <2>3. Cardinality({i \in DOMAIN frameQ : frameQ[i] = <<"video", x>>}) = 0
    <3>1. {i \in DOMAIN frameQ : frameQ[i] = <<"video", x>>} = {}
      BY <1>1 DEF VideoAround
    <3> QED
      BY <3>1, FS_EmptySet
  <2> QED
    BY <2>1, <2>2, <2>3 DEF VideoHolders, Queued, Bit
<1>7. ASSUME NEW x \in Bufs
      PROVE  CameraPlaces(x)' = CameraPlaces(x)
  BY <1>2 DEF CameraPlaces
<1>8. \A x \in Bufs : Books(x)
  BY DEF Running
<1> QED
  BY <1>1, <1>4, <1>5, <1>6, <1>7, <1>8 DEF Books, Placed

(* stopVideoCapture ends when no buffer has a video count. *)
LEMMA StopVideoBooks ==
  ASSUME Running, StopVideoCapture
  PROVE  \A x \in Bufs : Books(x)'
<1> USE DEF adapterVars, dispVars, noteVars, Quiet
<1>1. \A x \in Bufs : count.video[x] <= 0
  BY DEF StopVideoCapture, At, Running, VideoState
<1>2. UNCHANGED <<count, vsubs, psubs, ducati, fbd, pend, omx, window, tagged, disp,
                  frameQ, note, enc, encHas>> /\ ~recording'
  BY DEF StopVideoCapture
<1> HIDE DEF adapterVars, dispVars, noteVars, Quiet
<1>3. \A x \in Bufs : PreviewHolders(x)' = PreviewHolders(x)
  BY <1>2, HoldersSame
<1>4. ASSUME NEW x \in Bufs
      PROVE  CameraPlaces(x)' = CameraPlaces(x) /\ count.video[x] \in Int
  BY <1>2, TypeParts, CountFields DEF CameraPlaces, Running, Outline
<1>5. \A x \in Bufs : Books(x)
  BY DEF Running
<1> QED
  BY <1>1, <1>2, <1>3, <1>4, <1>5 DEF Books, Placed, Recording

(* The calls begin without touching a buffer. *)
LEMMA CallBooks ==
  ASSUME Running, StartRecording \/ StopRecording \/ TogglePreviewCallbacks
  PROVE  \A x \in Bufs : Books(x)'
<1> USE DEF adapterVars, dispVars, noteVars, Quiet
<1>1. /\ UNCHANGED <<count, recording, ducati, fbd, pend, omx, window, tagged, disp,
                     frameQ, note, encHas>>
      /\ omx.pc # "preview"
  BY DEF StartRecording, StopRecording, TogglePreviewCallbacks, SubscriberLockFree
<1>2. Recording' => UNCHANGED <<vsubs, enc>>
  BY DEF StartRecording, StopRecording, TogglePreviewCallbacks, RecordingEnabled,
         Recording, Running, Outline, AppState, At
<1> HIDE DEF adapterVars, dispVars, noteVars, Quiet
<1>3. ASSUME NEW x \in Bufs
      PROVE  /\ PreviewHolders(x)' = PreviewHolders(x)
             /\ CameraPlaces(x)' = CameraPlaces(x)
  BY <1>1 DEF PreviewHolders, CameraPlaces, Queued
<1>4. ASSUME NEW x \in Bufs, Recording'
      PROVE  Recording /\ VideoHolders(x)' = VideoHolders(x)
  BY <1>1, <1>2, <1>4 DEF VideoHolders, Queued, Recording
<1>5. \A x \in Bufs : Books(x)
  BY DEF Running
<1> QED
  BY <1>1, <1>3, <1>4, <1>5 DEF Books, Placed

(* Every step of a running preview keeps the books. *)
LEMMA BooksStep ==
  ASSUME Running, Next, ~astray', ("display" \in psubs)'
  PROVE  \A x \in Bufs : Books(x)'
<1>1. /\ app.pc \in {"idle", "startVideo", "stopVideo"}
      /\ omx.pc \notin {"error", "zoomError"} /\ omx'.pc # "zoomError"
  BY DEF Running, Outline, AppState, Sending, Next, Latch, Straying
<1>2. ~SendFailed /\ ~DisplayStop /\ ~RemoveFramePointers /\ ~FlushFrame
  BY <1>1 DEF SendFailed, DisplayStop, RemoveFramePointers, FlushFrame, At
<1>3. ~StopPreviewCallbacks /\ ~FlushPort /\ ~StopPort /\ ~StopPreview
  BY <1>1 DEF StopPreviewCallbacks, FlushPort, StopPort, StopPreview, At
<1>4. ASSUME NEW b \in Bufs, FrameDone(b) PROVE \A x \in Bufs : Books(x)'
  BY <1>4, FrameDoneBooks
<1>5. ASSUME NEW t \in Threads, FillThisBuffer(t) PROVE \A x \in Bufs : Books(x)'
  BY <1>5, FillThisBufferBooks
<1>6. ASSUME NEW b \in Bufs, ReleaseLookup(b) PROVE \A x \in Bufs : Books(x)'
  BY <1>6, ReleaseLookupBooks
<1>7. CASE OmxStep
  <2>1. "omx" \in Threads
    BY DEF Threads
  <2> QED
    BY <1>1, <1>2, <1>5, <1>7, <2>1, TakeFrameBooks, SetInitBooks, SendPreviewBooks,
       SendVideoBooks DEF OmxStep
<1>8. CASE DispStep
  <2>1. "disp" \in Threads
    BY DEF Threads
  <2> QED
    BY <1>2, <1>5, <1>8, <2>1, DisplayBooks, DisplayReturnBooks DEF DispStep
<1>9. CASE NoteStep
  <2>1. "note" \in Threads
    BY DEF Threads
  <2> QED
    BY <1>5, <1>9, <2>1, NotifierGetBooks, NotifyFrameBooks DEF NoteStep
<1>10. CASE EncStep
  <2>1. "enc" \in Threads
    BY DEF Threads
  <2> QED
    BY <1>5, <1>6, <1>10, <2>1, ReleaseReturnBooks DEF EncStep
<1>11. CASE AppStep
  <2>1. "app" \in Threads
    BY DEF Threads
  <2> QED
    BY <1>2, <1>3, <1>5, <1>11, <2>1, StartVideoBooks, StopVideoBooks,
       ReturnVideoBooks DEF AppStep
<1>12. CASE AppCall
  BY <1>3, <1>12, CallBooks DEF AppCall
<1> QED
  BY <1>4, <1>7, <1>8, <1>9, <1>10, <1>11, <1>12 DEF Next

(* A returned frame changes no other count. *)
LEMMA ReturnKeepsCounts ==
  ASSUME CountType, NEW t \in Threads, NEW b \in Bufs, NEW type \in Types,
         ReturnFrame(t, b, type), NEW x \in Bufs
  PROVE  /\ count'.preview[x] \in {count.preview[x], count.preview[x] - 1}
         /\ count'.video[x] \in {count.video[x], count.video[x] - 1}
         /\ type # "preview" \/ x # b => count'.preview[x] = count.preview[x]
         /\ type # "video" \/ x # b => count'.video[x] = count.video[x]
         /\ count.video[x] \in Int /\ count.preview[x] \in Int
         /\ type = "video" /\ x = b =>
              count'.video[x] = IF count.video[x] > 0 THEN count.video[x] - 1
                                ELSE count.video[x]
<1>0. /\ count.preview \in [Bufs -> -1..2] /\ count.video \in [Bufs -> -1..2]
      /\ count["preview"] = count.preview /\ count["video"] = count.video
  BY CountFields
<1>1. CASE ~(count[type][b] > 0)
  BY <1>0, <1>1 DEF ReturnFrame
<1>2. CASE count[type][b] > 0
  <2>1. count' = [count EXCEPT ![type][b] = @ - 1]
    BY <1>2 DEF ReturnFrame
  <2>2. CASE type = "preview"
    BY <1>0, <2>1, <2>2 DEF CountType, Types
  <2>3. CASE type = "video"
    BY <1>0, <1>2, <2>1, <2>3 DEF CountType, Types
  <2> QED
    BY <2>2, <2>3 DEF Types
<1> QED
  BY <1>1, <1>2

(* The frame of the OMX thread stays its subscribers' until it is sent. *)
LEMMA SendingStep ==
  ASSUME Running, Next, ~astray', ("display" \in psubs)'
  PROVE  Sending'
<1> USE DEF adapterVars, dispVars, noteVars, Quiet
<1>0. CountType /\ OmxType /\ QueueTypes /\ EncTypes /\ AppType
  BY TypeParts DEF Running, Outline
<1>1. /\ app.pc \in {"idle", "startVideo", "stopVideo"}
      /\ omx.pc \notin {"error", "zoomError"} /\ omx'.pc # "zoomError"
  BY DEF Running, Outline, AppState, Sending, Next, Latch, Straying
<1>2. ~SendFailed /\ ~DisplayStop /\ ~RemoveFramePointers /\ ~FlushFrame
  BY <1>1 DEF SendFailed, DisplayStop, RemoveFramePointers, FlushFrame, At
<1>3. ~StopPreviewCallbacks /\ ~FlushPort /\ ~StopPort /\ ~StopPreview
  BY <1>1 DEF StopPreviewCallbacks, FlushPort, StopPort, StopPreview, At
<1>4. CASE TakeFrame \/ SendPreview \/ SendVideo
  <2>1. omx'.pc \in {"count", "video", "idle"}
    <3>1. CASE TakeFrame
      BY <3>1 DEF TakeFrame, Running, Outline, AppState
    <3>2. CASE SendPreview
      BY <1>0, <1>1, <3>2, SendPreviewStep DEF Idle, OmxType
    <3>3. CASE SendVideo
      BY <1>1, <3>3, SendVideoStep DEF Idle
    <3> QED
      BY <1>4, <3>1, <3>2, <3>3
  <2> QED
    BY <2>1 DEF Sending
<1>5. CASE SetInitFrameRefCount
  <2>1. PICK b \in Bufs : omx.buf = b
    BY <1>5 DEF SetInitFrameRefCount, Running, Outline, Steps
  <2>2. count.preview[b] # -1
    BY BookTypes DEF Running, Books
  <2>3. /\ count'.preview = Replaced(count.preview, b, Cardinality(psubs))
        /\ psubs' = psubs /\ omx'.pc = "preview" /\ omx'.buf = b
    BY <1>0, <1>5, <2>1, CountFields DEF SetInitFrameRefCount, CountType, Types, OmxType
  <2>4. count.preview \in [Bufs -> -1..2]
    BY <1>0, CountFields
  <2> QED
    BY <2>2, <2>3, <2>4 DEF Sending, Replaced
<1>6. ASSUME UNCHANGED <<omx, psubs>>,
             omx.pc = "preview" =>
               count'.preview[omx.buf] = count.preview[omx.buf]
      PROVE  Sending'
  BY <1>6 DEF Running, Sending
<1>7. ASSUME NEW t \in Threads, NEW b \in Bufs, NEW type \in Types,
             ReturnFrame(t, b, type), UNCHANGED <<omx, psubs>>,
             type = "preview" =>
               disp = [pc |-> "return", buf |-> b] \/ note = <<"preview", b>>
      PROVE  Sending'
  <2> SUFFICES ASSUME omx.pc = "preview"
               PROVE  count'.preview[omx.buf] = count.preview[omx.buf]
    BY <1>6, <1>7
  <2>1. /\ omx.buf \in Bufs /\ disp # [pc |-> "return", buf |-> omx.buf]
        /\ Queued("preview", omx.buf) = 0
    BY SendingAlone
  <2>2. note # <<"preview", omx.buf>>
    <3>1. "preview" \in Types /\ Occurs(frameQ, <<"preview", omx.buf>>) \in Nat
      BY <1>0, OccursType DEF QueueTypes, Types
    <3> QED
      BY <2>1, <3>1 DEF Queued, Occurs, Bit
  <2>3. type # "preview" \/ b # omx.buf
    BY <1>7, <2>1, <2>2
  <2> QED
    BY <1>0, <1>7, <2>1, <2>3, ReturnKeepsCounts
<1>8. CASE DisplayReturn
  <2>1. /\ disp = [pc |-> "return", buf |-> disp.buf] /\ disp.buf \in Bufs
        /\ "disp" \in Threads /\ "preview" \in Types
    BY <1>8, TypeParts DEF DisplayReturn, Running, Outline, DispType, Steps, Threads, Types
  <2> QED
    BY <1>7, <1>8, <2>1 DEF DisplayReturn
<1>9. CASE NotifyFrame
  <2>1. PICK a \in Types, b \in Bufs : note = <<a, b>>
    BY <1>0, <1>9 DEF NotifyFrame, QueueTypes
  <2>2. \/ ReturnFrame("note", b, a)
        \/ UNCHANGED count
    BY <1>9, <2>1 DEF NotifyFrame
  <2>3. UNCHANGED <<omx, psubs>> /\ "note" \in Threads
    BY <1>9 DEF NotifyFrame, Threads
  <2>4. CASE ReturnFrame("note", b, a)
    BY <1>7, <2>1, <2>3, <2>4
  <2>5. CASE UNCHANGED count
    BY <1>6, <2>3, <2>5
  <2> QED
    BY <2>2, <2>4, <2>5
<1>10. CASE ReleaseReturn
  <2>1. encHas \in Bufs /\ "enc" \in Threads /\ "video" \in Types /\ "video" # "preview"
    BY <1>0, <1>10 DEF ReleaseReturn, EncTypes, Threads, Types
  <2> QED
    BY <1>7, <1>10, <2>1 DEF ReleaseReturn
<1>11. CASE ReturnVideo
  <2>1. PICK b \in Bufs : ReturnFrame("app", b, "video")
    BY <1>0, <1>11 DEF ReturnVideo, AppType
  <2>2. "app" \in Threads /\ "video" \in Types /\ "video" # "preview"
    BY DEF Threads, Types
  <2>3. UNCHANGED <<omx, psubs>>
    BY <1>11 DEF ReturnVideo
  <2> QED
    BY <1>7, <2>1, <2>2, <2>3
<1>12. CASE StartVideoCapture
  <2>1. UNCHANGED <<omx, psubs>> /\ count'.preview = count.preview
    BY <1>0, <1>12 DEF StartVideoCapture, CountType, Types
  <2> QED
    BY <1>6, <2>1
<1>13. CASE TogglePreviewCallbacks \/ StartRecording \/ StopRecording
  BY <1>13 DEF TogglePreviewCallbacks, StartRecording, StopRecording,
               SubscriberLockFree, Running, Sending
<1>14. ASSUME NEW b \in Bufs, FrameDone(b) PROVE Sending'
  BY <1>6, <1>14 DEF FrameDone
<1>15. ASSUME NEW t \in Threads, FillThisBuffer(t) PROVE Sending'
  BY <1>6, <1>15 DEF FillThisBuffer
<1>16. ASSUME NEW b \in Bufs, ReleaseLookup(b) PROVE Sending'
  BY <1>6, <1>16 DEF ReleaseLookup
<1>17. CASE TakeDisplayMessage \/ DequeueBuffer \/ NotifierGet
  BY <1>6, <1>17 DEF TakeDisplayMessage, DequeueBuffer, NotifierGet
<1>18. CASE StopVideoCapture
  BY <1>6, <1>18 DEF StopVideoCapture
<1> HIDE DEF adapterVars, dispVars, noteVars, Quiet
<1> QED
  BY <1>2, <1>3, <1>4, <1>5, <1>8, <1>9, <1>10, <1>11, <1>12, <1>13, <1>14,
     <1>15, <1>16, <1>17, <1>18
  DEF Next, OmxStep, DispStep, NoteStep, EncStep, AppStep, AppCall, Threads

-----------------------------------------------------------------------------
(* The video frames.                                                       *)

(* A frame that is returned is not the video frame the OMX thread sends:   *)
(* nobody has that one yet.                                                *)
LEMMA SendingVideoAlone ==
  ASSUME Running, omx.pc \in {"preview", "video"}, omx.video
  PROVE  /\ omx.buf \in Bufs /\ encHas # omx.buf
         /\ note # <<"video", omx.buf>>
<1>1. PICK b \in Bufs : omx.buf = b
  BY DEF Running, Outline, Steps
<1>2. Recording /\ count.video[b] = 1
  BY <1>1 DEF Running, VideoState
<1>3. VideoHolders(b) = 1
  BY <1>2 DEF Running, Books
<1>4. Cardinality(vsubs) = 1
  <2>1. vsubs = {"notifier"}
    BY <1>2, TypeParts DEF Running, Outline, SubsTypes, Recording
  <2> QED
    BY <2>1, FS_Singleton
<1>5. VideoHolders(b) = Occurs(frameQ, <<"video", b>>) + Bit(note = <<"video", b>>)
        + Bit(b \in enc) + Bit(encHas = b) + 1
  BY <1>1, <1>4 DEF VideoHolders, Queued, Occurs
<1>6. Occurs(frameQ, <<"video", b>>) \in Nat
  BY TypeParts, OccursType DEF Running, Outline, QueueTypes
<1> QED
  BY <1>1, <1>3, <1>5, <1>6 DEF Bit

(* While the notifier is subscribed to video frames the preview runs. *)
LEMMA RecordingRuns ==
  ASSUME Outline, Recording
  PROVE  "display" \in psubs /\ app.pc = "idle"
BY TypeParts DEF Outline, AppState, Recording, AppType

Quietly == /\ Outline /\ ~astray /\ VideoState
           /\ "display" \in psubs => Running

(* The video frame of the OMX thread keeps its count: the three ways to    *)
(* change a video count do not meet it.                                    *)
LEMMA VideoCountReturned ==
  ASSUME Quietly, NEW t \in Threads, NEW b \in Bufs, NEW type \in Types,
         ReturnFrame(t, b, type), UNCHANGED omx,
         type = "video" =>
           \/ encHas = b \/ note = <<"video", b>> \/ app.pc # "idle"
  PROVE  omx.pc \in {"preview", "video"} /\ omx.video => count'.video[omx.buf] = 1
<1> SUFFICES ASSUME omx.pc \in {"preview", "video"}, omx.video
             PROVE  count'.video[omx.buf] = 1
  OBVIOUS
<1>1. Recording /\ count.video[omx.buf] = 1
  BY DEF Quietly, VideoState
<1>2. Running /\ app.pc = "idle"
  BY <1>1, RecordingRuns DEF Quietly
<1>3. /\ omx.buf \in Bufs /\ encHas # omx.buf
      /\ note # <<"video", omx.buf>>
  BY <1>2, SendingVideoAlone
<1>4. type # "video" \/ b # omx.buf
  BY <1>2, <1>3
<1>5. CountType
  BY TypeParts DEF Quietly, Outline
<1> QED
  BY <1>1, <1>3, <1>4, <1>5, ReturnKeepsCounts

(* The recording flag is TRUE on video frames only. *)
LEMMA VideoFlagStep ==
  ASSUME Quietly, Next, ~astray'
  PROVE  (omx.pc # "idle" /\ omx.video => Recording)'
<1> USE DEF adapterVars, dispVars, noteVars, Quiet, Goto, At
<1>0. /\ FlagTypes /\ SubsTypes /\ OmxType /\ AppType
      /\ Outline /\ VideoState /\ AppState /\ ~Crossing' /\ omx'.pc # "zoomError"
  BY TypeParts DEF Quietly, Outline, Next, Latch, Straying
<1>1. CASE TakeFrame
  <2> SUFFICES ASSUME omx'.pc # "idle", omx'.video PROVE Recording'
    OBVIOUS
  <2>1. recording /\ app.pc # "stopVideo" /\ UNCHANGED <<recording, vsubs>>
    BY <1>0, <1>1 DEF TakeFrame, Crossing
  <2>2. vsubs = {"notifier"}
    BY <1>0, <2>1 DEF AppState
  <2> QED
    BY <2>1, <2>2 DEF Recording
<1>2. ASSUME \/ UNCHANGED omx
             \/ omx'.pc = "idle"
             \/ omx'.video = omx.video /\ omx.pc # "idle",
             UNCHANGED <<recording, vsubs>>
      PROVE  (omx.pc # "idle" /\ omx.video => Recording)'
  BY <1>0, <1>2 DEF VideoState, Recording
<1>3. CASE SetInitFrameRefCount \/ SendPreview \/ SendVideo \/ SendFailed
  <2>1. /\ omx.pc # "idle" /\ UNCHANGED <<recording, vsubs>>
        /\ \/ omx'.pc = "idle"
           \/ omx'.video = omx.video
    <3>1. CASE SetInitFrameRefCount
      BY <1>0, <3>1 DEF SetInitFrameRefCount, OmxType
    <3>2. CASE SendPreview
      <4>1. \E p \in {"error", "video"} : omx' = Idle \/ omx' = [omx EXCEPT !.pc = p]
        BY <1>0, <3>2 DEF SendPreview, AdvanceZoom
      <4>2. omx.pc # "idle" /\ UNCHANGED <<recording, vsubs>>
        BY <3>2 DEF SendPreview
      <4> QED
        BY <1>0, <4>1, <4>2 DEF OmxType, Idle
    <3>3. CASE SendVideo
      BY <1>0, <3>3 DEF SendVideo, OmxType, AdvanceZoom, Idle
    <3>4. CASE SendFailed
      BY <1>0, <3>4 DEF SendFailed, Idle
    <3> QED
      BY <1>3, <3>1, <3>2, <3>3, <3>4
  <2> QED
    BY <1>2, <2>1
<1>4. CASE \E b \in Bufs : FrameDone(b)
  BY <1>2, <1>4 DEF FrameDone
<1>5. CASE \E t \in Threads : FillThisBuffer(t)
  BY <1>2, <1>5 DEF FillThisBuffer
<1>6. CASE TakeDisplayMessage \/ DequeueBuffer \/ DisplayReturn \/ DisplayStop
  BY <1>2, <1>6 DEF TakeDisplayMessage, DequeueBuffer, DisplayReturn, DisplayStop
<1>7. CASE \/ NotifierGet \/ NotifyFrame \/ ReleaseReturn
           \/ \E b \in Bufs : ReleaseLookup(b)
  BY <1>2, <1>7 DEF NotifierGet, NotifyFrame, ReleaseReturn, ReleaseLookup
<1>8. CASE \/ ReturnVideo \/ RemoveFramePointers \/ FlushFrame \/ StopPreviewCallbacks
           \/ FlushPort \/ StopPort \/ TogglePreviewCallbacks \/ StopPreview
  BY <1>2, <1>8 DEF ReturnVideo, RemoveFramePointers, FlushFrame,
     StopPreviewCallbacks, FlushPort, StopPort, TogglePreviewCallbacks, StopPreview
<1>9. CASE StartRecording \/ StartVideoCapture
  BY <1>0, <1>9 DEF StartRecording, StartVideoCapture, VideoState, Recording,
     AppState, RecordingEnabled
<1>10. CASE StopRecording
  BY <1>0, <1>10 DEF StopRecording, Crossing
<1>11. CASE StopVideoCapture
  BY <1>0, <1>11 DEF StopVideoCapture, VideoState, Recording, AppState
<1> HIDE DEF adapterVars, dispVars, noteVars, Quiet, Goto, At
<1> QED
  BY <1>1, <1>3, <1>4, <1>5, <1>6, <1>7, <1>8, <1>9, <1>10, <1>11
  DEF Next, OmxStep, DispStep, NoteStep, EncStep, AppStep, AppCall, Threads

(* No video frame and no metadata is left when a recording starts. *)
LEMMA EncoderStep ==
  ASSUME Quietly, Next, ~astray'
  PROVE  /\ (app.pc = "startVideo" => ~VideoAround /\ enc = {})'
         /\ (vsubs = {} => enc = {})'
<1> USE DEF adapterVars, dispVars, noteVars, Quiet, Goto, At
<1>0. /\ VideoState /\ AppState /\ ~Crossing' /\ omx'.pc # "zoomError" /\ AppType /\ SubsTypes
  BY TypeParts DEF Quietly, Outline, Next, Latch, Straying
<1>1. app'.pc = "startVideo" => ~VideoAround'
  BY <1>0 DEF Crossing
<1>2. SUFFICES (app.pc = "startVideo" \/ vsubs = {} => enc = {})'
  BY <1>1
<1>3. ASSUME UNCHANGED <<app, vsubs>>, enc' \subseteq enc
      PROVE  (app.pc = "startVideo" \/ vsubs = {} => enc = {})'
  BY <1>0, <1>3 DEF VideoState
<1>4. ASSUME app'.pc # "startVideo", UNCHANGED <<vsubs, enc>>
      PROVE  (app.pc = "startVideo" \/ vsubs = {} => enc = {})'
  BY <1>0, <1>4 DEF VideoState
<1>5. CASE OmxStep
  BY <1>3, <1>5 DEF OmxStep, FillThisBuffer, TakeFrame, SetInitFrameRefCount,
     SendPreview, SendVideo, SendFailed
<1>6. CASE \E b \in Bufs : FrameDone(b)
  BY <1>3, <1>6 DEF FrameDone
<1>7. CASE \E t \in Threads : FillThisBuffer(t)
  BY <1>3, <1>7 DEF FillThisBuffer
<1>8. CASE TakeDisplayMessage \/ DequeueBuffer \/ DisplayReturn
  BY <1>3, <1>8 DEF TakeDisplayMessage, DequeueBuffer, DisplayReturn
<1>9. CASE DisplayStop
  BY <1>0, <1>4, <1>9 DEF DisplayStop, DisableDisplay, AppType
<1>10. CASE NotifierGet \/ ReleaseReturn \/ \E b \in Bufs : ReleaseLookup(b)
  BY <1>3, <1>10 DEF NotifierGet, ReleaseReturn, ReleaseLookup
<1>11. CASE NotifyFrame
  <2>1. UNCHANGED <<app, vsubs>>
    BY <1>11 DEF NotifyFrame
  <2>2. app.pc = "startVideo" \/ vsubs = {} => enc' = enc
    BY <1>0, <1>11 DEF NotifyFrame, VideoState, VideoAround
  <2> QED
    BY <1>0, <2>1, <2>2 DEF VideoState
<1>12. CASE \/ StartVideoCapture \/ StopVideoCapture \/ ReturnVideo
            \/ RemoveFramePointers
  BY <1>0, <1>4, <1>12 DEF StartVideoCapture, StopVideoCapture, ReturnVideo,
     RemoveFramePointers, AppType
<1>13. CASE \/ FlushFrame \/ StopPreviewCallbacks \/ FlushPort \/ StopPort
            \/ TogglePreviewCallbacks \/ StopPreview
  BY <1>0, <1>4, <1>13 DEF FlushFrame, StopPreviewCallbacks, FlushPort, StopPort,
     TogglePreviewCallbacks, StopPreview, AppType
<1>14. CASE StartRecording
  BY <1>0, <1>14 DEF StartRecording, RecordingEnabled, VideoState
<1>15. CASE StopRecording
  BY <1>15 DEF StopRecording
<1> HIDE DEF adapterVars, dispVars, noteVars, Quiet, Goto, At
<1> QED
  BY <1>5, <1>6, <1>7, <1>8, <1>9, <1>10, <1>11, <1>12, <1>13, <1>14, <1>15
  DEF Next, OmxStep, DispStep, NoteStep, EncStep, AppStep, AppCall, Threads

VideoCounts ==
  /\ \A b \in Bufs : count.video[b] <= 1
  /\ ~recording => \A b \in Bufs : count.video[b] <= 0
  /\ app.pc = "stopVideo" => \A b \in Bufs \ app.left : count.video[b] <= 0
  /\ omx.pc \in {"preview", "video"} /\ omx.video => count.video[omx.buf] = 1

(* The video counts: at most one, and none outside a recording. *)
LEMMA VideoCountStep ==
  ASSUME Quietly, Next, ~astray'
  PROVE  VideoCounts'
<1> USE DEF adapterVars, dispVars, noteVars, Quiet, Goto, At
<1>0. /\ VideoState /\ AppState /\ AppType /\ SubsTypes /\ CountType /\ OmxType
      /\ QueueTypes /\ EncTypes /\ ~Crossing' /\ omx'.pc # "zoomError" /\ Outline /\ VideoCounts
  BY TypeParts DEF Quietly, Outline, Next, Latch, Straying, VideoState, VideoCounts
<1>00. /\ count.video \in [Bufs -> -1..2] /\ count.preview \in [Bufs -> -1..2]
  BY <1>0, CountFields
<1>1. ASSUME UNCHANGED <<count, recording, omx>>,
             UNCHANGED app \/ app'.pc # "stopVideo"
      PROVE  VideoCounts'
  BY <1>0, <1>1 DEF VideoCounts
<1>2. ASSUME NEW t \in Threads, NEW b \in Bufs, NEW type \in Types,
             ReturnFrame(t, b, type), UNCHANGED <<recording, omx>>,
             \/ app' = app
             \/ type = "video" /\ app' = [app EXCEPT !.left = @ \ {b}],
             type = "video" =>
               \/ encHas = b \/ note = <<"video", b>> \/ app.pc # "idle"
      PROVE  VideoCounts'
  <2>1. \A x \in Bufs : /\ count'.video[x] <= count.video[x] /\ count.video[x] \in Int
                        /\ count'.video[x] \in Int
    BY <1>0, <1>2, ReturnKeepsCounts
  <2>2. \A x \in Bufs : count'.video[x] <= 1
    BY <1>0, <2>1 DEF VideoCounts
  <2>3. ~recording' => \A x \in Bufs : count'.video[x] <= 0
    BY <1>0, <1>2, <2>1 DEF VideoCounts
  <2>4. app'.pc = "stopVideo" => \A x \in Bufs \ app'.left : count'.video[x] <= 0
    <3> SUFFICES ASSUME app'.pc = "stopVideo", NEW x \in Bufs \ app'.left
                 PROVE  count'.video[x] <= 0
      OBVIOUS
    <3>1. CASE x \notin app.left
      <4>1. app.pc = "stopVideo"
        BY <1>0, <1>2 DEF AppType
      <4>2. count.video[x] <= 0
        BY <1>0, <3>1, <4>1 DEF VideoCounts
      <4> QED
        BY <2>1, <4>2
    <3>2. CASE x \in app.left
      <4>1. type = "video" /\ x = b
        BY <1>0, <1>2, <3>2 DEF AppType
      <4>2. count'.video[x] = IF count.video[x] > 0 THEN count.video[x] - 1
                              ELSE count.video[x]
        BY <1>0, <1>2, <4>1, ReturnKeepsCounts
      <4>3. count.video[x] <= 1 /\ count.video[x] \in Int
        BY <1>0, <2>1 DEF VideoCounts
      <4> QED
        BY <4>2, <4>3
    <3> QED
      BY <3>1, <3>2
  <2>5. (omx.pc \in {"preview", "video"} /\ omx.video => count.video[omx.buf] = 1)'
    BY <1>2, VideoCountReturned
  <2> QED
    BY <2>2, <2>3, <2>4, <2>5 DEF VideoCounts
<1>3. CASE TakeFrame
  BY <1>0, <1>3 DEF TakeFrame, VideoCounts
<1>4. CASE SetInitFrameRefCount
  <2>1. PICK b \in Bufs : omx.buf = b /\ omx'.buf = b /\ omx'.video = omx.video
    BY <1>0, <1>4 DEF SetInitFrameRefCount, Outline, Steps, OmxType
  <2>2. /\ count'.video = IF omx.video THEN Replaced(count.video, b, Cardinality(vsubs))
                          ELSE count.video
        /\ UNCHANGED <<recording, app>>
    BY <1>0, <1>4, <2>1, CountFields DEF SetInitFrameRefCount, CountType, Types
  <2>3. CASE ~omx.video
    BY <1>0, <2>1, <2>2, <2>3 DEF VideoCounts
  <2>4. CASE omx.video
    <3>1. Recording
      BY <1>0, <1>4, <2>4 DEF SetInitFrameRefCount, VideoState
    <3>2. Running /\ app.pc = "idle"
      BY <1>0, <3>1, RecordingRuns DEF Quietly
    <3>3. count.video[b] # -1
      BY <3>1, <3>2, BookTypes DEF Running, Books
    <3>4. Cardinality(vsubs) = 1
      <4>1. vsubs = {"notifier"}
        BY <1>0, <3>1 DEF SubsTypes, Recording
      <4> QED
        BY <4>1, FS_Singleton
    <3>5. /\ count'.video[b] = 1
          /\ \A x \in Bufs \ {b} : count'.video[x] = count.video[x]
      BY <1>00, <2>2, <2>4, <3>3, <3>4 DEF Replaced
    <3> QED
      BY <1>0, <2>1, <2>2, <3>1, <3>2, <3>5 DEF VideoCounts, Recording
  <2> QED
    BY <2>3, <2>4
<1>5. CASE SendPreview
  <2>1. \/ omx'.pc = "idle" \/ omx'.pc = "error"
        \/ omx.pc = "preview" /\ omx'.video = omx.video /\ omx'.buf = omx.buf
    <3>1. \E p \in {"error", "video"} : omx' = Idle \/ omx' = [omx EXCEPT !.pc = p]
      BY <1>0, <1>5 DEF SendPreview, AdvanceZoom
    <3>2. omx.pc = "preview"
      BY <1>5 DEF SendPreview
    <3> QED
      BY <1>0, <3>1, <3>2 DEF OmxType, Idle
  <2>2. UNCHANGED <<count, recording, app>>
    BY <1>5 DEF SendPreview
  <2> QED
    BY <1>0, <2>1, <2>2 DEF VideoCounts
<1>6. CASE SendVideo
  <2>1. omx'.pc \in {"idle", "error"} /\ UNCHANGED <<count, recording, app>>
    BY <1>0, <1>6 DEF SendVideo, AdvanceZoom, Idle, OmxType
  <2> QED
    BY <1>0, <2>1 DEF VideoCounts
<1>7. CASE SendFailed
  <2>1. omx.buf \in Bufs /\ "omx" \in Threads /\ "preview" \in Types
    BY <1>7 DEF SendFailed, Quietly, Outline, Steps, Threads, Types
  <2>2. \A x \in Bufs : count'.video[x] = count.video[x]
    BY <1>0, <1>7, <2>1, ReturnKeepsCounts DEF SendFailed
  <2>3. omx'.pc = "idle" /\ UNCHANGED <<recording, app>>
    BY <1>7 DEF SendFailed, Idle
  <2> QED
    BY <1>0, <2>2, <2>3 DEF VideoCounts
<1>8. CASE DisplayReturn
  <2>1. disp.buf \in Bufs /\ "disp" \in Threads /\ "preview" \in Types
    BY <1>0, <1>8 DEF DisplayReturn, Outline, Steps, Threads, Types
  <2> QED
    BY <1>2, <1>8, <2>1 DEF DisplayReturn
<1>9. CASE NotifyFrame
  <2>1. PICK a \in Types, b \in Bufs : note = <<a, b>>
    BY <1>0, <1>9 DEF NotifyFrame, QueueTypes
  <2>2. ReturnFrame("note", b, a) \/ UNCHANGED count
    BY <1>9, <2>1 DEF NotifyFrame
  <2>3. UNCHANGED <<recording, omx, app>> /\ "note" \in Threads
    BY <1>9 DEF NotifyFrame, Threads
  <2>4. CASE ReturnFrame("note", b, a)
    BY <1>2, <2>1, <2>3, <2>4
  <2>5. CASE UNCHANGED count
    BY <1>1, <2>3, <2>5
  <2> QED
    BY <2>2, <2>4, <2>5
<1>10. CASE ReleaseReturn
  <2>1. encHas \in Bufs /\ "enc" \in Threads /\ "video" \in Types
    BY <1>0, <1>10 DEF ReleaseReturn, EncTypes, Threads, Types
  <2> QED
    BY <1>2, <1>10, <2>1 DEF ReleaseReturn
<1>11. CASE ReturnVideo
  <2>1. PICK b \in Bufs : /\ ReturnFrame("app", b, "video")
                          /\ app' = [app EXCEPT !.left = @ \ {b}]
    BY <1>0, <1>11 DEF ReturnVideo, AppType
  <2>2. /\ "app" \in Threads /\ "video" \in Types /\ app.pc # "idle"
        /\ UNCHANGED <<recording, omx>>
    BY <1>11 DEF ReturnVideo, Threads, Types
  <2> QED
    BY <1>2, <2>1, <2>2
<1>12. CASE FlushFrame
  <2>1. PICK a \in Types, b \in Bufs : Head(frameQ) = <<a, b>>
    <3>1. Head(frameQ) \in Types \X Bufs
      BY <1>0, <1>12 DEF FlushFrame, QueueTypes
    <3> QED
      BY <3>1
  <2>2. /\ ReturnFrame("app", b, a) /\ "app" \in Threads /\ app.pc # "idle"
        /\ UNCHANGED <<recording, omx, app>>
    BY <1>12, <2>1 DEF FlushFrame, Threads
  <2> QED
    BY <1>2, <2>2
<1>13. CASE StartVideoCapture
  <2>1. /\ \A x \in Bufs : count'.video[x] = 0
        /\ recording' /\ app'.pc = "idle" /\ omx' = omx
    BY <1>0, <1>13 DEF StartVideoCapture, CountType, Types, AppType
  <2>2. ~(omx.pc # "idle" /\ omx.video)
    BY <1>0, <1>13 DEF StartVideoCapture, VideoState, AppState, Recording
  <2> QED
    BY <2>1, <2>2 DEF VideoCounts
<1>14. CASE StopVideoCapture
  <2>1. /\ app.pc = "stopVideo" /\ app.left = {} /\ app'.pc = "idle"
        /\ UNCHANGED <<count, omx>>
    BY <1>0, <1>14 DEF StopVideoCapture, AppType
  <2> QED
    BY <1>0, <2>1 DEF VideoCounts
<1>15. CASE StopRecording
  <2>1. UNCHANGED <<count, recording, omx>> /\ app'.left = Bufs
    BY <1>15 DEF StopRecording
  <2> QED
    BY <1>0, <2>1 DEF VideoCounts
<1>16. CASE StopPort
  <2>1. /\ count'.video = count.video /\ UNCHANGED <<recording, omx>>
        /\ app'.pc = "stopped"
    BY <1>0, <1>16 DEF StopPort, CountType, Types, AppType
  <2> QED
    BY <1>0, <2>1 DEF VideoCounts
<1>17. CASE \E b \in Bufs : FrameDone(b) \/ ReleaseLookup(b)
  BY <1>1, <1>17 DEF FrameDone, ReleaseLookup
<1>18. CASE \E t \in Threads : FillThisBuffer(t)
  BY <1>1, <1>18 DEF FillThisBuffer
<1>19. CASE TakeDisplayMessage \/ DequeueBuffer \/ NotifierGet
  BY <1>1, <1>19 DEF TakeDisplayMessage, DequeueBuffer, NotifierGet
<1>20. CASE DisplayStop
  BY <1>0, <1>1, <1>20 DEF DisplayStop, DisableDisplay, AppType
<1>21. CASE RemoveFramePointers \/ StopPreviewCallbacks \/ FlushPort
  BY <1>0, <1>1, <1>21 DEF RemoveFramePointers, StopPreviewCallbacks, FlushPort,
     AppType
<1>22. CASE StartRecording \/ TogglePreviewCallbacks \/ StopPreview
  BY <1>0, <1>1, <1>22 DEF StartRecording, TogglePreviewCallbacks, StopPreview,
     AppType
<1> HIDE DEF adapterVars, dispVars, noteVars, Quiet, Goto, At
<1> QED
  BY <1>3, <1>4, <1>5, <1>6, <1>7, <1>8, <1>9, <1>10, <1>11, <1>12, <1>13,
     <1>14, <1>15, <1>16, <1>17, <1>18, <1>19, <1>20, <1>21, <1>22
  DEF Next, OmxStep, DispStep, NoteStep, EncStep, AppStep, AppCall, Threads

-----------------------------------------------------------------------------
(* The display's pace.                                                     *)

(* Every step keeps the number of messages for the display thread and the  *)
(* number of buffers the window can spare the same.                        *)
LEMMA PacedStep ==
  ASSUME Quietly, DisplayPaced, Next, ~astray'
  PROVE  DisplayPaced'
<1> USE DEF adapterVars, dispVars, noteVars, Quiet
<1>0. /\ Outline /\ WindowTypes /\ DispType /\ IsFiniteSet(window)
      /\ Cardinality(window) \in Nat /\ Cardinality(Undequeued) \in Nat
  <2>1. Outline /\ WindowTypes /\ DispType
    BY TypeParts DEF Quietly, Outline
  <2>2. IsFiniteSet(window) /\ IsFiniteSet(Undequeued)
    BY <2>1, FramesAssumption, FS_Subset DEF WindowTypes
  <2> QED
    BY <2>1, <2>2, FS_CardinalityType
<1> SUFFICES ASSUME dispOn' PROVE DisplayPaced'
  BY DEF DisplayPaced
<1>1. ASSUME UNCHANGED <<window, dispQ, disp, dispOn>> PROVE DisplayPaced'
  BY <1>1 DEF DisplayPaced, Quietly
<1>2. CASE SendPreview
  <2>1. dispOn /\ disp' = disp
    BY <1>2 DEF SendPreview
  <2>2. dispQ + Bit(disp.pc = "dequeue")
          = Cardinality(window) - Cardinality(Undequeued)
    BY <2>1 DEF DisplayPaced, Quietly
  <2>3. CASE "display" \in psubs
    <3>1. Running
      BY <2>3 DEF Quietly
    <3>20. omx'.pc # "zoomError"
      BY DEF Next, Latch, Straying
    <3>2. /\ window' = window \cup {omx.buf} /\ dispQ' = dispQ + 1
          /\ omx.buf \notin window
      BY <1>2, <2>1, <3>1, <3>20, SendPreviewStep, SendingAlone
      DEF SendPreview, Running, Outline, Steps
    <3>3. Cardinality(window') = Cardinality(window) + 1
      BY <1>0, <3>2, FS_AddElement
    <3> QED
      BY <1>0, <2>1, <2>2, <3>2, <3>3 DEF DisplayPaced, Bit, WindowTypes
  <2>4. CASE "display" \notin psubs
    <3>1. UNCHANGED <<window, dispQ, disp, dispOn>>
      BY <1>2, <2>4 DEF SendPreview
    <3> QED
      BY <1>1, <3>1
  <2> QED
    BY <2>3, <2>4
<1>3. CASE TakeDisplayMessage
  <2>1. /\ disp.pc = "idle" /\ disp'.pc = "dequeue" /\ dispQ' = dispQ - 1
        /\ UNCHANGED <<window, dispOn>>
    BY <1>0, <1>3 DEF TakeDisplayMessage, DispType
  <2> QED
    BY <1>0, <2>1 DEF DisplayPaced, Quietly, Bit, WindowTypes
<1>4. CASE DequeueBuffer
  <2>0. PICK b \in window :
          /\ window' = window \ {b}
          /\ disp' = IF b \in tagged THEN [pc |-> "return", buf |-> b]
                     ELSE [pc |-> "idle", buf |-> None]
    BY <1>4 DEF DequeueBuffer
  <2>1. /\ disp.pc = "dequeue" /\ disp'.pc # "dequeue"
        /\ window' = window \ {b} /\ UNCHANGED <<dispQ, dispOn>>
    BY <1>4, <2>0 DEF DequeueBuffer
  <2>2. Cardinality(window') = Cardinality(window) - 1
    BY <1>0, <2>1, FS_RemoveElement
  <2> QED
    BY <1>0, <2>1, <2>2 DEF DisplayPaced, Quietly, Bit, WindowTypes
<1>5. CASE DisplayReturn
  <2>1. /\ disp.pc # "dequeue" /\ disp'.pc # "dequeue"
        /\ UNCHANGED <<window, dispQ, dispOn>>
    BY <1>5 DEF DisplayReturn
  <2> QED
    BY <1>0, <2>1 DEF DisplayPaced, Quietly, Bit, WindowTypes
<1>6. ~DisplayStop
  BY DEF DisplayStop
<1>7. CASE \E b \in Bufs : FrameDone(b) \/ ReleaseLookup(b)
  BY <1>1, <1>7 DEF FrameDone, ReleaseLookup
<1>8. CASE \E t \in Threads : FillThisBuffer(t)
  BY <1>1, <1>8 DEF FillThisBuffer
<1>9. CASE TakeFrame \/ SetInitFrameRefCount \/ SendVideo \/ SendFailed
  BY <1>1, <1>9 DEF TakeFrame, SetInitFrameRefCount, SendVideo, SendFailed
<1>10. CASE NotifierGet \/ NotifyFrame \/ ReleaseReturn
  BY <1>1, <1>10 DEF NotifierGet, NotifyFrame, ReleaseReturn
<1>11. CASE \/ StartVideoCapture \/ StopVideoCapture \/ ReturnVideo
            \/ RemoveFramePointers
  BY <1>1, <1>11 DEF StartVideoCapture, StopVideoCapture, ReturnVideo,
     RemoveFramePointers
<1>12. CASE FlushFrame \/ StopPreviewCallbacks \/ FlushPort \/ StopPort
  BY <1>1, <1>12 DEF FlushFrame, StopPreviewCallbacks, FlushPort, StopPort
<1>13. CASE AppCall
  BY <1>1, <1>13 DEF AppCall, StartRecording, StopRecording,
     TogglePreviewCallbacks, StopPreview
<1> HIDE DEF adapterVars, dispVars, noteVars, Quiet
<1> QED
  BY <1>2, <1>3, <1>4, <1>5, <1>6, <1>7, <1>8, <1>9, <1>10, <1>11, <1>12, <1>13
  DEF Next, OmxStep, DispStep, NoteStep, EncStep, AppStep, Threads

-----------------------------------------------------------------------------
(* The theorems.                                                           *)

(* Every step goes on from a preview that ran, if the preview still runs.  *)
LEMMA DisplayBefore ==
  ASSUME TypeOK, Next, ("display" \in psubs)'
  PROVE  "display" \in psubs
<1> USE DEF adapterVars, dispVars, noteVars, Quiet
<1>1. CASE \E b \in Bufs : FrameDone(b) \/ ReleaseLookup(b)
  BY <1>1 DEF FrameDone, ReleaseLookup
<1>2. CASE \E t \in Threads : FillThisBuffer(t)
  BY <1>2 DEF FillThisBuffer
<1>3. CASE TakeFrame \/ SetInitFrameRefCount \/ SendPreview \/ SendVideo \/ SendFailed
  BY <1>3 DEF TakeFrame, SetInitFrameRefCount, SendPreview, SendVideo, SendFailed
<1>4. CASE TakeDisplayMessage \/ DequeueBuffer \/ DisplayReturn \/ DisplayStop
  BY <1>4 DEF TakeDisplayMessage, DequeueBuffer, DisplayReturn, DisplayStop
<1>5. CASE NotifierGet \/ NotifyFrame \/ ReleaseReturn
  BY <1>5 DEF NotifierGet, NotifyFrame, ReleaseReturn
<1>6. CASE \/ StartVideoCapture \/ StopVideoCapture \/ ReturnVideo
           \/ RemoveFramePointers \/ FlushFrame \/ StopPreviewCallbacks
  BY <1>6 DEF StartVideoCapture, StopVideoCapture, ReturnVideo,
     RemoveFramePointers, FlushFrame, StopPreviewCallbacks
<1>7. CASE FlushPort \/ StopPort \/ AppCall
  BY <1>7 DEF FlushPort, StopPort, AppCall, StartRecording, StopRecording,
     TogglePreviewCallbacks, StopPreview
<1> HIDE DEF adapterVars, dispVars, noteVars, Quiet
<1> QED
  BY <1>1, <1>2, <1>3, <1>4, <1>5, <1>6, <1>7
  DEF Next, OmxStep, DispStep, NoteStep, EncStep, AppStep, Threads

(* The books are right when the preview starts. *)
LEMMA SessionInit == Init => SessionInv
<1> SUFFICES ASSUME Init PROVE SessionInv
  OBVIOUS
<1>1. Outline
  BY OutlineInit
<1>2. VideoState
  BY DEF Init, VideoState, Idle, AppIdle, VideoAround, NoFrame
<1>3. DisplayPaced
  <2>1. IsFiniteSet(Undequeued)
    BY FramesAssumption, FS_Subset
  <2>2. Cardinality(Undequeued) \in Nat
    BY <2>1, FS_CardinalityType
  <2> QED
    BY <2>2 DEF Init, DisplayPaced, Bit
<1>4. Sending
  BY DEF Init, Sending, Idle
<1>5. ASSUME NEW x \in Bufs
      PROVE  Books(x)
  <2>1. /\ Occurs(fbd, x) = 0
        /\ Occurs(frameQ, <<"preview", x>>) = 0
    BY OccursEmpty DEF Init
  <2>2. Refilling(pend, x) = 0
    <3>1. {t \in Threads : pend[t] = x} = {}
      BY FramesAssumption DEF Init
    <3> QED
      BY <3>1, FS_EmptySet DEF Refilling
  <2>3. /\ omx.pc = "idle" /\ note # <<"preview", x>> /\ ~recording
        /\ disp # [pc |-> "return", buf |-> x]
    BY FramesAssumption DEF Init, Idle, NoFrame
  <2>4. PreviewHolders(x) = Bit(x \in window \cap tagged) + 0 + 0 + 0
    <3>1. Queued("preview", x) = 0 + 0
      BY <2>1, <2>3 DEF Queued, Occurs, Bit
    <3> QED
      BY <2>3, <3>1 DEF PreviewHolders, Bit
  <2>5. CameraPlaces(x) = Bit(x \in ducati) + 0 + 0 + 0
    BY <2>1, <2>2, <2>3 DEF CameraPlaces, Occurs, Refilling, Bit
  <2>6. /\ x \in window \cap tagged <=> x \in Undequeued
        /\ x \in ducati <=> x \notin Undequeued
        /\ count.preview[x] = IF x \in Undequeued THEN 1 ELSE 0
    BY DEF Init
  <2>7. CASE x \in Undequeued
    BY <2>3, <2>4, <2>5, <2>6, <2>7 DEF Books, Placed, Recording, Bit
  <2>8. CASE x \notin Undequeued
    BY <2>3, <2>4, <2>5, <2>6, <2>8 DEF Books, Placed, Recording, Bit
  <2> QED
    BY <2>7, <2>8
<1> QED
  BY <1>1, <1>2, <1>3, <1>4, <1>5 DEF SessionInv, Outline

(* Every step keeps the invariant. *)
LEMMA SessionStep == SessionInv /\ [Next]_vars => SessionInv'
<1> SUFFICES ASSUME SessionInv, [Next]_vars PROVE SessionInv'
  OBVIOUS
<1>1. CASE Next
  <2>1. Outline
    BY DEF SessionInv, Outline
  <2>2. Outline'
    BY <2>1, OutlineStep
  <2>3. ASSUME ~astray' PROVE VideoState' /\ DisplayPaced'
    <3>1. ~astray
      BY <1>1, <2>3 DEF Next, Latch
    <3>2. Quietly /\ DisplayPaced
      BY <2>1, <3>1 DEF SessionInv, Quietly, Running
    <3>3. VideoState'
      BY <1>1, <2>3, <3>2, VideoFlagStep, EncoderStep, VideoCountStep
      DEF VideoState, VideoCounts
    <3> QED
      BY <1>1, <2>3, <3>2, <3>3, PacedStep
  <2>4. ASSUME ~astray', ("display" \in psubs)'
        PROVE  Sending' /\ \A b \in Bufs : Books(b)'
    <3>1. ~astray
      BY <1>1, <2>4 DEF Next, Latch
    <3>2. "display" \in psubs
      BY <1>1, <2>1, <2>4, DisplayBefore DEF Outline
    <3>3. Running
      BY <2>1, <3>1, <3>2 DEF SessionInv, Running
    <3> QED
      BY <1>1, <2>4, <3>3, SendingStep, BooksStep
  <2> QED
    BY <2>2, <2>3, <2>4 DEF SessionInv, Outline
<1>2. CASE UNCHANGED vars
  <2>1. UNCHANGED <<active, recording, psubs, vsubs, pointers, count, ducati, fbd,
                    omx, pend, window, tagged, dispQ, disp, dispOn, frameQ, note,
                    enc, encHas, app, astray>>
    BY <1>2 DEF vars, adapterVars, dispVars, noteVars
  <2>2. Outline'
    BY <1>2, OutlineStep DEF SessionInv, Outline
  <2>3. VideoState' = VideoState /\ DisplayPaced' = DisplayPaced
    BY <2>1 DEF VideoState, DisplayPaced, Recording, VideoAround
  <2>4. Sending' = Sending /\ \A b \in Bufs : Books(b)' = Books(b)
    BY <2>1 DEF Sending, Books, Placed, Recording, CameraPlaces, PreviewHolders,
                VideoHolders, Queued
  <2> QED
    BY <2>1, <2>2, <2>3, <2>4 DEF SessionInv, Outline
<1> QED
  BY <1>1, <1>2

(* The invariant holds in every session. *)
LEMMA SessionAlways == Spec => []SessionInv
<1>1. Init => SessionInv
  BY SessionInit
<1>2. SessionInv /\ [Next]_vars => SessionInv'
  BY SessionStep
<1> QED
  BY <1>1, <1>2, PTL DEF Spec

(* As long as no frame crosses a change of the recording and no zoom is    *)
(* refused after a frame, the display thread never waits in                *)
(* dequeue_buffer: for any number of buffers, every message in mDisplayQ   *)
(* stands for one buffer that the window has over its minimum.             *)
THEOREM DisplayStaysPaced == Spec => []DisplayPaced
<1>1. SessionInv => DisplayPaced
  BY DEF SessionInv, DisplayPaced
<1> QED
  BY <1>1, SessionAlways, PTL

(* Under the same two conditions, while the preview runs, the reference    *)
(* counts that returnFrame decrements are the numbers of holders, for both *)
(* frame types, whatever the threads' order.                               *)
THEOREM CountsStayRight == Spec => []CountsAgree
<1>1. SessionInv => CountsAgree
  BY DEF SessionInv, CountsAgree, Previewing, Books
<1> QED
  BY <1>1, SessionAlways, PTL

(* Under the same two conditions, while the preview runs, no buffer is     *)
(* lost or given to Ducati twice: it is in one place                       *)
(* where it is filled or on its way there, or else somebody still returns  *)
(* it.                                                                     *)
THEOREM BuffersConserved == Spec => []BufferConserved
<1>1. SessionInv => BufferConserved
  <2> SUFFICES ASSUME SessionInv, Previewing, NEW b \in Bufs
               PROVE  \/ /\ CameraPlaces(b) = 1 /\ PreviewHolders(b) = 0
                         /\ Recording => VideoHolders(b) = 0
                      \/ /\ CameraPlaces(b) = 0
                         /\ PreviewHolders(b) > 0 \/ (recording /\ count.video[b] > 0)
    BY DEF BufferConserved
  <2>1. Books(b) /\ Outline
    BY DEF SessionInv, Previewing, Outline
  <2>2. VideoHolders(b) \in Nat
    BY <2>1, BookTypes
  <2> QED
    BY <2>1, <2>2 DEF Books, Placed, Recording
<1> QED
  BY <1>1, SessionAlways, PTL

=============================================================================
