----------------------------- MODULE EncoderPool -----------------------------
(***************************************************************************)
(* The NV12 buffers of the H.264 encoder proxy (omx_proxy_h264enc.c).      *)
(* Frames in Android's opaque format are converted into gralloc buffers of *)
(* the proxy's own.  The indices of the buffers circulate in a pipe: an    *)
(* index goes to the end of the pipe as soon as the frame is submitted,    *)
(* not when the encoder has read it.                                       *)
(*                                                                         *)
(* One client thread calls; the encoder works on its frames meanwhile.     *)
(* Left out: frames with camera metadata, whose branch makes the same pool *)
(* for another buffer type, and writes into the pipe that fail.            *)
(***************************************************************************)
EXTENDS Integers, Sequences, FiniteSets

CONSTANTS
    NUM,        \* OMX_ENC_NUM_INTERNAL_BUF, entries of gralloc_handle
    MaxIn, MaxOut, \* most buffers of the input and of the output port
    Failures,   \* the calls that may fail, a subset of FailurePoints
    Reuse       \* may the client disable and enable the input port again?

FailurePoints == {"alloc", "convert", "register", "empty"}

ASSUME SizesAssumption ==
    NUM \in Nat \ {0} /\ MaxIn \in Nat \ {0} /\ MaxOut \in Nat \ {0}
ASSUME ChoicesAssumption == Failures \subseteq FailurePoints /\ Reuse \in BOOLEAN

Indices == 0 .. NUM - 1

\* A frame that needs no NV12 buffer.
Native == -1

VARIABLES
    nIn, nOut,       \* buffers of the two ports (nAllocatedBuffers: both)
    gralloc_handle,  \* is there a buffer?
    nCurBufIndex,
    hBufPipe,        \* the indices in the pipe
    pc, kind, nBufIndex, \* EmptyThisBuffer: its stage, frame and buffer
    encoder,         \* the frames the encoder has, oldest first
    phase,           \* of the client
    \* History, for the properties only:
    past             \* what has failed, and was the port enabled again?

call == <<pc, kind, nBufIndex>>
vars == <<nIn, nOut, gralloc_handle, nCurBufIndex, hBufPipe, call, encoder, phase, past>>

\* Opaque; without data (nFilledLen is 0); already NV12.
Kinds == {"opaque", "empty", "nv12"}

Stages == {"idle", "alloc", "read", "convert", "register", "submit", "recycle"}

\* Types of OMX_PROXY_ENCODER_PRIVATE.  No index leaves gralloc_handle, except
\* that the loop which fills it overruns it when the two ports have more
\* buffers than it has entries.
TypeOK ==
    /\ nIn \in 0 .. MaxIn /\ nOut \in 0 .. MaxOut
    /\ gralloc_handle \in [Indices -> BOOLEAN]
    /\ nCurBufIndex \in 0 .. NUM
    /\ hBufPipe \in Seq(Indices)
    /\ pc \in Stages /\ kind \in Kinds /\ nBufIndex \in Indices
    /\ encoder \in Seq(Indices \cup {Native})
    /\ phase \in {"setup", "stream", "closing", "gone", "crashed"}
    /\ past \subseteq FailurePoints \cup {"reuse", "overrun"}
    /\ "overrun" \in past => nIn + nOut > NUM

\* OMX_ComponentInit: everything zero, an empty pipe.
Init ==
    /\ nIn = 0 /\ nOut = 0
    /\ gralloc_handle = [i \in Indices |-> FALSE]
    /\ nCurBufIndex = 0
    /\ hBufPipe = <<>>
    /\ pc = "idle" /\ kind = "nv12" /\ nBufIndex = 0
    /\ encoder = <<>>
    /\ phase = "setup"
    /\ past = {}

-----------------------------------------------------------------------------
AllocateInput ==
    /\ phase = "setup"
    /\ nIn < MaxIn
    /\ nIn' = nIn + 1
    /\ UNCHANGED <<nOut, gralloc_handle, nCurBufIndex, hBufPipe, call, encoder, phase, past>>

AllocateOutput ==
    /\ phase = "setup"
    /\ nOut < MaxOut
    /\ nOut' = nOut + 1
    /\ UNCHANGED <<nIn, gralloc_handle, nCurBufIndex, hBufPipe, call, encoder, phase, past>>

\* The client goes from one part of its work to the next.
ClientMoves ==
    /\ pc = "idle"
    /\ \/ phase = "setup" /\ nIn > 0 /\ nOut > 0 /\ phase' = "stream" /\ UNCHANGED past
       \/ phase = "stream" /\ phase' = "closing" /\ UNCHANGED past
       \/ /\ phase = "closing" /\ Reuse /\ nIn = 0
          /\ phase' = "setup" /\ past' = past \cup {"reuse"}
    /\ UNCHANGED <<nIn, nOut, gralloc_handle, nCurBufIndex, hBufPipe, call, encoder>>

-----------------------------------------------------------------------------
(***************************************************************************)
(* LOCAL_PROXY_H264E_EmptyThisBuffer                                       *)
(***************************************************************************)
\* The client still has an input buffer.
BufferAtHand == Len(encoder) < nIn

\* The first frame that is not NV12 finds no NV12 buffers.
EmptyThisBuffer(k) ==
    /\ phase = "stream" /\ pc = "idle"
    /\ BufferAtHand
    /\ kind' = k
    /\ pc' = IF k = "nv12" THEN "register"
             ELSE IF gralloc_handle[0] THEN "read" ELSE "alloc"
    /\ nCurBufIndex' = IF pc' = "alloc" THEN 0 ELSE nCurBufIndex
    /\ UNCHANGED <<nIn, nOut, gralloc_handle, hBufPipe, nBufIndex, encoder, phase, past>>

\* Mutant: one buffer too many.
MoreBuffersWantedByOne == nCurBufIndex <= nIn + nOut

\* Until there are as many as the ports have.
MoreBuffersWanted == nCurBufIndex < nIn + nOut

\* COLORCONVERT_AllocateBuffer, once round the loop.
AllocateBuffer ==
    /\ pc = "alloc"
    /\ MoreBuffersWanted
    /\ nCurBufIndex \in Indices
    /\ gralloc_handle' = [gralloc_handle EXCEPT ![nCurBufIndex] = TRUE]
    /\ hBufPipe' = Append(hBufPipe, nCurBufIndex)
    /\ nCurBufIndex' = nCurBufIndex + 1
    /\ UNCHANGED <<nIn, nOut, call, encoder, phase, past>>

\* The loop is bounded by nAllocatedBuffers only: the handle is written behind
\* the array, over nCurBufIndex itself.  What follows is undefined.
AllocateBufferOverruns ==
    /\ pc = "alloc"
    /\ MoreBuffersWanted
    /\ nCurBufIndex \notin Indices
    /\ phase' = "crashed"
    /\ past' = past \cup {"overrun"}
    /\ UNCHANGED <<nIn, nOut, gralloc_handle, nCurBufIndex, hBufPipe, call, encoder>>

\* It fails: the buffers so far stay.
AllocateBufferFails ==
    /\ "alloc" \in Failures
    /\ pc = "alloc"
    /\ MoreBuffersWanted
    /\ pc' = "idle"
    /\ past' = past \cup {"alloc"}
    /\ UNCHANGED <<nIn, nOut, gralloc_handle, nCurBufIndex, hBufPipe, kind, nBufIndex,
                   encoder, phase>>

AllAllocated ==
    /\ pc = "alloc"
    /\ ~MoreBuffersWanted
    /\ pc' = "read"
    /\ UNCHANGED <<nIn, nOut, gralloc_handle, nCurBufIndex, hBufPipe, kind, nBufIndex,
                   encoder, phase, past>>

\* "Dequeue NV12 buffer for encoder"; waits while the pipe is empty.
ReadFromPipe ==
    /\ pc = "read"
    /\ hBufPipe # <<>>
    /\ nBufIndex' = Head(hBufPipe)
    /\ hBufPipe' = Tail(hBufPipe)
    /\ pc' = "convert"
    /\ UNCHANGED <<nIn, nOut, gralloc_handle, nCurBufIndex, kind, encoder, phase, past>>

\* The conversion, unless there is no data, and the header gets the buffer.
Convert ==
    /\ pc = "convert"
    /\ gralloc_handle[nBufIndex]
    /\ pc' = "register"
    /\ UNCHANGED <<nIn, nOut, gralloc_handle, nCurBufIndex, hBufPipe, kind, nBufIndex,
                   encoder, phase, past>>

\* Mutant: the index is dropped.
ReturnIndexNowhere == hBufPipe

\* The index goes back to the end of the pipe.
ReturnIndex == Append(hBufPipe, nBufIndex)

\* Mutant: the call tries again with the next buffer.
ConvertFailsRetries ==
    /\ pc = "convert" /\ kind = "opaque"
    /\ "convert" \in Failures \/ ~gralloc_handle[nBufIndex]
    /\ hBufPipe' = ReturnIndex
    /\ pc' = "read"
    /\ past' = past \cup {"convert"}
    /\ UNCHANGED <<nIn, nOut, gralloc_handle, nCurBufIndex, kind, nBufIndex, encoder,
                   phase>>

ConvertFails ==
    /\ pc = "convert" /\ kind = "opaque"
    /\ "convert" \in Failures \/ ~gralloc_handle[nBufIndex]
    /\ hBufPipe' = ReturnIndex
    /\ pc' = "idle"
    /\ past' = past \cup {"convert"}
    /\ UNCHANGED <<nIn, nOut, gralloc_handle, nCurBufIndex, kind, nBufIndex, encoder,
                   phase>>

\* There is no buffer behind the index: NULL is dereferenced.
ConvertIntoNothing ==
    /\ pc = "convert"
    /\ ~gralloc_handle[nBufIndex]
    /\ phase' = "crashed"
    /\ UNCHANGED <<nIn, nOut, gralloc_handle, nCurBufIndex, hBufPipe, call, encoder, past>>

RegisterBuffer ==
    /\ pc = "register"
    /\ pc' = "submit"
    /\ UNCHANGED <<nIn, nOut, gralloc_handle, nCurBufIndex, hBufPipe, kind, nBufIndex,
                   encoder, phase, past>>

\* PROXY_checkRpcError leaves at once.
RegisterBufferFails ==
    /\ "register" \in Failures
    /\ pc = "register"
    /\ pc' = "idle"
    /\ past' = past \cup {"register"}
    /\ UNCHANGED <<nIn, nOut, gralloc_handle, nCurBufIndex, hBufPipe, kind, nBufIndex,
                   encoder, phase>>

\* PROXY_EmptyThisBuffer, and on to the pipe whatever it returned.
Submit ==
    /\ pc = "submit"
    /\ \/ /\ encoder' = Append(encoder, IF kind = "nv12" THEN Native ELSE nBufIndex)
          /\ UNCHANGED past
       \/ "empty" \in Failures /\ UNCHANGED encoder /\ past' = past \cup {"empty"}
    /\ pc' = IF kind = "nv12" THEN "idle" ELSE "recycle"
    /\ UNCHANGED <<nIn, nOut, gralloc_handle, nCurBufIndex, hBufPipe, kind, nBufIndex,
                   phase>>

\* Mutant: the index goes to the front.
RecycleInFront ==
    /\ pc = "recycle"
    /\ hBufPipe' = <<nBufIndex>> \o hBufPipe
    /\ pc' = "idle"
    /\ UNCHANGED <<nIn, nOut, gralloc_handle, nCurBufIndex, kind, nBufIndex, encoder,
                   phase, past>>

\* "Write buffer to end of pipe for re-circulation for future ETB()"
Recycle ==
    /\ pc = "recycle"
    /\ hBufPipe' = ReturnIndex
    /\ pc' = "idle"
    /\ UNCHANGED <<nIn, nOut, gralloc_handle, nCurBufIndex, kind, nBufIndex, encoder,
                   phase, past>>

\* External: the encoder is done with its frames in the order they came.
EmptyBufferDone ==
    /\ encoder # <<>>
    /\ encoder' = Tail(encoder)
    /\ UNCHANGED <<nIn, nOut, gralloc_handle, nCurBufIndex, hBufPipe, call, phase, past>>

-----------------------------------------------------------------------------
\* Mutant: the index is used before it is decremented.
LastBufferNext == nCurBufIndex

\* The buffer that goes with the next input buffer that is freed.
LastBuffer == nCurBufIndex - 1

\* LOCAL_PROXY_H264E_FreeBuffer, input port: one NV12 buffer and one index go too.
FreeInput ==
    /\ phase = "closing" /\ BufferAtHand
    /\ nIn' = nIn - 1
    /\ IF gralloc_handle[0]
       THEN /\ nCurBufIndex' = nCurBufIndex - 1
            /\ gralloc_handle' = [gralloc_handle EXCEPT ![LastBuffer] = FALSE]
            /\ hBufPipe' = IF hBufPipe = <<>> THEN hBufPipe ELSE Tail(hBufPipe)
       ELSE UNCHANGED <<nCurBufIndex, gralloc_handle, hBufPipe>>
    /\ UNCHANGED <<nOut, call, encoder, phase, past>>

FreeOutput ==
    /\ phase = "closing" /\ nOut > 0
    /\ nOut' = nOut - 1
    /\ UNCHANGED <<nIn, gralloc_handle, nCurBufIndex, hBufPipe, call, encoder, phase, past>>

\* "Cleanup internal buffers in pipe if not freed on FreeBuffer"
ComponentDeInit ==
    /\ phase = "closing"
    /\ hBufPipe' = <<>>
    /\ gralloc_handle' = [i \in Indices |-> FALSE]
    /\ nCurBufIndex' = 0
    /\ encoder' = <<>>
    /\ nIn' = 0 /\ nOut' = 0
    /\ phase' = "gone"
    /\ UNCHANGED <<call, past>>

Ended == phase \in {"gone", "crashed"} /\ UNCHANGED vars

Etb ==
    \/ AllocateBuffer \/ AllocateBufferOverruns \/ AllocateBufferFails
    \/ AllAllocated
    \/ ReadFromPipe \/ Convert \/ ConvertFails \/ ConvertIntoNothing
    \/ RegisterBuffer \/ RegisterBufferFails \/ Submit \/ Recycle

Next ==
    \/ AllocateInput \/ AllocateOutput \/ ClientMoves
    \/ \E k \in Kinds : EmptyThisBuffer(k)
    \/ phase = "stream" /\ Etb
    \/ EmptyBufferDone
    \/ FreeInput \/ FreeOutput \/ ComponentDeInit
    \/ Ended

Spec == Init /\ [][Next]_vars

\* A call that was begun goes on.  Nothing is asked of the encoder.
FairSpec == Spec /\ WF_vars(phase = "stream" /\ Etb)

-----------------------------------------------------------------------------
(***************************************************************************)
(* Properties                                                              *)
(***************************************************************************)
(***************************************************************************)
(* Until something fails, a frame is never converted into a buffer the     *)
(* encoder still reads, although the index of the buffer is back in the    *)
(* pipe: by the time it comes up again the encoder has returned the frame. *)
(* It takes as many NV12 buffers as input buffers and frames returned in   *)
(* order.  A call that fails lets the pipe run ahead of the encoder.       *)
(***************************************************************************)
FramesIntact ==
    past = {} /\ pc = "convert" /\ kind = "opaque" =>
        \A i \in DOMAIN encoder : encoder[i] # nBufIndex

(***************************************************************************)
(* The NV12 buffers are those below nCurBufIndex, whatever fails and       *)
(* however often the port is enabled: the "Buffer index underflow" of      *)
(* FreeBuffer does not happen, and a new pool overwrites no handle.        *)
(***************************************************************************)
PoolPrefix ==
    \A i \in Indices : gralloc_handle[i] <=> i < nCurBufIndex

\* A registration failed, or the port was enabled again.
IndicesLost == past \cap {"register", "reuse"} # {}

(***************************************************************************)
(* Between calls the pipe holds every NV12 buffer once, also after a       *)
(* failed allocation, conversion or EmptyThisBuffer; only a failed         *)
(* registration loses an index.                                            *)
(***************************************************************************)
PoolComplete ==
    phase = "stream" /\ pc = "idle" /\ ~IndicesLost =>
        /\ Len(hBufPipe) = nCurBufIndex
        /\ \A i \in 0 .. nCurBufIndex - 1 :
              \E j \in DOMAIN hBufPipe : hBufPipe[j] = i

(***************************************************************************)
(* Every EmptyThisBuffer returns: the pipe it waits for is never empty for *)
(* good, whatever else fails and even if the encoder returns no frame.     *)
(* Only the call that overruns gralloc_handle has no outcome to speak of.  *)
(***************************************************************************)
EtbReturns ==
    (phase = "stream" /\ pc # "idle") ~>
        (pc = "idle" \/ IndicesLost \/ "overrun" \in past)

=============================================================================
