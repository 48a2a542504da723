-------------------------- MODULE EncoderPoolProofs --------------------------
(***************************************************************************)
(* The invariants of EncoderPool for all numbers of buffers, also more     *)
(* than gralloc_handle has entries, and every choice of failures, with the *)
(* port enabled any number of times.                                       *)
(***************************************************************************)
EXTENDS EncoderPool, TLAPS

PoolTypes ==
    /\ nIn \in 0 .. MaxIn /\ nOut \in 0 .. MaxOut
    /\ gralloc_handle \in [Indices -> BOOLEAN]
    /\ nCurBufIndex \in 0 .. NUM

PipeTypes ==
    /\ hBufPipe \in Seq(Indices)
    /\ nBufIndex \in Indices
    /\ encoder \in Seq(Indices \cup {Native})

\* Inductive: with the types, the prefix is.
PoolInv == PoolTypes /\ PipeTypes /\ PoolPrefix

(***************************************************************************)
(* Index 0 is an entry of gralloc_handle, as EmptyThisBuffer and           *)
(* FreeBuffer take for granted.                                            *)
(***************************************************************************)
LEMMA ZeroIsIndex == 0 \in Indices /\ NUM \in Nat
BY SizesAssumption DEF Indices

(***************************************************************************)
(* The loop that makes the NV12 buffers extends the prefix by one.         *)
(***************************************************************************)
LEMMA AllocateKeeps == PoolInv /\ AllocateBuffer => (PoolTypes /\ PoolPrefix)'
<1> SUFFICES ASSUME PoolInv, AllocateBuffer PROVE (PoolTypes /\ PoolPrefix)'
  OBVIOUS
<1>1. nCurBufIndex \in Indices
  BY DEF AllocateBuffer
<1>2. PoolTypes'
  BY <1>1, ZeroIsIndex DEF PoolInv, PoolTypes, AllocateBuffer, Indices
<1>3. PoolPrefix'
  <2> SUFFICES ASSUME NEW i \in Indices
               PROVE  gralloc_handle'[i] <=> i < nCurBufIndex'
    BY DEF PoolPrefix
  <2>1. i = nCurBufIndex \/ gralloc_handle'[i] = gralloc_handle[i]
    BY DEF PoolInv, PoolTypes, AllocateBuffer
  <2>2. gralloc_handle'[nCurBufIndex] = TRUE
    BY <1>1 DEF PoolInv, PoolTypes, AllocateBuffer
  <2>3. gralloc_handle[i] <=> i < nCurBufIndex
    BY DEF PoolInv, PoolPrefix
  <2>4. i \in Int /\ nCurBufIndex \in Int /\ nCurBufIndex' = nCurBufIndex + 1
    BY DEF PoolInv, PoolTypes, AllocateBuffer, Indices
  <2>5. CASE i = nCurBufIndex
    BY <2>2, <2>4, <2>5
  <2>6. CASE i # nCurBufIndex
    <3>1. i < nCurBufIndex + 1 <=> i < nCurBufIndex
      BY <2>4, <2>6
    <3>2. gralloc_handle'[i] <=> gralloc_handle[i]
      BY <2>1, <2>6
    <3> QED BY <3>1, <3>2, <2>3, <2>4
  <2> QED BY <2>5, <2>6
<1> QED BY <1>2, <1>3

(***************************************************************************)
(* FreeBuffer of an input buffer takes the last of the prefix; it comes    *)
(* this far only when there is a first, so nothing underflows.             *)
(***************************************************************************)
LEMMA FreeKeeps == PoolInv /\ FreeInput => (PoolTypes /\ PoolPrefix)'
<1> SUFFICES ASSUME PoolInv, FreeInput PROVE (PoolTypes /\ PoolPrefix)'
  OBVIOUS
<1>0. nIn' \in 0 .. MaxIn /\ nOut' \in 0 .. MaxOut
  <2>1. nIn \in 0 .. MaxIn /\ Len(encoder) < nIn /\ nIn' = nIn - 1 /\ nOut' = nOut
    BY DEF PoolInv, PoolTypes, FreeInput, BufferAtHand
  <2>2. Len(encoder) \in Nat
    BY DEF PoolInv, PipeTypes
  <2> QED BY <2>1, <2>2, SizesAssumption DEF PoolInv, PoolTypes
<1>1. CASE ~gralloc_handle[0]
  BY <1>0, <1>1 DEF PoolInv, PoolTypes, PoolPrefix, FreeInput
<1>2. CASE gralloc_handle[0]
  <2>1. nCurBufIndex > 0
    BY <1>2, ZeroIsIndex DEF PoolInv, PoolPrefix
  <2>2. nCurBufIndex - 1 \in Indices
    BY <2>1, ZeroIsIndex DEF PoolInv, PoolTypes, Indices
  <2>3. nCurBufIndex' = nCurBufIndex - 1
        /\ gralloc_handle' = [gralloc_handle EXCEPT ![nCurBufIndex - 1] = FALSE]
    BY <1>2 DEF FreeInput, LastBuffer
  <2>4. PoolTypes'
    BY <1>0, <2>1, <2>2, <2>3, ZeroIsIndex DEF PoolInv, PoolTypes, Indices
  <2>5. PoolPrefix'
    <3> SUFFICES ASSUME NEW i \in Indices
                 PROVE  gralloc_handle'[i] <=> i < nCurBufIndex - 1
      BY <2>3 DEF PoolPrefix
    <3>1. i = nCurBufIndex - 1 \/ gralloc_handle'[i] = gralloc_handle[i]
      BY <2>3 DEF PoolInv, PoolTypes
    <3>2. gralloc_handle'[nCurBufIndex - 1] = FALSE
      BY <2>2, <2>3 DEF PoolInv, PoolTypes
    <3>3. gralloc_handle[i] <=> i < nCurBufIndex
      BY DEF PoolInv, PoolPrefix
    <3>4. i \in Int /\ nCurBufIndex \in Int
      BY DEF PoolInv, PoolTypes, Indices
    <3>5. CASE i = nCurBufIndex - 1
      BY <3>2, <3>4, <3>5
    <3>6. CASE i # nCurBufIndex - 1
      <4>1. i < nCurBufIndex - 1 <=> i < nCurBufIndex
        BY <3>4, <3>6
      <4>2. gralloc_handle'[i] <=> gralloc_handle[i]
        BY <3>1, <3>6
      <4> QED BY <4>1, <4>2, <3>3
    <3> QED BY <3>5, <3>6
  <2> QED BY <2>4, <2>5
<1> QED BY <1>1, <1>2

(***************************************************************************)
(* EmptyThisBuffer resets nCurBufIndex before it makes a pool; it does so  *)
(* only when there is no first buffer, when the prefix is empty anyway.    *)
(***************************************************************************)
LEMMA EmptyIndex ==
    ASSUME PoolInv, NEW k \in Kinds, EmptyThisBuffer(k)
    PROVE  nCurBufIndex' = nCurBufIndex
<1>1. CASE pc' # "alloc"
  BY <1>1 DEF EmptyThisBuffer
<1>2. CASE pc' = "alloc"
  <2>1. ~gralloc_handle[0]
    BY <1>2 DEF EmptyThisBuffer
  <2>2. ~(0 < nCurBufIndex)
    BY <2>1, ZeroIsIndex DEF PoolInv, PoolPrefix
  <2> QED BY <2>2, <1>2, ZeroIsIndex DEF EmptyThisBuffer, PoolInv, PoolTypes
<1> QED BY <1>1, <1>2

\* A call that starts leaves the pool a prefix.
LEMMA EmptyKeeps ==
    ASSUME PoolInv, NEW k \in Kinds, EmptyThisBuffer(k)
    PROVE  (PoolTypes /\ PoolPrefix)'
<1>1. UNCHANGED <<nIn, nOut, gralloc_handle>>
  BY DEF EmptyThisBuffer
<1> QED BY <1>1, EmptyIndex DEF PoolInv, PoolTypes, PoolPrefix

(***************************************************************************)
(* Every step keeps the prefix: the other ones leave the pool alone, or    *)
(* empty it.                                                               *)
(***************************************************************************)
LEMMA PrefixKept == PoolInv /\ [Next]_vars => (PoolTypes /\ PoolPrefix)'
<1> SUFFICES ASSUME PoolInv, [Next]_vars PROVE (PoolTypes /\ PoolPrefix)'
  OBVIOUS
<1> USE DEF PoolInv, PoolTypes, PoolPrefix
<1>1. CASE AllocateInput
  BY <1>1, SizesAssumption DEF AllocateInput
<1>2. CASE AllocateOutput
  BY <1>2, SizesAssumption DEF AllocateOutput
<1>3. CASE ClientMoves
  BY <1>3 DEF ClientMoves
<1>4. CASE \E k \in Kinds : EmptyThisBuffer(k)
  BY <1>4, EmptyKeeps
<1>5. CASE Etb
  <2>1. CASE AllocateBuffer
    BY <2>1, AllocateKeeps
  <2>2. CASE AllocateBufferOverruns \/ AllocateBufferFails \/ AllAllocated
             \/ ReadFromPipe \/ Convert
    BY <2>2 DEF AllocateBufferOverruns, AllocateBufferFails, AllAllocated,
                ReadFromPipe, Convert
  <2>3. CASE ConvertFails \/ ConvertIntoNothing
    BY <2>3 DEF ConvertFails, ConvertIntoNothing
  <2>4. CASE RegisterBuffer \/ RegisterBufferFails \/ Submit \/ Recycle
    BY <2>4 DEF RegisterBuffer, RegisterBufferFails, Submit, Recycle
  <2> QED BY <1>5, <2>1, <2>2, <2>3, <2>4 DEF Etb
<1>6. CASE EmptyBufferDone
  BY <1>6 DEF EmptyBufferDone
<1>7. CASE FreeInput
  BY <1>7, FreeKeeps
<1>8. CASE FreeOutput
  BY <1>8, SizesAssumption DEF FreeOutput
<1>9. CASE ComponentDeInit
  BY <1>9, SizesAssumption DEF ComponentDeInit, Indices
<1>10. CASE Ended \/ UNCHANGED vars
  BY <1>10 DEF Ended, vars
<1> QED
  BY <1>1, <1>2, <1>3, <1>4, <1>5, <1>6, <1>7, <1>8, <1>9, <1>10 DEF Next

(***************************************************************************)
(* Only indices of the pool are in the pipe and at the encoder.            *)
(***************************************************************************)
LEMMA PipeKept == PoolInv /\ [Next]_vars => PipeTypes'
<1> SUFFICES ASSUME PoolInv, [Next]_vars PROVE PipeTypes'
  OBVIOUS
<1> USE DEF PoolInv, PipeTypes
<1>1. CASE AllocateBuffer
  <2>1. nCurBufIndex \in Indices
    BY <1>1 DEF AllocateBuffer
  <2> QED BY <1>1, <2>1 DEF AllocateBuffer, call
<1>2. CASE ReadFromPipe
  BY <1>2 DEF ReadFromPipe
<1>3. CASE ConvertFails
  BY <1>3 DEF ConvertFails, ReturnIndex
<1>4. CASE Recycle
  BY <1>4 DEF Recycle, ReturnIndex
<1>5. CASE Submit
  BY <1>5 DEF Submit
<1>6. CASE EmptyBufferDone
  BY <1>6 DEF EmptyBufferDone, call
<1>7. CASE FreeInput
  <2>1. hBufPipe # <<>> => Tail(hBufPipe) \in Seq(Indices)
    OBVIOUS
  <2>2. hBufPipe' = hBufPipe \/ (hBufPipe # <<>> /\ hBufPipe' = Tail(hBufPipe))
    BY <1>7, Zenon DEF FreeInput
  <2>3. UNCHANGED <<nBufIndex, encoder>>
    BY <1>7 DEF FreeInput, call
  <2> QED BY <2>1, <2>2, <2>3
<1>8. CASE ComponentDeInit
  BY <1>8 DEF ComponentDeInit, call
<1>9. CASE \E k \in Kinds : EmptyThisBuffer(k)
  BY <1>9 DEF EmptyThisBuffer
<1>10. CASE AllocateInput \/ AllocateOutput \/ ClientMoves \/ FreeOutput
  BY <1>10 DEF AllocateInput, AllocateOutput, ClientMoves, FreeOutput, call
<1>11. CASE AllocateBufferOverruns \/ AllocateBufferFails \/ AllAllocated \/ Convert
            \/ ConvertIntoNothing \/ RegisterBuffer \/ RegisterBufferFails
  BY <1>11 DEF AllocateBufferOverruns, AllocateBufferFails, AllAllocated, Convert, ConvertIntoNothing,
               RegisterBuffer, RegisterBufferFails, call
<1>12. CASE Ended \/ UNCHANGED vars
  BY <1>12 DEF Ended, vars, call
<1> QED
  BY <1>1, <1>2, <1>3, <1>4, <1>5, <1>6, <1>7, <1>8, <1>9, <1>10, <1>11, <1>12
     DEF Next, Etb

\* There is no pool at the start.
LEMMA PoolInit == Init => PoolInv
<1>1. Init => PoolTypes /\ PoolPrefix
  BY SizesAssumption DEF Init, PoolTypes, PoolPrefix, Indices
<1>2. Init => PipeTypes
  BY ZeroIsIndex DEF Init, PipeTypes
<1> QED BY <1>1, <1>2 DEF PoolInv

(***************************************************************************)
(* The NV12 buffers of the encoder proxy are always the ones below         *)
(* nCurBufIndex: FreeBuffer never underflows it and no handle is lost.     *)
(***************************************************************************)
THEOREM PoolIsPrefix == Spec => []PoolPrefix
<1>1. Init => PoolInv
  BY PoolInit
<1>2. PoolInv /\ [Next]_vars => PoolInv'
  BY PrefixKept, PipeKept DEF PoolInv
<1>3. PoolInv => PoolPrefix
  BY DEF PoolInv
<1> QED BY <1>1, <1>2, <1>3, PTL DEF Spec

-----------------------------------------------------------------------------
CallTypes ==
    /\ pc \in Stages /\ kind \in Kinds
    /\ phase \in {"setup", "stream", "closing", "gone", "crashed"}
    /\ past \subseteq FailurePoints \cup {"reuse", "overrun"}
    /\ phase \notin {"stream", "crashed"} => pc = "idle"
    /\ pc \in {"alloc", "read", "convert", "recycle"} => kind # "nv12"

\* gralloc_handle is overrun only when the ports have too many buffers for it,
\* and nobody follows the component after that.
OverrunKnown == "overrun" \in past => nIn + nOut > NUM /\ phase = "crashed"

\* EmptyThisBuffer has an index that is not in the pipe.
Holding ==
    \/ pc \in {"convert", "recycle"}
    \/ pc \in {"register", "submit"} /\ kind # "nv12"

\* Every index of the pool is in the pipe or with the call.
AllIndices ==
    phase \in {"setup", "stream"} /\ ~IndicesLost =>
        /\ Len(hBufPipe) = IF Holding THEN nCurBufIndex - 1 ELSE nCurBufIndex
        /\ \A i \in 0 .. nCurBufIndex - 1 :
             \/ \E j \in DOMAIN hBufPipe : hBufPipe[j] = i
             \/ Holding /\ nBufIndex = i

(***************************************************************************)
(* The encoder's frames trail the pipe: an index the encoder still reads   *)
(* is at most as far from the end of the pipe as its frame is from the     *)
(* newest one.                                                             *)
(***************************************************************************)
Trails(frames, ring) ==
    \A i \in 1 .. Len(frames) : frames[i] # Native =>
        \E p \in 1 .. Len(ring) :
            ring[p] = frames[i] /\ Len(ring) - p <= Len(frames) - i

Distinct(ring) == \A p, q \in 1 .. Len(ring) : ring[p] = ring[q] => p = q

Contains(seq, x) == \E i \in 1 .. Len(seq) : seq[i] = x

\* The pipe, with the index of a frame that has been submitted.
Ring == IF pc = "recycle" THEN Append(hBufPipe, nBufIndex) ELSE hBufPipe

\* The order of a stream in which nothing failed.
Ordered ==
    /\ phase = "setup" => nCurBufIndex = 0 /\ encoder = <<>>
    /\ pc = "alloc" => /\ nCurBufIndex <= nIn + nOut
                       /\ \A i \in 1 .. Len(encoder) : encoder[i] = Native
    /\ pc \notin {"alloc", "read"} => nCurBufIndex \in {0, nIn + nOut}
    /\ pc = "read" => nCurBufIndex = nIn + nOut
    /\ pc \notin {"idle", "recycle"} => Len(encoder) < nIn
    /\ Trails(encoder, Ring) /\ Distinct(Ring)
    /\ \A p \in 1 .. Len(hBufPipe) : hBufPipe[p] < nCurBufIndex
    /\ Holding => nBufIndex < nCurBufIndex
    /\ Holding /\ pc # "recycle" =>
         ~Contains(hBufPipe, nBufIndex) /\ ~Contains(encoder, nBufIndex)

\* As long as nothing failed and the port was enabled once.
FramesInOrder == past = {} /\ phase \in {"setup", "stream"} => Ordered

\* No frame is converted into a buffer that is not there.
NoCrash == past = {} => phase # "crashed"

StreamInv == /\ PoolInv /\ CallTypes /\ OverrunKnown
             /\ AllIndices /\ FramesInOrder /\ NoCrash

\* Submitting a frame puts its index at the end of both; an NV12 frame has none.
LEMMA TrailsPush ==
    ASSUME NEW S, NEW e \in Seq(S), NEW T, NEW r \in Seq(T), Trails(e, r),
           NEW x \in S \cap T
    PROVE  Trails(Append(e, x), Append(r, x))
<1> DEFINE f == Append(e, x)  t == Append(r, x)
<1>1. /\ Len(f) = Len(e) + 1 /\ f[Len(e) + 1] = x /\ \A i \in 1 .. Len(e) : f[i] = e[i]
      /\ Len(t) = Len(r) + 1 /\ t[Len(r) + 1] = x /\ \A i \in 1 .. Len(r) : t[i] = r[i]
      /\ Len(e) \in Nat /\ Len(r) \in Nat
  OBVIOUS
<1> HIDE DEF f, t
<1> SUFFICES ASSUME NEW i \in 1 .. Len(f), f[i] # Native
             PROVE  \E p \in 1 .. Len(t) : t[p] = f[i] /\ Len(t) - p <= Len(f) - i
  BY DEF Trails, f, t
<1>2. CASE i = Len(e) + 1
  <2>1. Len(r) + 1 \in 1 .. Len(t)
    BY <1>1
  <2> QED BY <1>1, <1>2, <2>1
<1>3. CASE i \in 1 .. Len(e)
  <2>1. PICK p \in 1 .. Len(r) : r[p] = e[i] /\ Len(r) - p <= Len(e) - i
    BY <1>1, <1>3 DEF Trails
  <2>2. p \in 1 .. Len(t) /\ t[p] = f[i] /\ Len(t) - p <= Len(f) - i
    BY <1>1, <1>3, <2>1
  <2> QED BY <2>2
<1> QED BY <1>1, <1>2, <1>3

\* A frame that needs no conversion has no index to trail.
LEMMA TrailsNative ==
    ASSUME NEW S, NEW e \in Seq(S), Native \in S, NEW T, NEW r \in Seq(T), Trails(e, r)
    PROVE  Trails(Append(e, Native), r)
<1> DEFINE f == Append(e, Native)
<1>1. /\ Len(f) = Len(e) + 1 /\ f[Len(e) + 1] = Native
      /\ \A i \in 1 .. Len(e) : f[i] = e[i]
      /\ Len(e) \in Nat /\ Len(r) \in Nat
  OBVIOUS
<1> HIDE DEF f
<1> SUFFICES ASSUME NEW i \in 1 .. Len(f), f[i] # Native
             PROVE  \E p \in 1 .. Len(r) : r[p] = f[i] /\ Len(r) - p <= Len(f) - i
  BY DEF Trails, f
<1>2. i \in 1 .. Len(e)
  BY <1>1
<1>3. PICK p \in 1 .. Len(r) : r[p] = e[i] /\ Len(r) - p <= Len(e) - i
  BY <1>1, <1>2 DEF Trails
<1> QED BY <1>1, <1>2, <1>3

\* The encoder returns its oldest frame.
LEMMA TrailsDone ==
    ASSUME NEW S, NEW e \in Seq(S), e # <<>>, NEW T, NEW r \in Seq(T), Trails(e, r)
    PROVE  Trails(Tail(e), r)
<1> DEFINE f == Tail(e)
<1>1. /\ Len(f) = Len(e) - 1 /\ \A i \in 1 .. Len(e) - 1 : f[i] = e[i + 1]
      /\ Len(e) \in Nat /\ Len(r) \in Nat
  OBVIOUS
<1> HIDE DEF f
<1> SUFFICES ASSUME NEW i \in 1 .. Len(f), f[i] # Native
             PROVE  \E p \in 1 .. Len(r) : r[p] = f[i] /\ Len(r) - p <= Len(f) - i
  BY DEF Trails, f
<1>2. i + 1 \in 1 .. Len(e) /\ f[i] = e[i + 1]
  BY <1>1
<1>3. PICK p \in 1 .. Len(r) : r[p] = e[i + 1] /\ Len(r) - p <= Len(e) - (i + 1)
  BY <1>1, <1>2 DEF Trails
<1> QED BY <1>1, <1>2, <1>3

(***************************************************************************)
(* With more indices in the pipe than frames at the encoder, the encoder   *)
(* is done with the index at the head.                                     *)
(***************************************************************************)
LEMMA TrailsPop ==
    ASSUME NEW S, NEW e \in Seq(S), NEW T, NEW r \in Seq(T), Trails(e, r), Distinct(r),
           Len(e) < Len(r), Head(r) # Native
    PROVE  /\ Trails(e, Tail(r)) /\ Distinct(Tail(r))
           /\ ~Contains(e, Head(r)) /\ ~Contains(Tail(r), Head(r))
<1> DEFINE t == Tail(r)
<1>1. /\ Len(t) = Len(r) - 1 /\ \A p \in 1 .. Len(r) - 1 : t[p] = r[p + 1]
      /\ Len(e) \in Nat /\ Len(r) \in Nat /\ Head(r) = r[1]
  OBVIOUS
<1> HIDE DEF t
<1>2. ASSUME NEW i \in 1 .. Len(e), e[i] # Native
      PROVE  \E p \in 2 .. Len(r) : r[p] = e[i] /\ Len(r) - p <= Len(e) - i
  <2>1. PICK p \in 1 .. Len(r) : r[p] = e[i] /\ Len(r) - p <= Len(e) - i
    BY <1>2 DEF Trails
  <2>2. p \in 2 .. Len(r)
    BY <1>1, <2>1
  <2> QED BY <2>1, <2>2
<1>3. Trails(e, t)
  <2> SUFFICES ASSUME NEW i \in 1 .. Len(e), e[i] # Native
               PROVE  \E p \in 1 .. Len(t) : t[p] = e[i] /\ Len(t) - p <= Len(e) - i
    BY DEF Trails
  <2>1. PICK p \in 2 .. Len(r) : r[p] = e[i] /\ Len(r) - p <= Len(e) - i
    BY <1>2
  <2>2. p - 1 \in 1 .. Len(t) /\ t[p - 1] = e[i] /\ Len(t) - (p - 1) <= Len(e) - i
    BY <1>1, <2>1
  <2> QED BY <2>2
<1>4. Distinct(t)
  <2> SUFFICES ASSUME NEW p \in 1 .. Len(t), NEW q \in 1 .. Len(t), t[p] = t[q]
               PROVE  p = q
    BY DEF Distinct
  <2>1. /\ p + 1 \in 1 .. Len(r) /\ q + 1 \in 1 .. Len(r)
        /\ r[p + 1] = r[q + 1]
    BY <1>1
  <2>2. p + 1 = q + 1
    BY <2>1 DEF Distinct
  <2> QED BY <2>2
<1>5. ~Contains(e, Head(r))
  <2> SUFFICES ASSUME NEW i \in 1 .. Len(e), e[i] = r[1] PROVE FALSE
    BY <1>1 DEF Contains
  <2>1. PICK p \in 2 .. Len(r) : r[p] = r[1]
    BY <1>1, <1>2
  <2>2. p \in 1 .. Len(r) /\ 1 \in 1 .. Len(r) /\ p # 1
    BY <1>1, <2>1
  <2> QED BY <2>1, <2>2 DEF Distinct
<1>6. ~Contains(t, Head(r))
  <2> SUFFICES ASSUME NEW p \in 1 .. Len(t), t[p] = r[1] PROVE FALSE
    BY <1>1 DEF Contains
  <2>1. p + 1 \in 1 .. Len(r) /\ 1 \in 1 .. Len(r) /\ p + 1 # 1 /\ r[p + 1] = r[1]
    BY <1>1
  <2> QED BY <2>1 DEF Distinct
<1> QED BY <1>3, <1>4, <1>5, <1>6 DEF t

\* An index that is not in the pipe comes back to it.
LEMMA DistinctPush ==
    ASSUME NEW T, NEW r \in Seq(T), Distinct(r), NEW x \in T, ~Contains(r, x)
    PROVE  Distinct(Append(r, x))
<1> DEFINE t == Append(r, x)
<1>1. /\ Len(t) = Len(r) + 1 /\ t[Len(r) + 1] = x /\ \A i \in 1 .. Len(r) : t[i] = r[i]
      /\ Len(r) \in Nat
  OBVIOUS
<1> HIDE DEF t
<1> SUFFICES ASSUME NEW p \in 1 .. Len(t), NEW q \in 1 .. Len(t), t[p] = t[q]
             PROVE  p = q
  BY DEF Distinct, t
<1>2. \A i \in 1 .. Len(r) : t[i] # x
  BY <1>1 DEF Contains
<1>3. (p \in 1 .. Len(r) \/ p = Len(r) + 1) /\ (q \in 1 .. Len(r) \/ q = Len(r) + 1)
  BY <1>1
<1> QED BY <1>1, <1>2, <1>3 DEF Distinct

-----------------------------------------------------------------------------
\* The stages of a call fit the phase of the component.
LEMMA CallTypesKept == PoolInv /\ CallTypes /\ [Next]_vars => CallTypes'
<1> SUFFICES ASSUME PoolInv, CallTypes, [Next]_vars PROVE CallTypes'
  OBVIOUS
<1> USE DEF CallTypes, Stages, Kinds, FailurePoints
<1>1. CASE AllocateInput \/ AllocateOutput \/ FreeInput \/ FreeOutput \/ EmptyBufferDone
  BY <1>1 DEF AllocateInput, AllocateOutput, FreeInput, FreeOutput, EmptyBufferDone, call
<1>2. CASE ClientMoves
  BY <1>2 DEF ClientMoves, call
<1>3. CASE \E k \in Kinds : EmptyThisBuffer(k)
  BY <1>3 DEF EmptyThisBuffer
<1>4. CASE phase = "stream" /\ Etb
  <2>1. CASE AllocateBuffer \/ AllocateBufferOverruns \/ AllocateBufferFails
             \/ AllAllocated
    BY <1>4, <2>1 DEF AllocateBuffer, AllocateBufferOverruns, AllocateBufferFails,
                      AllAllocated, call
  <2>2. CASE ReadFromPipe \/ Convert
    BY <1>4, <2>2 DEF ReadFromPipe, Convert
  <2>3. CASE ConvertFails \/ ConvertIntoNothing
    BY <1>4, <2>3 DEF ConvertFails, ConvertIntoNothing, call
  <2>4. CASE RegisterBuffer \/ RegisterBufferFails
    BY <1>4, <2>4 DEF RegisterBuffer, RegisterBufferFails
  <2>5. CASE Submit \/ Recycle
    BY <1>4, <2>5 DEF Submit, Recycle
  <2> QED BY <1>4, <2>1, <2>2, <2>3, <2>4, <2>5 DEF Etb
<1>5. CASE ComponentDeInit
  BY <1>5 DEF ComponentDeInit, call
<1>6. CASE Ended \/ UNCHANGED vars
  BY <1>6 DEF Ended, vars, call
<1> QED BY <1>1, <1>2, <1>3, <1>4, <1>5, <1>6 DEF Next

\* What failed or was repeated stays on record.
LEMMA PastGrows ==
    ASSUME [Next]_vars
    PROVE  /\ past \subseteq past'
           /\ phase' \in {"setup", "stream"} /\ ~IndicesLost' =>
                phase \in {"setup", "stream"} /\ ~IndicesLost
<1>1. CASE Next /\ ~ClientMoves
  <2>1. phase' \in {"setup", "stream"} => phase' = phase
    BY <1>1 DEF Next, Etb, AllocateInput, AllocateOutput, EmptyThisBuffer,
       AllocateBuffer, AllocateBufferOverruns, AllocateBufferFails, AllAllocated,
       ReadFromPipe, Convert, ConvertFails, ConvertIntoNothing, RegisterBuffer, RegisterBufferFails, Submit,
       Recycle, EmptyBufferDone, FreeInput, FreeOutput, ComponentDeInit, Ended, vars
  <2>2. past \subseteq past'
    BY <1>1 DEF Next, Etb, AllocateInput, AllocateOutput, EmptyThisBuffer,
       AllocateBuffer, AllocateBufferOverruns, AllocateBufferFails, AllAllocated,
       ReadFromPipe, Convert, ConvertFails, ConvertIntoNothing, RegisterBuffer, RegisterBufferFails, Submit,
       Recycle, EmptyBufferDone, FreeInput, FreeOutput, ComponentDeInit, Ended, vars
  <2> QED BY <2>1, <2>2 DEF IndicesLost
<1>2. CASE ClientMoves
  BY <1>2 DEF ClientMoves, IndicesLost
<1>3. CASE UNCHANGED vars
  BY <1>3 DEF vars, IndicesLost
<1> QED BY <1>1, <1>2, <1>3

\* The loop writes behind gralloc_handle only if all entries are in use.
LEMMA OverrunKept ==
    PoolInv /\ CallTypes /\ OverrunKnown /\ [Next]_vars => OverrunKnown'
<1> SUFFICES ASSUME PoolInv, CallTypes, OverrunKnown, [Next]_vars PROVE OverrunKnown'
  OBVIOUS
<1>1. CASE AllocateBufferOverruns
  <2>1. nCurBufIndex \in 0 .. NUM /\ nCurBufIndex \notin 0 .. NUM - 1 /\ NUM \in Nat
    BY <1>1, ZeroIsIndex DEF AllocateBufferOverruns, Indices, PoolInv, PoolTypes
  <2>2. nCurBufIndex < nIn + nOut /\ nIn \in Int /\ nOut \in Int
        /\ nIn' = nIn /\ nOut' = nOut /\ phase' = "crashed"
    BY <1>1 DEF AllocateBufferOverruns, MoreBuffersWanted, PoolInv, PoolTypes
  <2> QED BY <2>1, <2>2 DEF OverrunKnown
<1>2. CASE ~AllocateBufferOverruns
  <2>1. "overrun" \in past' => "overrun" \in past
    BY <1>2 DEF Next, Etb, AllocateInput, AllocateOutput, ClientMoves, EmptyThisBuffer,
       AllocateBuffer, AllocateBufferFails, AllAllocated, ReadFromPipe, Convert,
       ConvertFails, ConvertIntoNothing, RegisterBuffer, RegisterBufferFails, Submit,
       Recycle, EmptyBufferDone, FreeInput, FreeOutput, ComponentDeInit, Ended, vars
  <2>2. phase = "crashed" => UNCHANGED <<nIn, nOut, phase>>
    BY <1>2 DEF Next, Etb, AllocateInput, AllocateOutput, ClientMoves, EmptyThisBuffer,
       EmptyBufferDone, FreeInput, FreeOutput, ComponentDeInit, Ended, vars
  <2> QED BY <2>1, <2>2 DEF OverrunKnown
<1> QED BY <1>1, <1>2

\* No index is lost while nothing fails to register.
LEMMA IndicesKept ==
    PoolInv /\ CallTypes /\ AllIndices /\ [Next]_vars => AllIndices'
<1> SUFFICES ASSUME PoolInv, CallTypes, AllIndices, [Next]_vars,
                    phase' \in {"setup", "stream"}, ~IndicesLost'
             PROVE  AllIndices'
  BY DEF AllIndices
<1>0. /\ Len(hBufPipe) = IF Holding THEN nCurBufIndex - 1 ELSE nCurBufIndex
      /\ \A i \in 0 .. nCurBufIndex - 1 :
           \/ \E j \in 1 .. Len(hBufPipe) : hBufPipe[j] = i
           \/ Holding /\ nBufIndex = i
      /\ hBufPipe \in Seq(Indices) /\ nCurBufIndex \in Nat /\ nBufIndex \in Indices
      /\ Len(hBufPipe) \in Nat
  BY PastGrows, ZeroIsIndex DEF AllIndices, PoolInv, PoolTypes, PipeTypes
<1> DEFINE Full(pipe, n, hold, k) ==
             /\ Len(pipe) = IF hold THEN n - 1 ELSE n
             /\ \A i \in 0 .. n - 1 : \/ \E j \in 1 .. Len(pipe) : pipe[j] = i
                                      \/ hold /\ k = i
<1>s. SUFFICES Full(hBufPipe', nCurBufIndex', Holding', nBufIndex')
  <2>1. hBufPipe' \in Seq(Indices)
    BY PipeKept DEF PipeTypes
  <2> QED BY <2>1 DEF AllIndices
<1>1. CASE AllocateBuffer
  <2>1. /\ hBufPipe' = Append(hBufPipe, nCurBufIndex)
        /\ nCurBufIndex' = nCurBufIndex + 1
        /\ ~Holding /\ ~Holding' /\ nCurBufIndex \in Indices
    BY <1>1, SizesAssumption DEF AllocateBuffer, call, Holding, PoolInv, PoolTypes,
                                 MoreBuffersWanted, Indices
  <2>2. /\ Len(hBufPipe') = Len(hBufPipe) + 1
        /\ hBufPipe'[Len(hBufPipe) + 1] = nCurBufIndex
        /\ \A j \in 1 .. Len(hBufPipe) : hBufPipe'[j] = hBufPipe[j]
    BY <1>0, <2>1
  <2>3. ASSUME NEW i \in 0 .. nCurBufIndex' - 1
        PROVE  \E j \in 1 .. Len(hBufPipe') : hBufPipe'[j] = i
    <3>1. CASE i = nCurBufIndex
      <4>1. Len(hBufPipe) + 1 \in 1 .. Len(hBufPipe')
        BY <1>0, <2>2
      <4> QED BY <2>2, <3>1, <4>1
    <3>2. CASE i # nCurBufIndex
      <4>1. i \in 0 .. nCurBufIndex - 1
        BY <1>0, <2>1, <3>2
      <4>2. PICK j \in 1 .. Len(hBufPipe) : hBufPipe[j] = i
        BY <1>0, <2>1, <4>1
      <4>3. j \in 1 .. Len(hBufPipe')
        BY <1>0, <2>2
      <4> QED BY <2>2, <4>2, <4>3
    <3> QED BY <3>1, <3>2
  <2> QED BY <1>0, <2>1, <2>2, <2>3
<1>2. CASE ReadFromPipe
  <2>1. /\ hBufPipe # <<>> /\ hBufPipe' = Tail(hBufPipe) /\ nBufIndex' = Head(hBufPipe)
        /\ nCurBufIndex' = nCurBufIndex /\ ~Holding /\ Holding'
    BY <1>2 DEF ReadFromPipe, Holding
  <2>2. /\ Len(hBufPipe') = Len(hBufPipe) - 1 /\ nBufIndex' = hBufPipe[1]
        /\ \A j \in 1 .. Len(hBufPipe) - 1 : hBufPipe'[j] = hBufPipe[j + 1]
    BY <1>0, <2>1
  <2>3. ASSUME NEW i \in 0 .. nCurBufIndex - 1
        PROVE  (\E j \in 1 .. Len(hBufPipe') : hBufPipe'[j] = i) \/ nBufIndex' = i
    <3>1. PICK j \in 1 .. Len(hBufPipe) : hBufPipe[j] = i
      BY <1>0, <2>1
    <3>2. CASE j = 1
      BY <2>2, <3>1, <3>2
    <3>3. CASE j # 1
      <4>1. j - 1 \in 1 .. Len(hBufPipe') /\ hBufPipe'[j - 1] = i
        BY <1>0, <2>2, <3>1, <3>3
      <4> QED BY <4>1
    <3> QED BY <3>2, <3>3
  <2> QED BY <1>0, <2>1, <2>2, <2>3
<1>3. CASE ConvertFails \/ Recycle
  <2>1. /\ hBufPipe' = Append(hBufPipe, nBufIndex)
        /\ nCurBufIndex' = nCurBufIndex /\ Holding /\ ~Holding'
    BY <1>3 DEF ConvertFails, Recycle, ReturnIndex, Holding
  <2>2. /\ Len(hBufPipe') = Len(hBufPipe) + 1
        /\ hBufPipe'[Len(hBufPipe) + 1] = nBufIndex
        /\ \A j \in 1 .. Len(hBufPipe) : hBufPipe'[j] = hBufPipe[j]
    BY <1>0, <2>1
  <2>3. ASSUME NEW i \in 0 .. nCurBufIndex - 1
        PROVE  \E j \in 1 .. Len(hBufPipe') : hBufPipe'[j] = i
    <3>1. Len(hBufPipe) + 1 \in 1 .. Len(hBufPipe')
      BY <1>0, <2>2
    <3>2. CASE nBufIndex = i
      BY <2>2, <3>1, <3>2
    <3>3. CASE nBufIndex # i
      <4>1. PICK j \in 1 .. Len(hBufPipe) : hBufPipe[j] = i
        BY <1>0, <3>3
      <4>2. j \in 1 .. Len(hBufPipe')
        BY <1>0, <2>2
      <4> QED BY <2>2, <4>1, <4>2
    <3> QED BY <3>2, <3>3
  <2> QED BY <1>0, <2>1, <2>2, <2>3
<1>4. CASE RegisterBufferFails
  BY <1>4 DEF RegisterBufferFails, IndicesLost
<1>5. CASE \/ FreeInput \/ FreeOutput \/ ComponentDeInit \/ ConvertIntoNothing
           \/ AllocateBufferOverruns
  BY <1>5 DEF FreeInput, FreeOutput, ComponentDeInit, ConvertIntoNothing,
              AllocateBufferOverruns
<1>6. CASE \E k \in Kinds : EmptyThisBuffer(k)
  <2>1. PICK k \in Kinds : EmptyThisBuffer(k)
    BY <1>6
  <2>2. nCurBufIndex' = nCurBufIndex
    BY <2>1, EmptyIndex
  <2>3. /\ UNCHANGED <<hBufPipe, nBufIndex>>
        /\ ~Holding /\ ~Holding'
    BY <2>1 DEF EmptyThisBuffer, Holding
  <2> QED BY <1>0, <2>2, <2>3
<1>7. CASE \/ AllocateInput \/ AllocateOutput \/ ClientMoves \/ AllocateBufferFails
           \/ AllAllocated \/ Convert \/ RegisterBuffer \/ Submit \/ EmptyBufferDone
           \/ Ended \/ UNCHANGED vars
  <2>1. UNCHANGED <<hBufPipe, nCurBufIndex, nBufIndex>>
    BY <1>7 DEF AllocateInput, AllocateOutput, ClientMoves, AllocateBufferFails,
       AllAllocated, Convert, RegisterBuffer, Submit, EmptyBufferDone, Ended, vars, call
  <2>2. CASE Convert \/ RegisterBuffer \/ Submit
    <3>1. Holding' <=> Holding
      BY <2>2 DEF Convert, RegisterBuffer, Submit, Holding, CallTypes
    <3> QED BY <1>0, <2>1, <3>1
  <2>3. CASE ~(Convert \/ RegisterBuffer \/ Submit)
    <3>1. Holding' <=> Holding
      BY <1>7, <2>3 DEF AllocateInput, AllocateOutput, ClientMoves, AllocateBufferFails,
         AllAllocated, EmptyBufferDone, Ended, vars, call, Holding
    <3> QED BY <1>0, <2>1, <3>1
  <2> QED BY <2>2, <2>3
<1> QED
  BY <1>1, <1>2, <1>3, <1>4, <1>5, <1>6, <1>7 DEF Next, Etb

\* In a stream without failures the frames trail the pipe.
LEMMA FramesKept ==
    StreamInv /\ [Next]_vars => FramesInOrder'
<1> SUFFICES ASSUME StreamInv, [Next]_vars, past' = {}, phase' \in {"setup", "stream"}
             PROVE  Ordered'
  BY DEF FramesInOrder
<1>0. /\ past = {} /\ phase \in {"setup", "stream"} /\ ~IndicesLost
  BY PastGrows DEF IndicesLost
<1>1. Ordered
  BY <1>0 DEF StreamInv, FramesInOrder
<1>2. /\ hBufPipe \in Seq(Indices) /\ nBufIndex \in Indices
      /\ encoder \in Seq(Indices \cup {Native})
      /\ Len(hBufPipe) \in Nat /\ Len(encoder) \in Nat
      /\ nCurBufIndex \in Nat /\ nIn \in Nat /\ nOut \in Nat
      /\ Len(hBufPipe) = IF Holding THEN nCurBufIndex - 1 ELSE nCurBufIndex
  BY <1>0, SizesAssumption DEF StreamInv, PoolInv, PoolTypes, PipeTypes, AllIndices
<1>3. \A i \in Indices : i \in Nat /\ i # Native
  BY DEF Indices, Native
<1>4. CASE EmptyBufferDone
  <2>1. /\ encoder # <<>> /\ encoder' = Tail(encoder) /\ UNCHANGED <<Ring, Holding>>
        /\ UNCHANGED <<nIn, nOut, nCurBufIndex, hBufPipe, pc, kind, nBufIndex, phase>>
    BY <1>4 DEF EmptyBufferDone, call, Ring, Holding
  <2>2. /\ Len(encoder') = Len(encoder) - 1
        /\ \A i \in 1 .. Len(encoder') : encoder'[i] = encoder[i + 1] /\ i + 1 \in 1 .. Len(encoder)
    BY <1>2, <2>1
  <2>3. Trails(encoder', Ring)
    <3>1. Ring \in Seq(Indices)
      BY <1>2 DEF Ring
    <3> QED BY <1>1, <1>2, <2>1, <3>1, TrailsDone DEF Ordered
  <2>4. ~Contains(encoder, nBufIndex) => ~Contains(encoder', nBufIndex)
    BY <2>2 DEF Contains
  <2> QED BY <1>1, <1>2, <2>1, <2>2, <2>3, <2>4 DEF Ordered
<1>5. CASE Submit
  <2>1. /\ pc = "submit"
        /\ encoder' = Append(encoder, IF kind = "nv12" THEN Native ELSE nBufIndex)
        /\ pc' = IF kind = "nv12" THEN "idle" ELSE "recycle"
        /\ UNCHANGED <<nIn, nOut, nCurBufIndex, hBufPipe, kind, nBufIndex, phase>>
    BY <1>0, <1>5 DEF Submit
  <2>2. phase = "stream"
    BY <1>0, <2>1 DEF StreamInv, CallTypes
  <2>3. Ring = hBufPipe
    BY <2>1 DEF Ring
  <2>4. CASE kind = "nv12"
    <3>1. Ring' = Ring /\ ~Holding' /\ encoder' = Append(encoder, Native)
      BY <2>1, <2>4 DEF Ring, Holding
    <3>2. Trails(encoder', Ring)
      BY <1>1, <1>2, <2>3, <3>1, TrailsNative DEF Ordered
    <3> QED BY <1>1, <2>1, <2>2, <2>4, <3>1, <3>2 DEF Ordered
  <2>5. CASE kind # "nv12"
    <3>1. /\ Ring' = Append(hBufPipe, nBufIndex) /\ Holding /\ pc' = "recycle"
          /\ encoder' = Append(encoder, nBufIndex)
      BY <2>1, <2>5 DEF Ring, Holding
    <3>2. Trails(encoder', Ring')
      BY <1>1, <1>2, <2>3, <3>1, TrailsPush DEF Ordered
    <3>3. Distinct(Ring')
      BY <1>1, <1>2, <2>1, <2>3, <3>1, DistinctPush DEF Ordered
    <3> QED BY <1>1, <2>1, <2>2, <3>1, <3>2, <3>3 DEF Ordered
  <2> QED BY <2>4, <2>5
<1>6. CASE Recycle
  <2>1. /\ pc = "recycle" /\ pc' = "idle" /\ hBufPipe' = Append(hBufPipe, nBufIndex)
        /\ UNCHANGED <<nIn, nOut, nCurBufIndex, kind, nBufIndex, encoder, phase>>
        /\ Holding /\ ~Holding'
    BY <1>6 DEF Recycle, ReturnIndex, Holding
  <2>2. Ring' = Ring
    BY <2>1 DEF Ring
  <2>3. \A p \in 1 .. Len(hBufPipe') : hBufPipe'[p] < nCurBufIndex
    <3>1. /\ Len(hBufPipe') = Len(hBufPipe) + 1
          /\ hBufPipe'[Len(hBufPipe) + 1] = nBufIndex
          /\ \A j \in 1 .. Len(hBufPipe) : hBufPipe'[j] = hBufPipe[j]
      BY <1>2, <2>1
    <3> QED BY <1>1, <1>2, <2>1, <3>1 DEF Ordered
  <2> QED BY <1>1, <2>1, <2>2, <2>3 DEF Ordered
<1>7. CASE ReadFromPipe
  <2>1. /\ pc = "read" /\ pc' = "convert" /\ hBufPipe # <<>>
        /\ nBufIndex' = Head(hBufPipe) /\ hBufPipe' = Tail(hBufPipe)
        /\ UNCHANGED <<nIn, nOut, nCurBufIndex, kind, encoder, phase>>
        /\ ~Holding
    BY <1>7 DEF ReadFromPipe, Holding
  <2>2. Ring = hBufPipe /\ Ring' = hBufPipe'
    BY <2>1 DEF Ring
  <2>3. Len(encoder) < Len(hBufPipe)
    BY <1>1, <1>2, <2>1 DEF Ordered
  <2>4. /\ Len(hBufPipe') = Len(hBufPipe) - 1 /\ nBufIndex' = hBufPipe[1]
        /\ \A p \in 1 .. Len(hBufPipe') : hBufPipe'[p] = hBufPipe[p + 1] /\ p + 1 \in 1 .. Len(hBufPipe)
        /\ 1 \in 1 .. Len(hBufPipe) /\ Head(hBufPipe) \in Indices
    BY <1>2, <2>1
  <2>5. /\ Trails(encoder, hBufPipe') /\ Distinct(hBufPipe')
        /\ ~Contains(encoder, nBufIndex') /\ ~Contains(hBufPipe', nBufIndex')
    <3>1. Trails(encoder, hBufPipe) /\ Distinct(hBufPipe)
      BY <1>1, <2>2 DEF Ordered
    <3>2. Head(hBufPipe) # Native
      BY <1>3, <2>4
    <3>3. /\ Trails(encoder, Tail(hBufPipe)) /\ Distinct(Tail(hBufPipe))
          /\ ~Contains(encoder, Head(hBufPipe)) /\ ~Contains(Tail(hBufPipe), Head(hBufPipe))
      BY <1>2, <2>3, <3>1, <3>2, TrailsPop
    <3> QED BY <2>1, <3>3
  <2> QED BY <1>1, <1>2, <2>1, <2>2, <2>4, <2>5 DEF Ordered
<1>8. CASE AllocateBuffer
  <2>1. /\ pc = "alloc" /\ nCurBufIndex < nIn + nOut
        /\ hBufPipe' = Append(hBufPipe, nCurBufIndex)
        /\ nCurBufIndex' = nCurBufIndex + 1
        /\ UNCHANGED <<nIn, nOut, pc, kind, nBufIndex, encoder, phase>>
        /\ ~Holding /\ ~Holding' /\ nCurBufIndex \in Indices
    BY <1>8, SizesAssumption DEF AllocateBuffer, MoreBuffersWanted, call, Holding,
                                 StreamInv, PoolInv, PoolTypes, Indices
  <2>2. Ring = hBufPipe /\ Ring' = hBufPipe' /\ phase = "stream"
    BY <1>0, <2>1 DEF Ring, StreamInv, CallTypes
  <2>3. /\ Len(hBufPipe') = Len(hBufPipe) + 1
        /\ hBufPipe'[Len(hBufPipe) + 1] = nCurBufIndex
        /\ \A j \in 1 .. Len(hBufPipe) : hBufPipe'[j] = hBufPipe[j]
    BY <1>2, <2>1
  <2>4. Distinct(hBufPipe')
    <3>1. ~Contains(hBufPipe, nCurBufIndex)
      BY <1>1, <1>2 DEF Ordered, Contains
    <3> QED BY <1>1, <1>2, <2>1, <2>2, <3>1, DistinctPush DEF Ordered
  <2>5. Trails(encoder, hBufPipe')
    BY <1>1, <2>1 DEF Ordered, Trails
  <2>6. \A p \in 1 .. Len(hBufPipe') : hBufPipe'[p] < nCurBufIndex'
    <3>1. \A p \in 1 .. Len(hBufPipe) : hBufPipe[p] \in Nat /\ hBufPipe[p] < nCurBufIndex
      BY <1>1, <1>2, <1>3 DEF Ordered
    <3> QED BY <1>2, <2>1, <2>3, <3>1
  <2> QED BY <1>1, <1>2, <2>1, <2>2, <2>4, <2>5, <2>6 DEF Ordered
<1>9. CASE AllAllocated
  <2>1. /\ pc = "alloc" /\ pc' = "read" /\ ~(nCurBufIndex < nIn + nOut)
        /\ UNCHANGED <<nIn, nOut, nCurBufIndex, hBufPipe, kind, nBufIndex, encoder, phase>>
        /\ ~Holding' /\ UNCHANGED Ring
    BY <1>9 DEF AllAllocated, MoreBuffersWanted, Holding, Ring
  <2> QED BY <1>1, <1>2, <2>1 DEF Ordered
<1>10. CASE Convert \/ RegisterBuffer
  <2>1. /\ \/ pc = "convert" /\ pc' = "register"
           \/ pc = "register" /\ pc' = "submit"
        /\ UNCHANGED <<nIn, nOut, nCurBufIndex, hBufPipe, kind, nBufIndex, encoder, phase>>
    BY <1>10 DEF Convert, RegisterBuffer
  <2>2. UNCHANGED Ring /\ (Holding' => Holding)
    BY <2>1 DEF Ring, Holding
  <2> QED BY <1>1, <2>1, <2>2 DEF Ordered
<1>11. CASE \E k \in Kinds : EmptyThisBuffer(k)
  <2>1. PICK k \in Kinds : EmptyThisBuffer(k)
    BY <1>11
  <2>2. /\ pc = "idle" /\ pc' \in {"register", "read", "alloc"} /\ Len(encoder) < nIn
        /\ UNCHANGED <<nIn, nOut, nCurBufIndex, hBufPipe, nBufIndex, encoder, phase>>
        /\ pc' = "alloc" => nCurBufIndex' = 0
        /\ phase = "stream" /\ ~Holding
    BY <2>1, EmptyIndex DEF EmptyThisBuffer, BufferAtHand, Holding, StreamInv
  <2>3. ~Holding'
    BY <2>1 DEF EmptyThisBuffer, Holding
  <2>4. UNCHANGED Ring
    BY <2>2 DEF Ring
  <2>5. CASE pc' = "alloc"
    <3>1. nCurBufIndex = 0 /\ Len(hBufPipe) = 0
      BY <1>2, <2>2, <2>5
    <3>2. Ring = hBufPipe
      BY <2>2 DEF Ring
    <3>3. \A i \in 1 .. Len(encoder) : encoder[i] = Native
      BY <1>1, <1>2, <3>1, <3>2 DEF Ordered, Trails
    <3> QED BY <1>1, <1>2, <2>2, <2>3, <2>4, <2>5, <3>1, <3>3 DEF Ordered
  <2>6. CASE pc' = "read"
    <3>1. gralloc_handle[0]
      BY <2>1, <2>6 DEF EmptyThisBuffer
    <3>2. nCurBufIndex # 0
      BY <3>1, ZeroIsIndex DEF StreamInv, PoolInv, PoolPrefix
    <3> QED BY <1>1, <2>2, <2>3, <2>4, <2>6, <3>2 DEF Ordered
  <2>7. CASE pc' = "register"
    BY <1>1, <2>2, <2>3, <2>4, <2>7 DEF Ordered
  <2> QED BY <2>2, <2>5, <2>6, <2>7
<1>12. CASE ClientMoves
  <2>1. /\ pc = "idle" /\ phase' = "stream"
        /\ UNCHANGED <<nIn, nOut, nCurBufIndex, hBufPipe, pc, kind, nBufIndex, encoder>>
        /\ UNCHANGED <<Ring, Holding>>
    BY <1>0, <1>12 DEF ClientMoves, call, Ring, Holding
  <2> QED BY <1>1, <2>1 DEF Ordered
<1>13. CASE AllocateInput \/ AllocateOutput
  <2>1. /\ phase = "setup" /\ pc = "idle" /\ nIn' \in Nat /\ nOut' \in Nat
        /\ UNCHANGED <<nCurBufIndex, hBufPipe, pc, kind, nBufIndex, encoder, phase>>
        /\ UNCHANGED <<Ring, Holding>>
    BY <1>2, <1>13 DEF AllocateInput, AllocateOutput, call, Ring, Holding, StreamInv,
                       CallTypes
  <2> QED BY <1>1, <2>1 DEF Ordered
<1>14. CASE \/ ConvertFails \/ AllocateBufferFails \/ AllocateBufferOverruns
            \/ RegisterBufferFails
  BY <1>14 DEF ConvertFails, AllocateBufferFails, AllocateBufferOverruns,
               RegisterBufferFails
<1>15. CASE FreeInput \/ FreeOutput \/ ComponentDeInit \/ ConvertIntoNothing \/ Ended
  BY <1>0, <1>15 DEF FreeInput, FreeOutput, ComponentDeInit, ConvertIntoNothing, Ended
<1>16. CASE UNCHANGED vars
  <2>1. UNCHANGED <<nIn, nOut, nCurBufIndex, hBufPipe, pc, kind, nBufIndex, encoder, phase,
                    Ring, Holding>>
    BY <1>16 DEF vars, call, Ring, Holding
  <2> QED BY <1>1, <2>1 DEF Ordered
<1> QED
  BY <1>4, <1>5, <1>6, <1>7, <1>8, <1>9, <1>10, <1>11, <1>12, <1>13, <1>14, <1>15, <1>16
     DEF Next, Etb

\* Hence a frame is only converted into a buffer that exists.
LEMMA NoCrashKept == StreamInv /\ [Next]_vars => NoCrash'
<1> SUFFICES ASSUME StreamInv, [Next]_vars, past' = {} PROVE phase' # "crashed"
  BY DEF NoCrash
<1>1. past = {} /\ phase # "crashed"
  BY PastGrows DEF StreamInv, NoCrash
<1>2. CASE ConvertIntoNothing
  <2>1. pc = "convert" /\ ~gralloc_handle[nBufIndex] /\ nBufIndex \in Indices
    BY <1>2 DEF ConvertIntoNothing, StreamInv, PoolInv, PipeTypes
  <2>2. phase = "stream" /\ Holding
    BY <1>1, <2>1 DEF StreamInv, CallTypes, Holding
  <2>3. nBufIndex < nCurBufIndex
    BY <1>1, <2>2 DEF StreamInv, FramesInOrder, Ordered
  <2> QED BY <2>1, <2>3 DEF StreamInv, PoolInv, PoolPrefix
<1>3. CASE ~ConvertIntoNothing
  BY <1>1, <1>3 DEF Next, Etb, AllocateInput, AllocateOutput, ClientMoves, EmptyThisBuffer,
     AllocateBuffer, AllocateBufferOverruns, AllocateBufferFails, AllAllocated,
     ReadFromPipe, Convert, ConvertFails, RegisterBuffer, RegisterBufferFails, Submit,
     Recycle, EmptyBufferDone, FreeInput, FreeOutput, ComponentDeInit, Ended, vars
<1> QED BY <1>2, <1>3

\* Nothing has been streamed at the start.
LEMMA StreamInit == Init => StreamInv
<1> SUFFICES ASSUME Init PROVE StreamInv
  OBVIOUS
<1>1. PoolInv
  BY PoolInit
<1>2. CallTypes
  BY DEF Init, CallTypes, Stages, Kinds, FailurePoints
<1>3. ~Holding /\ Ring = <<>> /\ nCurBufIndex = 0 /\ hBufPipe = <<>> /\ encoder = <<>>
  BY DEF Init, Holding, Ring
<1>4. AllIndices
  BY <1>3 DEF AllIndices
<1>5. FramesInOrder
  BY <1>3 DEF Init, FramesInOrder, Ordered, Trails, Distinct
<1>6. NoCrash
  BY DEF Init, NoCrash
<1> QED BY <1>1, <1>2, <1>4, <1>5, <1>6 DEF StreamInv, Init, OverrunKnown

\* All of it together is inductive.
LEMMA StreamKept == StreamInv /\ [Next]_vars => StreamInv'
BY PrefixKept, PipeKept, CallTypesKept, OverrunKept, IndicesKept, FramesKept, NoCrashKept
   DEF StreamInv, PoolInv

(***************************************************************************)
(* The proxy keeps its types for any numbers of buffers and any failures:  *)
(* no index that circulates in the pipe, is held by EmptyThisBuffer or is  *)
(* at the encoder lies outside gralloc_handle, and the loop that fills     *)
(* gralloc_handle writes behind it only when the two ports together have   *)
(* more buffers than it has entries.                                       *)
(***************************************************************************)
THEOREM TypesCorrect == Spec => []TypeOK
<1>1. StreamInv => TypeOK
  BY DEF StreamInv, PoolInv, PoolTypes, PipeTypes, CallTypes, OverrunKnown, TypeOK
<1> QED BY <1>1, StreamInit, StreamKept, PTL DEF Spec

(***************************************************************************)
(* For any numbers of buffers: between calls the pipe holds every NV12     *)
(* buffer once, whatever allocation, conversion or EmptyThisBuffer failed; *)
(* only a failed registration, or enabling the port again, loses one.      *)
(***************************************************************************)
THEOREM PoolStaysComplete == Spec => []PoolComplete
<1>1. StreamInv => PoolComplete
  <2> SUFFICES ASSUME StreamInv, phase = "stream", pc = "idle", ~IndicesLost
               PROVE  /\ Len(hBufPipe) = nCurBufIndex
                      /\ \A i \in 0 .. nCurBufIndex - 1 :
                           \E j \in DOMAIN hBufPipe : hBufPipe[j] = i
    BY DEF PoolComplete
  <2>1. ~Holding
    BY DEF Holding
  <2> QED BY <2>1 DEF StreamInv, AllIndices
<1> QED BY <1>1, StreamInit, StreamKept, PTL DEF Spec

(***************************************************************************)
(* For any numbers of buffers, as long as nothing fails: EmptyThisBuffer   *)
(* never converts a frame into an NV12 buffer the encoder still reads,     *)
(* although it returns the index to the pipe before the encoder is done.   *)
(***************************************************************************)
THEOREM FramesStayIntact == Spec => []FramesIntact
<1>1. StreamInv => FramesIntact
  <2> SUFFICES ASSUME StreamInv, past = {}, pc = "convert", NEW i \in DOMAIN encoder
               PROVE  encoder[i] # nBufIndex
    BY DEF FramesIntact
  <2>1. encoder \in Seq(Indices \cup {Native}) /\ i \in 1 .. Len(encoder)
    BY DEF StreamInv, PoolInv, PipeTypes
  <2>2. Holding /\ phase = "stream"
    BY DEF Holding, StreamInv, CallTypes, NoCrash
  <2>3. ~Contains(encoder, nBufIndex)
    BY <2>2 DEF StreamInv, FramesInOrder, Ordered
  <2> QED BY <2>1, <2>3 DEF Contains
<1> QED BY <1>1, StreamInit, StreamKept, PTL DEF Spec

=============================================================================
