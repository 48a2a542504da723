# TI OMAP4 hardware support: a TLA+ verification project

This directory holds TLA+ models of the two parts of this repository that carry
its own concurrent logic.

* TI's Distributed OpenMAX stack under `src/domx`. An Android media client calls
  an OpenMAX component as if it were local. The component is a *proxy*, the work
  is done by firmware on the Ducati co-processor, and between the two lie a
  remote procedure call layer, a listener thread, shared buffers and a
  process-wide core library.
* The camera HAL under `src/camera`, the largest client of that stack: a state
  machine driven by four threads under six locks, and preview buffers that travel
  between the camera, the display, the application and the video encoder.

* Part 1, the inventory: what is in the repository, and what is hard about it
* Part 2, the plan
* Part 3, the modules and how they correspond to the code
* Part 4, the runs: what TLC checks, on which bounds, under which fairness
* Part 5, the proofs
* Part 6, where the code departs from what its comments say
* Part 7, what is not modelled, and why

## 1. Inventory

The tree has 595 files and 306,000 lines. About 129,000 of them are the PowerVR
kernel driver (`pvr-source`), 61,000 the BLTsville 2D library (half of it
generated HTML) and 13,000 Trusted Foundations client code (`security`), all
vendored. The logic that belongs to this repository is in `domx` (33,000 lines,
12,000 of them OpenMAX headers) and `camera` (43,000 lines).

### The DOMX stack

| part | state it keeps | operations | talks to |
|---|---|---|---|
| OMX core (`OMX_Core.c`) | client count, two mutexes, a table of loaded components | `OMX_Init`, `OMX_Deinit`, `OMX_GetHandle`, `OMX_FreeHandle`, enumeration | loads the proxies and runs their init and de-init with its mutex held |
| Proxy (`omx_proxy_common.c`) | a table of buffers: local and remote header, memory handles, registrations; two counters | `AllocateBuffer`, `UseBuffer`, `FreeBuffer`, `EmptyThisBuffer`, `FillThisBuffer`, parameters, commands, `ComponentDeInit`; upcalls `EmptyBufferDone`, `FillBufferDone`, `EventHandler` | calls the RPC stubs; its upcalls run in the listener's thread |
| RPC (`omx_rpc.c`, `omx_rpc_stub.c`, `omx_rpc_skel.c`) | per component instance: two file descriptors, one message pipe per function index, the listener thread; one static error packet for the process | one stub per OpenMAX function, the listener loop, `RPC_InstanceInit`, `RPC_InstanceDeInit` | `/dev/rpmsg-omx1`; hands packets from the listener to the stubs |
| Encoder proxies (`omx_proxy_h264enc.c` and four near copies) | a pool of NV12 gralloc buffers and a pipe with their indices | colour conversion in `EmptyThisBuffer`; the pool grows there and shrinks in `FreeBuffer` | the common proxy, gralloc |
| Camera and decoder proxies | parameters | quirks of single parameters | the common proxy |
| Memory plugins | an ion client per component | allocate, map, free | the ion driver |
| OSAL (`mm_osal`) | pipes, events, semaphores, mutexes, tasks | wrappers of POSIX calls | everybody |

### The camera HAL

| part | state it keeps | operations | talks to |
|---|---|---|---|
| `CameraHal` | flags for preview, paused display and recording; the buffers it allocated; one lock | the calls of the Android camera interface | sends commands to the adapter, starts and stops display and notifier |
| `BaseCameraAdapter` | current and next state, reference counts of every buffer per frame type, lists of subscribers, `mRecording` | `sendCommand` (set state, operation, commit or roll back), `returnFrame`, distribution of frames | its subclass; the subscribers' callbacks |
| `OMXCameraAdapter` | port parameters, capture and burst counters, zoom and focus status, five locks | preview, capture, focus, zoom; a command handler thread and a thread for OMX callbacks | the OMX component on Ducati, through the DOMX stack |
| `ANativeWindowDisplayAdapter` | which buffers are with the window and with the adapter, a message queue | post a frame; its thread dequeues buffers and returns them | the native window |
| `AppCallbackNotifier` | queues of frames and events, metadata of video buffers | its thread copies preview frames and hands video frames to the encoder | the application, the encoder |
| V4L adapter, buffer sources | the same roles for USB cameras and for application buffers | | |
| `libtiutils` | message queues, semaphores | | everybody |

Every operation passes through the adapter's state machine: `setState` takes
`mLock`, looks the command up and keeps the lock until `commitState` or
`rollbackState`. Four threads do so: the application's, the command handler
(captures, auto focus), the OMX callback thread (smooth zoom) and whichever
thread returns the last frame of a capture.

### What is hard here

* **Ownership across threads.** The listener allocates every packet and a stub
  frees it, except where the listener does; on hardware errors all stubs share
  one static packet that nobody may free.
* **Matching.** An answer carries a function index and no request number.
* **Death of the remote.** Whoever is blocked has to be woken, the client told,
  and the instance still has to come down.
* **Half-done calls.** Buffer calls take several steps (slot, header, memory,
  metadata, registration, remote call), each of which can fail.
* **Tables with holes, counters and high-water marks.**
* **A mutex with a life of its own.** The core destroys its mutex with the last
  client and creates it with the next.
* **One state machine, many drivers.** A camera command is chosen from a state that
  was read before the lock was taken; what it undoes may be gone by then.
* **Lock order.** Six camera locks are taken in orders that do not agree.
* **Frames with several holders.** A preview buffer is refilled by whichever of
  three threads returns it last, while subscribers come and go.
* **Early recycling.** The encoder proxy returns an NV12 buffer to its pool when
  the frame is submitted, not when the encoder has read it.

`PROJECT.json` lists these hazards with their lines and with the properties that
would catch them going wrong. What makes each part correct:

* RPC: every packet has one owner; a call returns its own answer, once; every
  call returns; a fatal error is reported; tear-down ends.
* Proxy: table, counters and heap agree in every order of calls; a returned
  buffer is found under the right header; nothing leaks; buffers come back.
* Core: the table is only touched under an existing mutex; a handle stays in its
  slot until its owner frees it; slots are not lost.
* Encoder: no frame is overwritten before it is encoded; no index is lost;
  `EmptyThisBuffer` does not wait for ever; the pool matches its counter.
* Camera control: the state moves along its table; nobody sees a transition that
  was rolled back; flags, buffers and recording agree with the state; captures
  end, calls return, and threads do not wait for each other.
* Frame distribution: reference counts are the numbers of holders; a buffer is
  in one place, refilled once and by the last; frames keep flowing; the
  display thread does not block, and `stopPreview` returns.

## 2. Plan

Done, in the order of importance:

1. `RpcChannel`, its abstract specification `RpcService` and the refinement
   between them.
2. `ProxyBuffers`.
3. `OmxCore`.
4. `EncoderPool`.
5. `AdapterState` and `CameraControl`: the camera's state machine and everything
   that drives it.
6. `FrameDistribution`: the way of the preview and video frames.
7. Proofs of every invariant of these modules, and of the safety part of the
   refinement.

Next:

8. `CameraControl` with bracketing, closing the camera and the start of a preview
   without a window; a deadlock-free variant that takes the locks in one order,
   shown to implement the same transitions.
9. `OsalPipe`: the pipe with its `messageCount` changed without a lock, against
   the FIFO that `RpcChannel` and `EncoderPool` assume.
10. `RpcInstance`: `RPC_InstanceInit` with its retries, several instances and the
    error packet they share; two client threads in `ProxyBuffers`.

## 3. Modules

| module | models | its state | its actions |
|---|---|---|---|
| `RpcChannel` | one RPC instance | the stubs' and the listener's local variables, the pipes, the packets on the heap, the remote's queue | send, block, return of a stub; each branch of the listener's loop; tear-down; external: answers, upcalls, death of the remote |
| `RpcService` | nothing of the code: what the RPC layer promises | per thread: called, answered, result | invoke, execute, return, fail, die |
| `RpcRefinement` | the mapping from the first to the second: where each thread's call stands, from what is on its way to it | | |
| `ProxyBuffers` | the buffer table of a proxy | the slots, the two counters, the heap, the memory plugin, what the remote has | each buffer call cut at its RPC round trip; upcalls; tear-down |
| `OmxCore` | the core | count, both mutexes, the table, the calls of each client | each call cut wherever another thread can get in between |
| `EncoderPool` | the NV12 pool | the gralloc handles, `nCurBufIndex`, the pipe, frames at the encoder | `EmptyThisBuffer` step by step, `FreeBuffer`, `ComponentDeInit` |
| `AdapterState` | the camera adapter's states and `setState`'s table | none (constants) | |
| `CameraControl` | `CameraHal`'s calls, `sendCommand` and the operations behind it | current and next state, the owner of every lock, where each of four threads is, `CameraHal`'s flags, capture counters, image buffers, zoom, the handler's queue | one action per stretch of code between two points where another thread can get in |
| `FrameDistribution` | preview and video frames during one preview session | counts per frame type, subscribers, and every place a buffer can be: Ducati, the callback thread, window, queues, notifier, encoder | take, count and send a frame; display, notifier and encoder steps; recording, callbacks, `stopPreview` |
| `MC...` | | | model values and symmetry sets for TLC |
| `...Proofs` | | | theorems |

Names follow the source: variables are the fields and locals they stand for
(`pBuffer`, `eRPCError`, `nTotalBuffers`, `nCurBufIndex`, `pModules`), actions
the functions. `PROJECT.json` maps each definition to its lines. Definitions
whose comment starts with "Mutant" are plausible bugs; each one, put in place of
the definition it follows, breaks a property (see `mutants` there).

Points that need a word:

* **Atomicity.** An action is the code between two points where another thread
  can see or change shared state. In `RpcChannel` every pass through the
  listener's loop has three or more steps (select, read, dispatch, `EXIT`). In
  `OmxCore` the increment of `count` is apart from the test that follows.
* **Function indices.** `NFxns` of them have a stub, 0 is `GET_HANDLE`, one index
  stands for the three upcalls and one for those out of range. `CallerFxns` says
  which thread calls what.
* **Whose answer.** The code tells answers apart by function index only. Requests
  and answers of the model also carry their thread and the number of its call, which
  no guard looks at; `OwnAnswer` and the refinement speak of them.
* **The heap.** `live` and `contents` are separate, so that a freed packet can be
  read, freed again or allocated anew, and the properties notice.
* **Transient faults.** `TransientFaults` (and `MaxFaults`, `Failures` in the
  other modules) turns failing system calls on and off, because the listener's
  sticky error breaks packet ownership once one has happened (Part 6).
* **Slot `MAX`** of `ProxyBuffers` is the memory behind the array.
* **The client of `ProxyBuffers`** makes one call at a time and frees and gives
  only buffers it has, as the OpenMAX standard asks of it.
* **A client of `OmxCore`** uses the core between its own init and de-init; a
  de-init without an init is modelled when there is no client at all, the case
  the assertion is for.
* **The encoder** returns frames in the order it got them. The ports may have more
  buffers together than `gralloc_handle` has entries; the loop that fills it then
  writes behind it (`AllocateBufferOverruns`), and the model stops there, since what
  follows is undefined.
* **The camera build** is that of `BoardConfigCommon`: without
  `OMAP_ENHANCEMENT_CPCAM` and `OMAP_ENHANCEMENT_VTC`, hence no reprocessing,
  buffer sources or tunnels.
* **Threads in `CameraControl`.** `pc[t]` is where thread `t` is. `set`, `op` and
  `finish` are the three parts of `sendCommand`; `back[t]` is where it goes on
  afterwards. `finish` is a step of its own because `mLock` is held until then.
  `mNextState` is not set by the constructor, so `Init` allows any value.
* **Image buffers** are counted, not named: with Ducati, with a consumer, being
  given back, or `lost` (marked `DONE` without an owner, so never queued again).
* **Faults and fatal errors.** Each operation fails where its code can: with an early
  return that changes nothing (`Fault`), or with what it has changed by then and
  `performCleanupAfterError`, which tells the application and leaves the component
  invalid (`dead`); the application makes no further call. A failed `enableDisplay`
  ends the process (`CAMHAL_ASSERT_X` aborts in every build,
  `libtiutils/DebugUtils.h:212-220`): the application stays at `aborted`.
* **Waiting in `CameraControl`** (`Awaits`) is for the owner of a lock or, in
  `stopPreview`, for the callback thread to run out of work
  (`OMXCallbackHandler::flush`). `setParameters` takes `mZoomLock` for a moment
  wherever `CameraHal` gives the adapter its parameters; the call of it in
  `takePicture` (`CameraHal.cpp:3420`) is compiled with `OMAP_ENHANCEMENT_CPCAM` only.
  Whether `UseBuffersCapture` registers its buffers anew depends on pending capture
  settings and is left open.
* **A preview session** of `FrameDistribution` begins just after
  `CAMERA_START_PREVIEW` and ends with `stopPreview`. `recording`, `vsubs` and the
  order in which calls change them are as in the code, without `CameraControl`'s
  state machine in between.
* **`astray`** records that the deliveries of a frame and its returns have parted: a
  video frame outlived its recording (it was in the callback thread while
  `stopRecording` ran, or still queued when the next recording started), or
  `advanceZoom` failed after a frame was delivered, for which `FillBufferDone` returns
  it once more. `Follow` says whether the session is followed past that point (Part 6).

## 4. Runs

| run | checks | bounds |
|---|---|---|
| `rpc_shared` | types, `PacketOwnership`, `NothingLost`, `OwnAnswer` | 2 threads sharing 2 functions, 2 calls each, 3 packet cells; 2.2 million states |
| `rpc_live` | `CallReturns`, `FatalReported`, `TearDownCompletes`, `UpcallsRun` | one thread with two functions, two upcalls, all transient faults; 147,000 states |
| `rpc_service` | `ImplementsService` | 2 threads with a function each, 2 calls each |
| `proxy_buffers` | types, `SlotTable`, `NothingLeaks`, `SpotHoldsOwnMemory`, `DoneFindsHeader`, `HeadersOwned` | 3 slots, 3 headers, 2 memory blocks, metadata on every buffer, one fault anywhere; 1.4 million states |
| `proxy_live` | `BuffersComeBack` | 2 slots, with and without metadata, no fault |
| `core_table` | types, `MutexGuards`, `SlotsAccounted`, `HandlesInTable` | 3 clients, 2 slots, 3 handles, all failures |
| `encoder_pool` | types, `FramesIntact`, `PoolPrefix`, `PoolComplete`, `EtbReturns` | up to 2 input and 2 output buffers for an array of 3, all failures, the port enabled any number of times; 154,000 states |
| `camera_capture` | types, `PreviewHasBuffers`, `FlagsTrue`, `OnlyKnownCycles`, `AlongTable` | preview, capture, restart and recording calls, one image buffer, one fault anywhere; 1.3 million states |
| `camera_live` | `CaptureEnds` | preview and capture calls, no fault; 140,000 states |
| `camera_focus` | `NextInStep`, `RecordingInStep`, `CallsReturn` | preview, recording, focus and zoom calls, one fault; 67,000 states |
| `frames` | types, `CountsAgree`, `BufferConserved`, `DisplayPaced`, `FramesFlow`, `CallsReturn` | two buffers, both in circulation (a window that keeps none), any number of recordings and callback changes, a zoom that fails; 49,000 states. The same configuration with `Bufs = {b1, b2, b3}` and `Undequeued = {b3}` holds too, in 1.1 million states and some minutes; the three invariants are proved for every choice of both |

`camera_rollback`, expected to end in a violation, is in Part 6.

**Why the bounds are enough for the questions asked.** Two threads are the
fewest that can swap answers, and three cells the fewest with which a freed cell
can be handed out again while another is in a pipe and a third in the listener.
A table of three slots has a hole below a used slot and a free one above it. Three
clients of the core are one that leaves, one that arrives and one in the table.
Two input buffers let one frame be at the encoder while the next is converted, and
with two output buffers the ports have one buffer more than the array has entries.
In the camera's runs one image buffer and a burst of one frame are enough for a late
frame to meet the next capture, since captures are not bounded in number; the
counter has eight values, so that one below zero is as far from a real count as
it is in a `size_t` (`CameraAssumption`). One queued message (`MaxMsgs`) lets a
stale one meet a new capture while the handler still works. Of three preview
buffers one is shown, one is filled and one is on its way.
Symmetry is used only in runs that check invariants, over threads with the same
functions and over addresses, which the code never orders.

**Deadlock** is checked in most runs. It is not in `rpc_shared`, because of two
threads in one function only one gets the error packet and the other stays
blocked, nor in `encoder_pool`, where lost indices end with a blocked
`EmptyThisBuffer`. Both are behaviours of the code. In the camera's control runs
two inversions of the lock order really stop the threads, which is what
`OnlyKnownCycles` is about, and a failed assertion ends the process; in `frames`
the session ends with `stopPreview`.

**Fairness.** Threads that can take a step do (weak fairness on the stubs, the
listener and the steps of a begun call): the code creates ordinary threads and
blocks only in `select`, `read` and on mutexes. The listener's successful select
and read are strongly fair: a system call may fail now and then, not every
time. The remote answers each request unless it dies, and returns the buffers
it was given; this is the contract of the firmware. Nothing makes a client call,
free or tear down, nor the remote die. `EtbReturns` needs nothing of the encoder.
The camera's threads are strongly fair as wholes: each of them waits for mutexes
that others release and take again, and the pthread mutexes of Android do not
starve a waiter for ever. In `frames` Ducati fills what it is given and the
encoder releases what it holds, which are their contracts; the HAL's thread is
strongly fair because it waits for `mSubscriberLock`, which the callback thread
takes with every frame. The application is never obliged to call.

**Properties that hold up to a failure.** Some failures do damage that later steps
build on (Part 6), and a property that is false after one may still say something
worth checking before it, in the same run. `NothingLeaks` and
`SpotHoldsOwnMemory` are stated for `nFaults = 0`. In `EncoderPool` the history
variable `past` records which failures have happened and whether the port was
enabled again; `FramesIntact` asks that it be empty, `PoolComplete` and
`EtbReturns` only that no index was lost (`IndicesLost`), so they do cover failed
allocations, conversions and submissions; the call that overruns `gralloc_handle`
has no outcome. In `OmxCore` the history variable
`lost` holds the slots that a failed `dlsym`, `malloc` or `SetCallbacks`
leaves occupied for good, which `SlotsAccounted` sets apart. In `CameraControl` `gaveUp` records a rollback that
stopped short, which `PreviewHasBuffers` excepts; `CaptureEnds` and `CallsReturn`
except the deadlocks (`Deadlocked`), and `CaptureEnds` also a wrapped counter and
lost buffers (`FramesMissing`), all of which the runs reach. In
`FrameDistribution` all properties but the types hold until the session goes
`astray`. All other properties hold through every failure. Where a property
excepts a hazard, `PROJECT.json` does not name it as covering that hazard.

`FramesIntact` deserves its conditions spelled out. It holds because the pool has
as many buffers as both ports, so an index comes round again only after as many
frames as there are input buffers, by when the encoder has returned the frame.
It needs in-order returns and no failure: a failed conversion or submission moves
the pipe on without the encoder.

## 5. Proofs

All theorems hold for arbitrary constants, under the named assumptions of the
modules: any number of threads, packets, slots, clients, buffers. Every invariant
that a passing run checks is also a theorem, and so is `AlongTable`. Each proof
module states one inductive invariant as a conjunction of named parts; the parts
were checked with TLC before they were proved, and there is one lemma per action
or group of actions, and one step per part that the action disturbs.

**`RpcChannelProofs`**

* **`TypeCorrect`** and **`PacketsOwned`**. `PacketOwnership` is not inductive
  alone. `OwnershipInv` adds the types with `PointersSet` (a pointer that is followed
  is set); `ErrorState` (without transient faults the only error is the one that
  ends the listener, so `EXIT` frees nothing that was posted); `PostedResult` (no
  heap packet in a pipe or stub says "hardware", so each stub frees it); and
  `NoBadIndex`.
* **`AnswersAreOwn`** (`OwnAnswer`). Answers are told apart by function index only, so
  the argument is a count. `Balance` says of every function that the answers due
  (requested, in `fd_omx` or at the listener's switch) and those in the pipe are
  together no more than the threads waiting; once the listener has written its own
  error packet it is the last one the pipe gets. `Tickets` says that no call
  has two answers under way. Hence a pipe is used up whenever nobody waits in its
  function, and a thread that is alone in it finds only its own answer
  (`Own`, within `AnswerInv`).
* **`NothingLeftBehind`** (`NothingLost`). When every thread is idle the same count
  leaves only error packets in the pipes; `CloseState` adds that the listener holds
  nothing when it has exited.

`PacketsOwned`, `AnswersAreOwn` and `NothingLeftBehind` assume
`TransientFaults = FALSE`; with transient faults ownership is false (Part 6). `NothingLeftBehind` also assumes that nobody calls `TUNNEL`, whose
stub frees the static error packet (Part 6).

**`RpcRefinementProofs`**

* **`StepsImplementService`**: every behaviour of `RpcChannel` starts as one of
  `RpcService` and every step of it is a step of `RpcService` or leaves it
  unchanged. It assumes `TransientFaults = FALSE` and `PrivateCalls` (no function
  is used by two threads). A call is answered, in the mapping of `RpcRefinement`,
  as soon as an answer to that very call is in `fd_omx`, at the listener, in the
  pipe or with the stub. `ServiceInv` is `AnswerInv` with the privacy of the
  functions (`PrivateInv`). From it follow that at most one answer is under way
  (`OneResult`, `GotResult`) and that an answer always finds its thread waiting in
  the right function (`DueToWaiting`). Then each action is shown to do its part:
  `SendPacket` invokes, `Answer` executes, `StubReturn` returns or fails, `LinkDies`
  dies (losing the answers that were still in `fd_omx`), and everything else, the
  listener's way from `read` to the pipe above all, goes unnoticed. The fairness of
  `RpcService` is the part of `ImplementsService` that stays with TLC.

**`ProxyBuffersProofs`** (`ProxyInv`)

* **`TableConsistent`** (`SlotTable`). A call on its way needs to know that its slot is
  still the first empty one when it is filled (`CallState`), which holds since
  nobody else fills slots while the call waits for the remote. The count goes
  through the cardinality of the occupied slots.
* **`HeadersAccounted`** (`HeadersOwned`). No header is in two slots, and where a
  call's header is at each stage (`HeadersInv`).
* **`DoneAlwaysFinds`** (`DoneFindsHeader`). `LinkInv` ties slots to remote buffers
  (`Linked`) and says that client, call and remote never have the same buffer at once
  (`Custody`) and that it is under way at most once (`QueueOnce`).
* **`MemoryStaysInSpot`** (`SpotHoldsOwnMemory`) and **`NoLeakWithoutFault`**
  (`NothingLeaks`). `MemInv`: the slot `PROXY_AllocateBuffer` put its memory in is
  the one `PROXY_UseBuffer` finds, because memory lies outside the used slots only
  where the call will look for it (`Spare`). `CountInv`: metadata buffers and
  registrations are as many as headers and slots remember. Both hold until the first
  fault, and their lower bounds after it, so that nothing is released twice.
* **`TypesCorrect`**.

**`OmxCoreProofs`**

* **`TableGuarded`** (`MutexGuards`) follows from counting: `CoreInv` says that
  `pCoreInitMutex` serialises init and de-init, that `count` is the number of clients
  with a reference but for the call changing it, that whoever is in the table has a
  reference, and that the mutex exists whenever there is one. Hence it is destroyed
  only when nobody is inside.
* **`HandlesKept`** (`HandlesInTable`), **`SlotsKept`** (`SlotsAccounted`) and
  **`TypesCorrect`**. `SlotsInv` on top of `CoreInv`: a call inside the mutex is
  alone, so each handle is in one slot (`OneSlot`), belongs to one client and is
  touched by no call (`HeldStored`), and a call's variables say what it has done to
  the table (`CallHolds`).

**`EncoderPoolProofs`**

* **`PoolIsPrefix`** (`PoolPrefix`) is inductive together with types; the reset of
  `nCurBufIndex` before a pool is made is harmless because it happens only when the
  first handle is missing, when the prefix is empty.
* **`PoolStaysComplete`** (`PoolComplete`): every index is in the pipe or with the call
  (`AllIndices`), and the pipe is as long as the pool says.
* **`FramesStayIntact`** (`FramesIntact`): the encoder's frames *trail* the pipe, that
  is, an index the encoder still reads is at most as far from the end of the pipe as its
  frame is from the newest one (`Trails`). The pipe has `nIn + nOut` indices and the
  encoder fewer than `nIn` frames whenever an index is taken, so the oldest index
  is read by nobody. This is the argument that makes early recycling safe.
* **`TypesCorrect`**, which says in particular that no index leaves `gralloc_handle`
  and that the array is overrun only when the ports have more buffers than it has
  entries (`OverrunKnown`): nothing is assumed about their numbers, since the loop at
  `omx_proxy_h264enc.c:821` checks nothing. The other theorems hold for such ports too.

**`CameraControlProofs`**

* **`TypesCorrect`**, **`NextStateInStep`**, **`RecordingFollowsState`** and
  **`StateAlongTable`**. The inductive invariant `Control` says who is where when a
  command is under way: the thread in `op` or `finish` is the owner of `mLock`
  (`Held`), and its command, the state and the next state form a row of the table
  (`OnWay`), with `mRecording` following the state except between the operation that
  changes it and the commit (`Recorded`). `RecordingInStep` then needs of the table
  only that the two video commands are the ones that enter and leave the recording
  states (`TableVideo`), checked row by row.
* **`PreviewKeepsBuffers`**. `Buffers` follows the application's thread through a start
  of the preview: the buffers are allocated before `CAMERA_USE_BUFFERS_PREVIEW`, and
  when a failed start frees them the state has not passed `LOADED_PREVIEW`, because no
  other thread has a command that leaves `INIT` or `LOADED_PREVIEW` (`TablePreview`,
  `Below`).
* **`FlagsStayTrue`** (`FlagsTrue`). `Flags` says at each place of the application's call
  which flag may lag behind the state (`Place`): only `forceStopPreview` and
  `stopRecording` run with a flag that is no longer true.
* **`DeadlocksKnown`** (`OnlyKnownCycles`). `Locking` says which thread may hold each
  lock, and where; `Switching` that `mStateSwitchLock` is left locked only in
  `LOADED_PREVIEW`, where neither `UseBuffersPreview` nor the `switchToLoaded` of
  `stopPreview` runs, until `startPreview`, a failed start's `stopPreview` or the abort
  after a failed `enableDisplay`. All locks but those of the two inversions are then
  taken in the order `mBurstLock`, `CameraHal`'s `mLock` (also in `restartPreview`,
  `setParameters` and `startRecording`), the adapter's `mLock`, the inner ones.
  `LockWait` and `NoFlushWait` settle what a thread of a cycle can wait for: the
  callback thread that `stopPreview` waits for is itself waiting only when it has
  `mZoomLock`, which is the second inversion; `NoInnerWait`, `NoStateWait`, `NoHalWait`
  and `NoBurstWait` take the rest of a cycle apart from the inside. `FaultTypes` covers
  the operations that fail half-way.

**`FrameDistributionProofs`** (`SessionInv`; all but the types for a session that has
not gone `astray`)

* **`CountsStayRight`** (`CountsAgree`) and **`BuffersConserved`** (`BufferConserved`).
  `Books` keeps for every buffer its counts together with its place: filled or on its
  way by one thread and held by nobody, or held. `AppState` and `VideoState` say
  which frames there can be at each step of starting and stopping a recording.
* **`DisplayStaysPaced`** (`DisplayPaced`): each message in the display's queue stands
  for a buffer that the window can spare.
* **`TypesCorrect`**.

**Only model-checked**: the liveness properties (`CallReturns`, `FatalReported`,
`TearDownCompletes`, `UpcallsRun`, `BuffersComeBack`, `EtbReturns`, `CaptureEnds`,
`CallsReturn` of both camera modules, `FramesFlow`) and the fairness part of
`ImplementsService`, since fairness and `ENABLED` are beyond the prover; and the
violation of Part 6, which is a counterexample.

## 6. Where the code departs from its comments

`camera_rollback` ends with TLC's counterexample. `rollbackToInitializedState` is
documented to roll "the state machine back to INTIALIZED_STATE from the current
state" (`inc/CameraHal.h:1009`). It reads the state, lets go of `mLock` and sends
the command that undoes what it read. When the last frame of a capture, or the
handler's focus, has moved the state meanwhile, the command is refused and the
rollback stops; and `LOADED_CAPTURE_STATE` has no command at all.
`forceStopPreview` ignores the result and frees the preview buffers, the camera goes
on filling them, and the next `startPreview` is refused.

The models show more behaviours that are worth knowing. No run is about them;
`PROJECT.json` lists them under `hazards`, and the properties above except them
explicitly where they would be false.

In the camera HAL:

* `OMXCapture.cpp:1115, 1130` and `1379`: a capture that starts while another thread
  stops it deadlocks, as `mImageCaptureLock` and `mLock` are taken in both orders; so
  do a burst's last frame and a new capture through `mBurstLock` (1239).
  `OMXZoom.cpp:189` and `291`: the same with `mZoomLock` and `mLock`; and
  `stopPreview`, with `mLock` held, waits in `flush()` (`OMXCameraAdapter.cpp:1362`) for
  the callback thread, which may be waiting for `mLock` in `advanceZoom`.
* `CameraHal.cpp:1853`: the FIXME says that after a failed `enableDisplay` the
  `mStateSwitchLock` stays locked and the next `startPreview` deadlocks, and the process
  is aborted instead. The model follows the abort. (The error path behind it would in
  fact unlock: its `CAMERA_STOP_PREVIEW` is sent in `LOADED_PREVIEW_STATE`, where
  `OMXCameraAdapter.cpp:2385` unlocks and returns.)
* `OMXCameraAdapter.cpp:3696`: `mCapturedFrames` is tested and decremented without a
  lock; a stop in between makes it wrap around. `OMXCameraAdapter.cpp:3478`: the
  buffer of a dropped image frame stays `DONE`, and a capture that finds no idle
  buffer never ends by itself.
* `CameraHal.cpp:2947`: `CAMERA_STOP_VIDEO` is refused during auto focus and
  `stopRecording` ignores it: the adapter goes on recording for nobody.
* `CameraHal.cpp:2945`: `stopRecording` unsubscribes the notifier before the adapter
  stops recording. A frame counted in between has no video subscriber; the error
  path returns it as a preview frame although the display has it. With
  `Follow = TRUE`, TLC shows the consequence within 25 steps: the display is told
  of more buffers than the window can spare, its thread blocks in
  `dequeue_buffer`, and `stopPreview` waits for it for ever. A video frame that is
  still queued when the next recording starts is counted against that one.
* `OMXCameraAdapter.cpp:3599`: the error of `advanceZoom` (`OMX_SetConfig` or an invalid
  component, `OMXZoom.cpp:125-172`) is added to that of `sendCallBacks`, and 3791-3798
  return the preview frame once more although it was delivered. With `Follow = TRUE`
  TLC shows the count below the number of holders and the buffer back at the camera
  while the window has it (6 steps each), a display message without a buffer (11)
  and `stopPreview` waiting for ever for the display thread (28).
* `OMXCameraAdapter.cpp:466`: `fillThisBuffer` may put a buffer on the preview port
  after `stopPreview` has flushed it, because the state changes only at the end.

In the DOMX stack:

* `omx_rpc_stub.c:1483`: `RPC_ComponentTunnelRequest` frees the answer whatever its
  result, hence the static error packet on a hardware error; `omx_rpc_stub.c:440`
  says it "gets freed in omx_rpc.c". (Let a thread of `RpcChannel` call
  `TUNNEL` and `ErrorPacket` leaves `live`.)
* `omx_rpc.c:455`: `eRPCError` and `pBuffer` survive from one message to the next:
  after one transient error the listener frees the answers it has posted. Hence
  `TransientFaults = FALSE` in `PacketsOwned`.
* `omx_proxy_common.c:806`: on a full table `PROXY_AllocateBuffer` stores into the slot
  behind the last before `PROXY_UseBuffer` refuses the buffer (995-997).
* `omx_proxy_h264enc.c:972`: disabling the input port frees the NV12 buffer with the
  highest index but reads the oldest one from the pipe, which then names freed
  buffers; line 968 speaks of clearing the pipe.
* `omx_rpc_stub.c:228`: a remote that dies between answering `RPC_GetHandle` and
  the stub's return is reported to nobody, since the listener finds no client.
  `FatalReported` therefore speaks of a client that was there (`hadClient`).
* `omx_proxy_common.c:995`: `nTotalBuffers` never decreases, so that a table that
  was full once refuses buffers although slots are free.
* `omx_proxy_common.c:816`: a failed `PROXY_AllocateBuffer` leaves the freed memory
  handle in its slot, where a later `PROXY_UseBuffer` takes it over.
* `omx_proxy_h264enc.c:821`: the pool gets as many buffers as both ports have, and
  `gralloc_handle` has eight entries; the ninth handle is written over `nCurBufIndex`.
* `omx_proxy_h264enc.c:878`: a failed `RPC_RegisterBuffer` loses an index of the
  pool; when all are lost `EmptyThisBuffer` waits for ever.

## 7. Not modelled

* Marshalling, parameters, configuration, versions, tracing and profiling: data.
* `RPC_InstanceInit` and the sharing of the error packet between instances;
  callbacks that call back into the stack; two client threads in one proxy;
  camera metadata in the encoder proxy. They are in the plan.
* Writes into a pipe that fail: in the listener (`omx_rpc.c:448`, after which `EXIT`
  frees the packet and the stub is never woken) and in the encoder proxy
  (`omx_proxy_h264enc.c:897, 1007`, which lose the index). The pipes have room for
  what circulates in them.
* A client that frees an OpenMAX handle again after its address was given to another
  client's component (`OMX_Core.c:381`): it would free that component.
* In the camera HAL: bracketing, raw capture, snapshot and measurement frames, a
  preview started before its window is set, closing the camera, waits for the
  shutter in high-quality mode, errors of the window and of `OMX_FillThisBuffer`,
  video frames the notifier has no metadata for (`AppCallbackNotifier.cpp:1185-1189`
  forgets them), frames released after `stopRecording` has cleared the notifier's map,
  parameters that restart nothing,
  the V4L adapter and the buffer sources; parameters, 3A, EXIF and JPEG are data.
* The OSAL and `libtiutils`: used as the FIFOs, mutexes and semaphores they are
  meant to be; `OsalPipe` is in the plan.
* The memory plugin beyond what was allocated and freed; ion, gralloc, rpmsg and
  the firmware are outside the repository and appear as external actions.
* Vendored code (`pvr-source`, `security`, `bltsville`) and thin wrappers
  (`libion`, `libpower`, `edid`, `hwc`).
