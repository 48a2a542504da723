----------------------------- MODULE RpcChannel -----------------------------
(***************************************************************************)
(* One RPC instance of the DOMX stack (omx_rpc.c, omx_rpc_stub.c,          *)
(* omx_rpc_skel.c): client threads that make synchronous calls through     *)
(* the stubs, the remote processor behind /dev/rpmsg-omx1, the listener    *)
(* thread RPC_CallbackThread that hands every answer to the message pipe   *)
(* of its function, and the tear-down of the instance.                     *)
(*                                                                         *)
(* A stub writes its request to fd_omx and blocks in ReadFromPipe on the   *)
(* pipe of its function index.  The listener allocates a packet for every  *)
(* message, and whoever holds the packet last must free it: the listener   *)
(* for callbacks and errors, the stub for answers.  A hardware error is    *)
(* answered with the one static packet pBufferError, which nobody frees.   *)
(*                                                                         *)
(* Function indices are renumbered: 0 is RPC_OMX_FXN_IDX_GET_HANDLE, the   *)
(* other indices below NFxns are calls, CALLBACK stands for the three      *)
(* upcalls (EVENTHANDLER, EMPTYBUFFERDONE, FILLBUFFERDONE) and BADIDX for  *)
(* an index not below RPC_OMX_FXN_IDX_MAX.                                 *)
(***************************************************************************)
EXTENDS Naturals, Sequences, FiniteSets

CONSTANTS
    Callers,          \* client threads that use the stubs
    NFxns,            \* number of function indices with a stub
    TUNNEL,           \* RPC_OMX_FXN_IDX_COMP_TUNNEL_REQUEST
    CallerFxns,       \* the functions each thread calls
    Packets,          \* heap cells for packets read by the listener
    NULL,             \* the null pointer
    ErrorPacket,      \* the address of the static array pBufferError
    TransientFaults,  \* do select, read, malloc and write fail now and then?
    MaxCalls,         \* bound: calls per thread
    MaxCallbacks      \* bound: upcalls sent by the remote processor

Fxns == 0 .. NFxns - 1
GET_HANDLE == 0
CALLBACK == NFxns
BADIDX == NFxns + 1

ASSUME FxnsAssumption ==
    /\ NFxns \in Nat \ {0}
    /\ TUNNEL \in Nat \ {0}
    /\ CallerFxns \in [Callers -> SUBSET Fxns]

ASSUME PacketsAssumption ==
    /\ NULL \notin Packets
    /\ ErrorPacket \notin Packets
    /\ NULL # ErrorPacket

ASSUME CallersAssumption == NULL \notin Callers /\ IsFiniteSet(Callers)

ASSUME BoundsAssumption ==
    /\ TransientFaults \in BOOLEAN
    /\ MaxCalls \in Nat
    /\ MaxCallbacks \in Nat

(***************************************************************************)
(* The contents of a packet: function index and result field.  To tell     *)
(* answers apart, which the code cannot, the model also records which call *)
(* of which thread a request is for and an answer answers (NULL and 0 for  *)
(* an upcall).                                                             *)
(***************************************************************************)
Results == {"none", "other", "hardware"}
Request == [idx : Fxns, to : Callers, call : 1 .. MaxCalls]
Message == [idx : 0 .. NFxns + 1, to : Callers \cup {NULL}, call : 0 .. MaxCalls,
            result : Results]

Unasked(idx, result) == [idx |-> idx, to |-> NULL, call |-> 0, result |-> result]

\* What a packet holds before read() has filled it; nobody looks at it.
BlankMessage == Unasked(CALLBACK, "none")

VARIABLES
    link,        \* the remote processor: "up", or "dead" (fd_omx gives ENXIO)
    requests,    \* the requests the remote has not answered yet
    inbox,       \* messages from the remote waiting in fd_omx
    pipe,        \* pMsgPipe: per function, the packets posted and not read
    live,        \* the packets allocated and not yet freed
    contents,    \* what is in every packet; freeing one leaves it as it is
    cbPc,        \* where the listener thread is
    pBuffer,     \* the listener's packet pointer
    eRPCError,   \* the listener's eRPCError, never reset by its loop
    nFxnIdx,     \* the listener's loop index while it reports a fatal error
    pc,          \* where each client thread is
    fxn,         \* the function index of the thread's current call
    pRetPacket,  \* the packet the thread took from the pipe
    outcome,     \* what the thread's last call returned
    pAppData,    \* has RPC_GetHandle stored the client's handle?
    inst,        \* RPC_InstanceDeInit: "open", "killing", "closed"
    reported,    \* has the client been told of the hardware error?
    calls,       \* calls begun by each thread
    nSent,       \* upcalls sent by the remote
    nRun,        \* upcalls run by the listener
    nBad,        \* messages with a bad index sent by the remote
    \* History, for the properties only:
    shared,      \* has another thread been in the same call's function?
    hadClient    \* had the client's handle been stored when the link died?

callerVars ==
    <<pc, fxn, pRetPacket, outcome, pAppData, calls, shared>>
upcalls == <<nSent, nRun, nBad>>
heap == <<live, contents>>
listenerVars == <<cbPc, pBuffer, eRPCError, nFxnIdx, reported>>
remoteVars == <<link, requests, hadClient>>
vars == <<callerVars, listenerVars, remoteVars, inbox, pipe, heap, inst, upcalls>>

Outcomes == {"pending", "none", "other", "hardware", "undefined"}

\* Types of the RPC context, of the listener's variables and of the stubs'.
TypeOK ==
    /\ link \in {"up", "dead"}
    /\ requests \in SUBSET Request
    /\ inbox \in Seq(Message)
    /\ pipe \in [Fxns -> Seq(Packets \cup {ErrorPacket})]
    /\ live \in SUBSET (Packets \cup {ErrorPacket})
    /\ contents \in [Packets \cup {ErrorPacket} -> Message]
    /\ cbPc \in {"select", "read", "fatal", "dispatch", "exit", "exited"}
    /\ pBuffer \in Packets \cup {NULL}
    /\ eRPCError \in {"none", "undefined", "hardware"}
    /\ nFxnIdx \in 0 .. NFxns
    /\ pc \in [Callers -> {"idle", "waiting", "got"}]
    /\ fxn \in [Callers -> Fxns]
    /\ pRetPacket \in [Callers -> Packets \cup {ErrorPacket, NULL}]
    /\ outcome \in [Callers -> Outcomes]
    /\ pAppData \in BOOLEAN
    /\ inst \in {"open", "killing", "closed"}
    /\ reported \in BOOLEAN
    /\ calls \in [Callers -> 0 .. MaxCalls]
    /\ nSent \in 0 .. MaxCallbacks /\ nRun \in Nat /\ nBad \in 0 .. MaxCallbacks
    /\ shared \in [Callers -> BOOLEAN]
    /\ hadClient \in BOOLEAN

\* A fully initialised instance, just after RPC_InstanceInit.
Init ==
    /\ link = "up"
    /\ requests = {}
    /\ inbox = <<>>
    /\ pipe = [f \in Fxns |-> <<>>]
    /\ live = {ErrorPacket}
    /\ contents = [p \in Packets \cup {ErrorPacket} |->
                     IF p = ErrorPacket
                     THEN Unasked(GET_HANDLE, "hardware")
                     ELSE BlankMessage]
    /\ cbPc = "select"
    /\ pBuffer = NULL
    /\ eRPCError = "none"
    /\ nFxnIdx = 0
    /\ pc = [c \in Callers |-> "idle"]
    /\ fxn = [c \in Callers |-> GET_HANDLE]
    /\ pRetPacket = [c \in Callers |-> NULL]
    /\ outcome = [c \in Callers |-> "none"]
    /\ pAppData = FALSE
    /\ inst = "open"
    /\ reported = FALSE
    /\ calls = [c \in Callers |-> 0]
    /\ nSent = 0 /\ nRun = 0 /\ nBad = 0
    /\ shared = [c \in Callers |-> FALSE]
    /\ hadClient = FALSE

-----------------------------------------------------------------------------
(***************************************************************************)
(* The client side: RPC_sendPacket_sync and the stubs around it.           *)
(***************************************************************************)
BeginCall(c, f) ==
    /\ inst = "open"
    /\ pc[c] = "idle"
    /\ f \in CallerFxns[c]
    /\ calls[c] < MaxCalls
    /\ fxn' = [fxn EXCEPT ![c] = f]
    /\ calls' = [calls EXCEPT ![c] = @ + 1]

\* write() succeeds: the thread goes on to block in TIMM_OSAL_ReadFromPipe.
SendPacket(c, f) ==
    /\ BeginCall(c, f)
    /\ link = "up"
    /\ requests' = requests \cup {[idx |-> f, to |-> c, call |-> calls[c] + 1]}
    /\ pc' = [pc EXCEPT ![c] = "waiting"]
    /\ outcome' = [outcome EXCEPT ![c] = "pending"]
    /\ shared' = [d \in Callers |->
                    IF d = c
                    THEN \E e \in Callers \ {c} : pc[e] # "idle" /\ fxn[e] = f
                    ELSE shared[d] \/ (pc[d] # "idle" /\ fxn[d] = f)]
    /\ UNCHANGED <<link, hadClient, inbox, pipe, heap, listenerVars, pRetPacket, pAppData,
                   inst, upcalls>>

\* write() fails: ENXIO on a dead link is a hardware error, the rest undefined.
SendPacketFails(c, f) ==
    /\ BeginCall(c, f)
    /\ \/ link = "dead" /\ outcome' = [outcome EXCEPT ![c] = "hardware"]
       \/ TransientFaults /\ outcome' = [outcome EXCEPT ![c] = "undefined"]
    /\ UNCHANGED <<remoteVars, inbox, pipe, heap, listenerVars, pc, pRetPacket,
                   pAppData, shared, inst, upcalls>>

\* The blocking TIMM_OSAL_ReadFromPipe returns the oldest packet of the pipe.
ReadFromPipe(c) ==
    /\ pc[c] = "waiting"
    /\ pipe[fxn[c]] # <<>>
    /\ pRetPacket' = [pRetPacket EXCEPT ![c] = Head(pipe[fxn[c]])]
    /\ pipe' = [pipe EXCEPT ![fxn[c]] = Tail(@)]
    /\ pc' = [pc EXCEPT ![c] = "got"]
    /\ UNCHANGED <<remoteVars, inbox, heap, listenerVars, fxn, outcome, pAppData,
                   shared, inst, calls, upcalls>>

\* Mutant: the packet of an answer is left to the listener.
StubFreesNothing(c, result) == FALSE

\* Does the stub free the packet it was given?
StubFrees(c, result) == result # "hardware" \/ fxn[c] = TUNNEL

\* The rest of the stub: copy the result, store the handle, free the packet.
StubReturn(c) ==
    /\ pc[c] = "got"
    /\ LET p == pRetPacket[c]
           r == contents[p].result
       IN  /\ outcome' = [outcome EXCEPT ![c] = r]
           /\ live' = IF StubFrees(c, r) THEN live \ {p} ELSE live
    /\ pAppData' = (pAppData \/ fxn[c] = GET_HANDLE)
    /\ pRetPacket' = [pRetPacket EXCEPT ![c] = NULL]
    /\ pc' = [pc EXCEPT ![c] = "idle"]
    /\ UNCHANGED <<remoteVars, inbox, pipe, contents, listenerVars, fxn,
                   shared, inst, calls, upcalls>>

-----------------------------------------------------------------------------
(***************************************************************************)
(* The remote processor and the rpmsg driver (external): it answers the    *)
(* requests in any order, sends upcalls, and may die for good.             *)
(***************************************************************************)
Answer(q, r) ==
    /\ link = "up"
    /\ q \in requests
    /\ requests' = requests \ {q}
    /\ inbox' = Append(inbox, [idx |-> q.idx, to |-> q.to, call |-> q.call, result |-> r])
    /\ UNCHANGED <<link, hadClient, pipe, heap, listenerVars, callerVars, inst,
                   upcalls>>

SendUpcall ==
    /\ link = "up"
    /\ nSent < MaxCallbacks
    /\ nSent' = nSent + 1
    /\ inbox' = Append(inbox, Unasked(CALLBACK, "none"))
    /\ UNCHANGED <<remoteVars, pipe, heap, listenerVars, callerVars, inst, nRun,
                   nBad>>

SendBadIndex ==
    /\ TransientFaults
    /\ link = "up"
    /\ nBad < MaxCallbacks
    /\ nBad' = nBad + 1
    /\ inbox' = Append(inbox, Unasked(BADIDX, "none"))
    /\ UNCHANGED <<remoteVars, pipe, heap, listenerVars, callerVars, inst, nSent,
                   nRun>>

\* The remote dies: what it had not delivered is lost, fd_omx gives ENXIO.
LinkDies ==
    /\ link = "up"
    /\ link' = "dead"
    /\ requests' = {}
    /\ inbox' = <<>>
    /\ hadClient' = pAppData
    /\ UNCHANGED <<pipe, heap, listenerVars, callerVars, inst, upcalls>>

-----------------------------------------------------------------------------
(***************************************************************************)
(* The listener, RPC_CallbackThread.                                       *)
(***************************************************************************)
\* Mutant: the kill event does not wake select().
KillSeenWithTraffic == inst = "killing" /\ (inbox # <<>> \/ link = "dead")

\* FD_ISSET(fd_killcb): the kill event is looked at before fd_omx.
KillSeen == inst = "killing"

CbKilled ==
    /\ cbPc = "select"
    /\ KillSeen
    /\ cbPc' = "exited"
    /\ UNCHANGED <<pBuffer, eRPCError, nFxnIdx, reported, remoteVars, inbox, pipe,
                   heap, callerVars, inst, upcalls>>

CbReadable ==
    /\ cbPc = "select"
    /\ inst = "open"
    /\ inbox # <<>> \/ link = "dead"
    /\ cbPc' = "read"
    /\ UNCHANGED <<pBuffer, eRPCError, nFxnIdx, reported, remoteVars, inbox, pipe,
                   heap, callerVars, inst, upcalls>>

CbSelectFails ==
    /\ TransientFaults
    /\ cbPc = "select"
    /\ cbPc' = "exit"
    /\ eRPCError' = "undefined"
    /\ UNCHANGED <<pBuffer, nFxnIdx, reported, remoteVars, inbox, pipe, heap,
                   callerVars, inst, upcalls>>

\* RPC_getPacket: any cell that is free.
GetPacket(p) == p \notin live /\ live' = live \cup {p} /\ pBuffer' = p

\* RPC_getPacket, then read() fills it with the next message.
CbRead ==
    /\ cbPc = "read"
    /\ link = "up"
    /\ inbox # <<>>
    /\ \E p \in Packets :
        /\ GetPacket(p)
        /\ contents' = [contents EXCEPT ![p] = Head(inbox)]
    /\ inbox' = Tail(inbox)
    /\ cbPc' = "dispatch"
    /\ UNCHANGED <<eRPCError, nFxnIdx, reported, remoteVars, pipe, callerVars,
                   inst, upcalls>>

\* read() gives ENXIO: the loop that answers every function starts.
CbReadFatal ==
    /\ cbPc = "read"
    /\ link = "dead"
    /\ \E p \in Packets : GetPacket(p)
    /\ nFxnIdx' = 0
    /\ cbPc' = "fatal"
    /\ UNCHANGED <<contents, eRPCError, reported, remoteVars, inbox, pipe, callerVars, inst,
                   upcalls>>

\* malloc or read() fails for another reason; the message stays in fd_omx.
CbReadFails ==
    /\ TransientFaults
    /\ cbPc = "read"
    /\ \/ pBuffer' = NULL /\ UNCHANGED live
       \/ \E p \in Packets : GetPacket(p)
    /\ eRPCError' = "undefined"
    /\ cbPc' = "exit"
    /\ UNCHANGED <<contents, nFxnIdx, reported, remoteVars, inbox, pipe, callerVars,
                   inst, upcalls>>

\* Mutants: the loop stops one function early, or runs one too far.
FatalLoopEndShort == NFxns - 1
FatalLoopEndLong == NFxns + 1

\* Where the loop over the pipes ends.
FatalLoopEnd == NFxns

\* One error packet for the pipe of every function, whoever waits there.
CbFatalWrite ==
    /\ cbPc = "fatal"
    /\ nFxnIdx < FatalLoopEnd
    /\ pipe' = [pipe EXCEPT ![nFxnIdx] = Append(@, ErrorPacket)]
    /\ nFxnIdx' = nFxnIdx + 1
    /\ UNCHANGED <<cbPc, pBuffer, eRPCError, reported, remoteVars, inbox, heap,
                   callerVars, inst, upcalls>>

CbFatalDone ==
    /\ cbPc = "fatal"
    /\ nFxnIdx = FatalLoopEnd
    /\ eRPCError' = "hardware"
    /\ cbPc' = "exit"
    /\ UNCHANGED <<pBuffer, nFxnIdx, reported, remoteVars, inbox, pipe, heap,
                   callerVars, inst, upcalls>>

\* The switch on the function index: an upcall runs in this thread.
CbUpcall ==
    /\ cbPc = "dispatch"
    /\ contents[pBuffer].idx = CALLBACK
    /\ nRun' = nRun + 1
    /\ live' = live \ {pBuffer}
    /\ pBuffer' = NULL
    /\ cbPc' = "exit"
    /\ UNCHANGED <<contents, eRPCError, nFxnIdx, reported, remoteVars, inbox, pipe,
                   callerVars, inst, nSent, nBad>>

\* An index not below RPC_OMX_FXN_IDX_MAX fails the assertion.
CbBadIndex ==
    /\ cbPc = "dispatch"
    /\ contents[pBuffer].idx = BADIDX
    /\ eRPCError' = "undefined"
    /\ cbPc' = "exit"
    /\ UNCHANGED <<pBuffer, nFxnIdx, reported, remoteVars, inbox, pipe, heap,
                   callerVars, inst, upcalls>>

\* Mutant: the answers of one function go to the pipe of the next.
PipeOfNext(m) == (m.idx + 1) % NFxns

\* The pipe an answer goes to.
PipeOf(m) == m.idx

\* An answer is posted to the pipe of its function; pBuffer keeps its value.
\* The pipe is a FIFO with room for it: that TIMM_OSAL_WriteToPipe fails, after
\* which EXIT frees the packet and nobody wakes the stub, is left out.
CbPost ==
    /\ cbPc = "dispatch"
    /\ contents[pBuffer].idx \in Fxns
    /\ LET m == contents[pBuffer]
       IN  IF m.result = "hardware"
           THEN /\ pipe' = [pipe EXCEPT ![PipeOf(m)] = Append(@, ErrorPacket)]
                /\ live' = live \ {pBuffer}
                /\ pBuffer' = NULL
           ELSE /\ pipe' = [pipe EXCEPT ![PipeOf(m)] = Append(@, pBuffer)]
                /\ UNCHANGED <<live, pBuffer>>
    /\ cbPc' = "exit"
    /\ UNCHANGED <<contents, eRPCError, nFxnIdx, reported, remoteVars, inbox,
                   callerVars, inst, upcalls>>

\* Mutant: every error ends the thread.
FatalErrors == {"undefined", "hardware"}

\* The errors that end the thread; after the others the loop goes on.
ExitErrors == {"hardware"}

\* Mutant: the error event is not sent.
NoReport == FALSE

\* proxyEventHandler(OMX_EventError, OMX_ErrorHardware), if there is a client.
ReportFatal == pAppData

\* The label EXIT, which the loop passes on every iteration.
CbExit ==
    /\ cbPc = "exit"
    /\ IF eRPCError = "none"
       THEN cbPc' = "select" /\ UNCHANGED <<pBuffer, live, reported>>
       ELSE /\ live' = live \ {pBuffer}
            /\ pBuffer' = NULL
            /\ IF eRPCError \in ExitErrors
               THEN reported' = ReportFatal /\ cbPc' = "exited"
               ELSE UNCHANGED reported /\ cbPc' = "select"
    /\ UNCHANGED <<contents, eRPCError, nFxnIdx, remoteVars, inbox, pipe, callerVars,
                   inst, upcalls>>

-----------------------------------------------------------------------------
(***************************************************************************)
(* RPC_InstanceDeInit.  The proxy calls it once no call is in flight.      *)
(***************************************************************************)
KillListener ==
    /\ inst = "open"
    /\ \A c \in Callers : pc[c] = "idle"
    /\ inst' = "killing"
    /\ UNCHANGED <<callerVars, listenerVars, remoteVars, inbox, pipe, heap, upcalls>>

\* pthread_join has returned: the pipes, fd_omx and the context go away.
CloseInstance ==
    /\ inst = "killing"
    /\ cbPc = "exited"
    /\ inst' = "closed"
    /\ pipe' = [f \in Fxns |-> <<>>]
    /\ UNCHANGED <<callerVars, listenerVars, remoteVars, inbox, heap, upcalls>>

\* A closed instance stays closed.
Closed == inst = "closed" /\ UNCHANGED vars

-----------------------------------------------------------------------------
CallerStep(c) == ReadFromPipe(c) \/ StubReturn(c)

Listener ==
    \/ CbKilled \/ CbReadable \/ CbSelectFails
    \/ CbRead \/ CbReadFatal \/ CbReadFails
    \/ CbFatalWrite \/ CbFatalDone
    \/ CbUpcall \/ CbBadIndex \/ CbPost
    \/ CbExit

Next ==
    \/ \E c \in Callers, f \in Fxns : SendPacket(c, f) \/ SendPacketFails(c, f)
    \/ \E c \in Callers : CallerStep(c)
    \/ \E q \in requests, r \in Results : Answer(q, r)
    \/ SendUpcall
    \/ SendBadIndex
    \/ LinkDies
    \/ Listener
    \/ KillListener
    \/ CloseInstance
    \/ Closed

Spec == Init /\ [][Next]_vars

(***************************************************************************)
(* Threads that can run do run, select and read do not fail for ever, and  *)
(* the remote answers every request unless it dies.  Nothing makes a       *)
(* client call or tear down.                                               *)
(***************************************************************************)
Fairness ==
    /\ \A c \in Callers : WF_vars(CallerStep(c))
    /\ \A c \in Callers :
        WF_vars(\E q \in requests, r \in Results : q.to = c /\ Answer(q, r))
    /\ WF_vars(Listener)
    /\ SF_vars(CbKilled)
    /\ SF_vars(CbReadable)
    /\ SF_vars(CbRead \/ CbReadFatal)
    /\ WF_vars(CloseInstance)

FairSpec == Spec /\ Fairness

-----------------------------------------------------------------------------
(***************************************************************************)
(* Properties                                                              *)
(***************************************************************************)
\* The pointers that are followed are not null.
PointersSet ==
    /\ cbPc \in {"fatal", "dispatch"} => pBuffer \in Packets
    /\ \A c \in Callers : pc[c] = "got" <=> pRetPacket[c] # NULL

\* Will the listener free pBuffer, or hand it on, before it reads again?
ListenerHolds(p) ==
    /\ pBuffer = p
    /\ \/ cbPc \in {"fatal", "dispatch"}
       \/ cbPc = "exit" /\ eRPCError # "none"

StubHolds(p) == \E c \in Callers : pRetPacket[c] = p

PipeHolds(p) == \E f \in Fxns : \E i \in DOMAIN pipe[f] : pipe[f][i] = p

\* No packet is freed while somebody will still use it, and none is forgotten.
HeldIsLive ==
    \A p \in Packets :
        ListenerHolds(p) \/ StubHolds(p) \/ PipeHolds(p) => p \in live

LiveIsHeld ==
    inst # "closed" =>
        \A p \in live \cap Packets : ListenerHolds(p) \/ StubHolds(p) \/ PipeHolds(p)

\* Every packet has one holder, so it is freed once.
OneHolder ==
    /\ \A p \in Packets : /\ ListenerHolds(p) => ~StubHolds(p) /\ ~PipeHolds(p)
                          /\ StubHolds(p) => ~PipeHolds(p)
    /\ \A c, d \in Callers :
        pRetPacket[c] \in Packets /\ pRetPacket[c] = pRetPacket[d] => c = d
    /\ \A f, g \in Fxns : \A i \in DOMAIN pipe[f], j \in DOMAIN pipe[g] :
        pipe[f][i] \in Packets /\ pipe[f][i] = pipe[g][j] => f = g /\ i = j

(***************************************************************************)
(* Between the listener and the stubs every packet of the listener has     *)
(* exactly one owner from its allocation to its release: no packet is      *)
(* freed twice, used after it is freed, or lost (omx_rpc.c, the posting    *)
(* and the label EXIT of RPC_CallbackThread, against the stubs' EXIT).     *)
(***************************************************************************)
PacketOwnership == HeldIsLive /\ LiveIsHeld /\ OneHolder

(***************************************************************************)
(* Tear-down finds the pipes empty of answers: RPC_InstanceDeInit deletes  *)
(* the pipes without draining them, so a packet left there would leak.     *)
(***************************************************************************)
NothingLost == inst = "closed" => live = {ErrorPacket}

(***************************************************************************)
(* A thread that was alone in its function gets the answer to this very    *)
(* call, although answers are told apart by function index only, come in   *)
(* any order, and error packets pile up in the pipes; the answers of       *)
(* earlier calls, its own or of threads it shared the function with, are   *)
(* used up.                                                                *)
(***************************************************************************)
OwnAnswer ==
    \A c \in Callers :
        /\ pc[c] = "got"
        /\ ~shared[c]
        /\ pRetPacket[c] # ErrorPacket
        => LET m == contents[pRetPacket[c]]
           IN  m.to = c /\ m.call = calls[c] /\ m.idx = fxn[c]

(***************************************************************************)
(* A call returns, also when the remote processor dies under it, unless a  *)
(* second thread is in the same function: the listener leaves one error    *)
(* packet per pipe, which the other thread may take.                       *)
(***************************************************************************)
CallReturns ==
    \A c \in Callers : pc[c] = "waiting" ~> (pc[c] # "waiting" \/ shared[c])

\* A client known when the remote dies is told so, unless it tears down first.
FatalReported == hadClient ~> (reported \/ inst # "open")

\* RPC_InstanceDeInit returns: the join does not wait for ever.
TearDownCompletes == inst = "killing" ~> inst = "closed"

(***************************************************************************)
(* Every upcall is run while the link is up and the instance open, also    *)
(* after select, read or malloc failed or a message had a bad index: the   *)
(* listener goes back to its loop.                                         *)
(***************************************************************************)
UpcallsRun ==
    \A n \in 1 .. MaxCallbacks :
        nSent = n ~> (nRun >= n \/ link = "dead" \/ inst # "open")

=============================================================================
