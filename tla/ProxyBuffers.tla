---------------------------- MODULE ProxyBuffers ----------------------------
(***************************************************************************)
(* The buffer table of an OMX proxy component (omx_proxy_common.c):        *)
(* PROXY_AllocateBuffer, UseBuffer, FreeBuffer, EmptyThisBuffer /          *)
(* FillThisBuffer and ComponentDeInit on the client's thread, against      *)
(* PROXY_EmptyBufferDone / FillBufferDone on the RPC listener's thread.    *)
(*                                                                         *)
(* The client makes one call at a time.  Between a request and its answer  *)
(* the remote component and the listener go on; answers and upcalls share  *)
(* one queue, as they share fd_omx.                                        *)
(*                                                                         *)
(* Slot MAX stands for the memory behind the array tBufList.               *)
(***************************************************************************)
EXTENDS Naturals, Sequences, FiniteSets

CONSTANTS
    MAX,        \* MAX_NUM_PROXY_BUFFERS
    Headers,    \* addresses of local buffer headers
    Remotes,    \* addresses of the remote component's buffer headers
    Memory,     \* handles of the memory plugin for buffer memory
    NULL,
    MetaData,   \* what bIsMetaDataEnabledOnPort may be
    MaxFaults   \* bound: calls that fail in the middle

ASSUME MaxAssumption == MAX \in Nat \ {0}
ASSUME NullAssumption ==
    NULL \notin Headers /\ NULL \notin Remotes /\ NULL \notin Memory
ASSUME FaultsAssumption == MetaData \subseteq BOOLEAN /\ MaxFaults \in Nat

Slots == 0 .. MAX

VARIABLES
    pBufHeader, pBufHeaderRemote,   \* tBufList: the two headers of a slot,
    handle0,                        \*   bufferAccessors[0].pBufferHandle,
    handle2,                        \*   is bufferAccessors[2] set (metadata)?
    reg,                            \*   is pRegBufferHandle set?
    nTotalBuffers, nAllocatedBuffers,
    pc, slot, hdr, newbuf, res,     \* the client's call and its local variables
    hdrs,        \* headers allocated on the heap
    hdrMeta,     \* of those, the ones with a pMetaDataBuffer
    open,        \* buffer memory the memory plugin has not been told to free
    nMeta, nReg, \* metadata buffers, and registrations, that exist
    remoteBufs,  \* buffer headers of the remote component
    remoteOwned, \* the buffers it is working on
    call,        \* the RPC call: "none", "sent", "executed", "answered"
    inbox,       \* answers and upcalls on their way
    clientHas,   \* the headers the client may use
    life,        \* "running", "deinit" (the table is gone), "gone"
    nFaults,     \* calls that failed in the middle so far
    \* History, for the properties only:
    localOf,     \* the header each remote buffer was made for
    memOf        \* the memory AllocateBuffer got for a header

table == <<pBufHeader, pBufHeaderRemote, nTotalBuffers, nAllocatedBuffers>>
accessors == <<handle0, handle2, reg>>
resources == <<hdrs, hdrMeta, open, nMeta, nReg>>
remoteVars == <<remoteBufs, remoteOwned, call, inbox>>
history == <<localOf, memOf>>
vars == <<table, accessors, pc, slot, hdr, newbuf, res, resources, remoteVars,
          clientHas, life, nFaults, history>>

\* The stages of a call; "x..." is at the remote, "got..." back from it.
Stages == {"idle", "enter", "param", "xuse", "gotuse", "xgive", "gotgive",
           "xfree", "gotfree"}

Messages == [kind : {"answer", "done"}, buf : Remotes \cup {NULL}]

\* Types of PROXY_COMPONENT_PRIVATE's table, its resources and the call's variables.
TypeOK ==
    /\ pBufHeader \in [Slots -> Headers \cup {NULL}]
    /\ pBufHeaderRemote \in [Slots -> Remotes \cup {NULL}]
    /\ handle0 \in [Slots -> Memory \cup {NULL}]
    /\ handle2 \in [Slots -> BOOLEAN] /\ reg \in [Slots -> BOOLEAN]
    /\ nTotalBuffers \in 0 .. MAX /\ nAllocatedBuffers \in 0 .. MAX
    /\ pc \in Stages
    /\ slot \in Slots
    /\ hdr \in Headers \cup {NULL}
    /\ newbuf \in Memory \cup {NULL}
    /\ res \in Remotes \cup {NULL}
    /\ hdrs \subseteq Headers /\ hdrMeta \subseteq hdrs
    /\ open \subseteq Memory
    /\ nMeta \in Nat /\ nReg \in Nat
    /\ remoteOwned \subseteq remoteBufs /\ remoteBufs \subseteq Remotes
    /\ call \in {"none", "sent", "executed", "answered"}
    /\ inbox \in Seq(Messages)
    /\ clientHas \subseteq Headers
    /\ life \in {"running", "deinit", "gone"}
    /\ nFaults \in 0 .. MaxFaults
    /\ localOf \in [Remotes -> Headers \cup {NULL}]
    /\ memOf \in [Headers -> Memory \cup {NULL}]

\* OMX_ProxyCommonInit has set up an empty table.
Init ==
    /\ pBufHeader = [s \in Slots |-> NULL]
    /\ pBufHeaderRemote = [s \in Slots |-> NULL]
    /\ handle0 = [s \in Slots |-> NULL]
    /\ handle2 = [s \in Slots |-> FALSE]
    /\ reg = [s \in Slots |-> FALSE]
    /\ nTotalBuffers = 0 /\ nAllocatedBuffers = 0
    /\ pc = "idle"
    /\ slot = 0
    /\ hdr = NULL /\ newbuf = NULL /\ res = NULL
    /\ hdrs = {} /\ hdrMeta = {} /\ open = {}
    /\ nMeta = 0 /\ nReg = 0
    /\ remoteBufs = {} /\ remoteOwned = {}
    /\ call = "none"
    /\ inbox = <<>>
    /\ clientHas = {}
    /\ life = "running"
    /\ nFaults = 0
    /\ localOf = [r \in Remotes |-> NULL]
    /\ memOf = [h \in Headers |-> NULL]

-----------------------------------------------------------------------------
(***************************************************************************)
(* The loops over the table.                                               *)
(***************************************************************************)
InTable == 0 .. nTotalBuffers - 1

Empty == {s \in InTable : pBufHeader[s] = NULL}

\* Mutant: the number of buffers taken for the index of a free slot.
NextByCount(s) == s = nAllocatedBuffers

\* "Pick up 1st empty slot", or the one after the last.
FirstEmpty(s) ==
    IF Empty = {} THEN s = nTotalBuffers
    ELSE s \in Empty /\ \A e \in Empty : s <= e

\* The slot of a local header.
Find(h, s) == s \in InTable /\ pBufHeader[s] = h
              /\ \A e \in InTable : pBufHeader[e] = h => s <= e

\* The slot of a remote header.
FindRemote(r, s) == s \in InTable /\ pBufHeaderRemote[s] = r
                    /\ \A e \in InTable : pBufHeaderRemote[e] = r => s <= e

-----------------------------------------------------------------------------
\* A call goes wrong in the middle.
Fault == nFaults < MaxFaults /\ nFaults' = nFaults + 1

\* A stub sends its request and waits.
Send(stage) == pc' = stage /\ call' = "sent"

(***************************************************************************)
(* PROXY_AllocateBuffer: the memory goes into the slot at once, then       *)
(* PROXY_UseBuffer does the rest.  Nothing compares the slot with MAX.     *)
(***************************************************************************)
AllocateBuffer ==
    /\ life = "running" /\ pc = "idle"
    /\ \E s \in Slots, m \in Memory \ open :
        /\ FirstEmpty(s)
        /\ handle0' = [handle0 EXCEPT ![s] = m]
        /\ open' = open \cup {m}
        /\ newbuf' = m
    /\ pc' = "enter"
    /\ UNCHANGED <<table, handle2, reg, slot, hdr, res, hdrs, hdrMeta, nMeta, nReg,
                   remoteVars, clientHas, life, nFaults, history>>

(***************************************************************************)
(* PROXY_UseBuffer, by itself or from PROXY_AllocateBuffer.                *)
(***************************************************************************)
UseStarts == life = "running" /\ pc \in {"idle", "enter"}

\* Mutant: the error exit forgets the header.
UseExitsKeepsHeader ==
    /\ open' = open \ {newbuf}
    /\ newbuf' = NULL
    /\ hdr' = NULL
    /\ pc' = "idle"
    /\ UNCHANGED <<hdrs, hdrMeta>>

\* Its error exit; PROXY_AllocateBuffer then frees the memory, not the slot.
UseExits ==
    /\ open' = open \ {newbuf}
    /\ newbuf' = NULL
    /\ hdrs' = hdrs \ {hdr}
    /\ hdrMeta' = hdrMeta \ {hdr}
    /\ hdr' = NULL
    /\ pc' = "idle"

\* The condition of "Proxy cannot handle more than MAX buffers".
TableFull == nTotalBuffers >= MAX

UseRefused ==
    /\ UseStarts
    /\ TableFull
    /\ UseExits
    /\ UNCHANGED <<table, accessors, slot, res, nMeta, nReg, remoteVars, clientHas,
                   life, nFaults, history>>

UseBuffer ==
    /\ UseStarts
    /\ ~TableFull
    /\ \E s \in Slots, h \in Headers \ hdrs :
        /\ FirstEmpty(s)
        /\ slot' = s
        /\ hdr' = h
        /\ hdrs' = hdrs \cup {h}
    /\ pc' = "param"
    /\ UNCHANGED <<table, accessors, newbuf, res, hdrMeta, open, nMeta, nReg,
                   remoteVars, clientHas, life, nFaults, history>>

\* Metadata memory, when the port has it, and the registrations go into the slot.
SetAccessors(meta, registered) ==
    /\ handle2' = [handle2 EXCEPT ![slot] = @ \/ meta]
    /\ nMeta' = nMeta + (IF meta THEN 1 ELSE 0)
    /\ reg' = [reg EXCEPT ![slot] = @ \/ registered]
    /\ nReg' = nReg + (IF registered THEN 1 ELSE 0)

UsePrepare ==
    /\ pc = "param"
    /\ \E meta \in MetaData :
        /\ SetAccessors(meta, TRUE)
        /\ hdrMeta' = IF meta THEN hdrMeta \cup {hdr} ELSE hdrMeta
    /\ Send("xuse")
    /\ UNCHANGED <<table, handle0, slot, hdr, newbuf, res, hdrs, open,
                   remoteBufs, remoteOwned, inbox, clientHas, life, nFaults, history>>

\* PROXY_GetParameter, the metadata allocation or a registration fails.
UsePrepareFails ==
    /\ Fault
    /\ pc = "param"
    /\ \E meta \in MetaData \cup {FALSE}, registered \in BOOLEAN :
          SetAccessors(meta, registered)
    /\ UseExits
    /\ UNCHANGED <<table, handle0, slot, res, remoteVars, clientHas, life, history>>

\* Mutant: the high-water mark is not raised.
TotalKept == nTotalBuffers

\* nTotalBuffers is the most there ever were at once.
TotalAfterUse ==
    IF nTotalBuffers < nAllocatedBuffers + 1 THEN nAllocatedBuffers + 1
    ELSE nTotalBuffers

\* RPC_UseBuffer succeeded: the headers are stored and handed out.
UseStore ==
    /\ pc = "gotuse"
    /\ res # NULL
    /\ pBufHeader' = [pBufHeader EXCEPT ![slot] = hdr]
    /\ pBufHeaderRemote' = [pBufHeaderRemote EXCEPT ![slot] = res]
    /\ nAllocatedBuffers' = nAllocatedBuffers + 1
    /\ nTotalBuffers' = TotalAfterUse
    /\ clientHas' = clientHas \cup {hdr}
    /\ memOf' = [memOf EXCEPT ![hdr] = newbuf]
    /\ hdr' = NULL /\ newbuf' = NULL /\ res' = NULL
    /\ pc' = "idle"
    /\ UNCHANGED <<accessors, slot, resources, remoteVars, life, nFaults, localOf>>

UseFails ==
    /\ pc = "gotuse"
    /\ res = NULL
    /\ UseExits
    /\ UNCHANGED <<table, accessors, slot, res, nMeta, nReg, remoteVars, clientHas,
                   life, nFaults, history>>

-----------------------------------------------------------------------------
\* PROXY_EmptyThisBuffer and PROXY_FillThisBuffer.
GiveBuffer(h) ==
    /\ life = "running" /\ pc = "idle"
    /\ h \in clientHas
    /\ \E s \in Slots : Find(h, s) /\ slot' = s
    /\ hdr' = h
    /\ clientHas' = clientHas \ {h}
    /\ Send("xgive")
    /\ UNCHANGED <<table, accessors, newbuf, res, resources, remoteBufs, remoteOwned,
                   inbox, life, nFaults, history>>

\* The call returns; with an error the buffer has stayed with the client.
GiveReturns ==
    /\ pc = "gotgive"
    /\ clientHas' = IF res = NULL THEN clientHas \cup {hdr} ELSE clientHas
    /\ hdr' = NULL /\ res' = NULL
    /\ pc' = "idle"
    /\ UNCHANGED <<table, accessors, slot, newbuf, resources, remoteVars, life, nFaults,
                   history>>

\* PROXY_FreeBuffer, up to RPC_FreeBuffer.
FreeBuffer(h) ==
    /\ life = "running" /\ pc = "idle"
    /\ h \in clientHas
    /\ \E s \in Slots : Find(h, s) /\ slot' = s
    /\ hdr' = h
    /\ clientHas' = clientHas \ {h}
    /\ Send("xfree")
    /\ UNCHANGED <<table, accessors, newbuf, res, resources, remoteBufs, remoteOwned,
                   inbox, life, nFaults, history>>

\* Mutant: the memset leaves the memory handle.
ClearKeepsMemory(s) ==
    /\ pBufHeader' = [pBufHeader EXCEPT ![s] = NULL]
    /\ pBufHeaderRemote' = [pBufHeaderRemote EXCEPT ![s] = NULL]
    /\ handle2' = [handle2 EXCEPT ![s] = FALSE]
    /\ reg' = [reg EXCEPT ![s] = FALSE]
    /\ UNCHANGED handle0

\* TIMM_OSAL_Memset of the slot.
ClearSlot(s) ==
    /\ pBufHeader' = [pBufHeader EXCEPT ![s] = NULL]
    /\ pBufHeaderRemote' = [pBufHeaderRemote EXCEPT ![s] = NULL]
    /\ handle0' = [handle0 EXCEPT ![s] = NULL]
    /\ handle2' = [handle2 EXCEPT ![s] = FALSE]
    /\ reg' = [reg EXCEPT ![s] = FALSE]

\* Mutants: the registration is forgotten, or undone for each of two planes.
UnregisterNothing(s) == 0

UnregisterTwice(s) == IF reg[s] THEN 2 ELSE 0

\* RPC_UnRegisterBuffer, if there is a registration.
Unregister(s) == IF reg[s] THEN 1 ELSE 0

\* Whatever RPC_FreeBuffer answered, everything of the slot is released.
FreeFinish ==
    /\ pc = "gotfree"
    /\ open' = open \ {handle0[slot]}
    /\ nMeta' = nMeta - (IF hdr \in hdrMeta THEN 1 ELSE 0)
    /\ nReg' = nReg - Unregister(slot)
    /\ hdrs' = hdrs \ {hdr}
    /\ hdrMeta' = hdrMeta \ {hdr}
    /\ ClearSlot(slot)
    /\ nAllocatedBuffers' = nAllocatedBuffers - 1
    /\ hdr' = NULL /\ res' = NULL
    /\ pc' = "idle"
    /\ UNCHANGED <<nTotalBuffers, slot, newbuf, remoteVars, clientHas, life, nFaults,
                   history>>

-----------------------------------------------------------------------------
(***************************************************************************)
(* The remote component (external): it executes the call, may return       *)
(* buffers before and after it answers, and answers through the queue.     *)
(***************************************************************************)
Execute(stage) == pc = stage /\ call = "sent" /\ call' = "executed"

RemoteUses ==
    /\ Execute("xuse")
    /\ \/ \E r \in Remotes \ remoteBufs :
            /\ remoteBufs' = remoteBufs \cup {r}
            /\ localOf' = [localOf EXCEPT ![r] = hdr]
            /\ res' = r /\ UNCHANGED nFaults
       \/ Fault /\ res' = NULL /\ UNCHANGED <<remoteBufs, localOf>>
    /\ UNCHANGED <<table, accessors, pc, slot, hdr, newbuf, resources, remoteOwned,
                   inbox, clientHas, life, memOf>>

RemoteTakes ==
    /\ Execute("xgive")
    /\ \/ /\ remoteOwned' = remoteOwned \cup {pBufHeaderRemote[slot]}
          /\ res' = pBufHeaderRemote[slot] /\ UNCHANGED nFaults
       \/ Fault /\ res' = NULL /\ UNCHANGED remoteOwned
    /\ UNCHANGED <<table, accessors, pc, slot, hdr, newbuf, resources, remoteBufs,
                   inbox, clientHas, life, history>>

RemoteFrees ==
    /\ Execute("xfree")
    /\ remoteBufs' = remoteBufs \ {pBufHeaderRemote[slot]}
    /\ UNCHANGED <<table, accessors, pc, slot, hdr, newbuf, res, resources, remoteOwned,
                   inbox, clientHas, life, nFaults, history>>

RemoteAnswers ==
    /\ call = "executed"
    /\ call' = "answered"
    /\ inbox' = Append(inbox, [kind |-> "answer", buf |-> NULL])
    /\ UNCHANGED <<table, accessors, pc, slot, hdr, newbuf, res, resources, remoteBufs,
                   remoteOwned, clientHas, life, nFaults, history>>

RemoteDone(r) ==
    /\ life # "gone"
    /\ r \in remoteOwned
    /\ remoteOwned' = remoteOwned \ {r}
    /\ inbox' = Append(inbox, [kind |-> "done", buf |-> r])
    /\ UNCHANGED <<table, accessors, pc, slot, hdr, newbuf, res, resources, remoteBufs,
                   call, clientHas, life, nFaults, history>>

-----------------------------------------------------------------------------
(***************************************************************************)
(* The listener's thread.                                                  *)
(***************************************************************************)
Receive(kind) ==
    /\ life # "gone"
    /\ inbox # <<>>
    /\ Head(inbox).kind = kind
    /\ inbox' = Tail(inbox)

Woken == {<<"xuse", "gotuse">>, <<"xgive", "gotgive">>, <<"xfree", "gotfree">>}

\* An answer wakes the client (RpcChannel has the details).
ListenerAnswer ==
    /\ Receive("answer")
    /\ call' = "none"
    /\ \E w \in Woken : pc = w[1] /\ pc' = w[2]
    /\ UNCHANGED <<table, accessors, slot, hdr, newbuf, res, resources, remoteBufs,
                   remoteOwned, clientHas, life, nFaults, history>>

\* Mutant: the callback is not called.
HandBackNothing(s) == {}

\* tCBFunc.EmptyBufferDone / FillBufferDone with the header of the slot.
HandBack(s) == {pBufHeader[s]}

\* PROXY_EmptyBufferDone and PROXY_FillBufferDone hand the header back.
BufferDone ==
    /\ Receive("done")
    /\ \E s \in Slots : /\ FindRemote(Head(inbox).buf, s)
                        /\ clientHas' = clientHas \cup HandBack(s)
    /\ UNCHANGED <<table, accessors, pc, slot, hdr, newbuf, res, resources, remoteBufs,
                   remoteOwned, call, life, nFaults, history>>

\* "Received invalid-buffer header from OMX component": an error event.
BufferDoneUnknown ==
    /\ Receive("done")
    /\ \A s \in InTable : pBufHeaderRemote[s] # Head(inbox).buf
    /\ UNCHANGED <<table, accessors, pc, slot, hdr, newbuf, res, resources, remoteBufs,
                   remoteOwned, call, clientHas, life, nFaults, history>>

-----------------------------------------------------------------------------
(***************************************************************************)
(* PROXY_ComponentDeInit releases what is left in the table; the listener  *)
(* runs until RPC_InstanceDeInit has joined it.                            *)
(***************************************************************************)
Occupied == {s \in InTable : pBufHeader[s] # NULL}

ComponentDeInit ==
    /\ life = "running" /\ pc = "idle"
    /\ open' = open \ {handle0[s] : s \in Occupied}
    /\ nMeta' = nMeta - Cardinality({s \in Occupied : pBufHeader[s] \in hdrMeta})
    /\ nReg' = nReg - Cardinality({s \in Occupied : reg[s]})
    /\ hdrs' = hdrs \ {pBufHeader[s] : s \in Occupied}
    /\ hdrMeta' = hdrMeta \ {pBufHeader[s] : s \in Occupied}
    /\ pBufHeader' = [s \in Slots |-> IF s \in Occupied THEN NULL ELSE pBufHeader[s]]
    /\ pBufHeaderRemote' =
         [s \in Slots |-> IF s \in Occupied THEN NULL ELSE pBufHeaderRemote[s]]
    /\ handle0' = [s \in Slots |-> IF s \in Occupied THEN NULL ELSE handle0[s]]
    /\ handle2' = [s \in Slots |-> s \notin Occupied /\ handle2[s]]
    /\ reg' = [s \in Slots |-> s \notin Occupied /\ reg[s]]
    /\ clientHas' = {}
    /\ life' = "deinit"
    /\ UNCHANGED <<nTotalBuffers, nAllocatedBuffers, pc, slot, hdr, newbuf, res,
                   remoteVars, nFaults, history>>

InstanceDeInit ==
    /\ life = "deinit"
    /\ life' = "gone"
    /\ UNCHANGED <<table, accessors, pc, slot, hdr, newbuf, res, resources, remoteVars,
                   clientHas, nFaults, history>>

Gone == life = "gone" /\ UNCHANGED vars

Next ==
    \/ AllocateBuffer
    \/ UseRefused \/ UseBuffer
    \/ UsePrepare \/ UsePrepareFails
    \/ UseStore \/ UseFails
    \/ \E h \in Headers : GiveBuffer(h) \/ FreeBuffer(h)
    \/ GiveReturns \/ FreeFinish
    \/ RemoteUses \/ RemoteTakes \/ RemoteFrees \/ RemoteAnswers
    \/ \E r \in Remotes : RemoteDone(r)
    \/ ListenerAnswer \/ BufferDone \/ BufferDoneUnknown
    \/ ComponentDeInit \/ InstanceDeInit
    \/ Gone

Spec == Init /\ [][Next]_vars

(***************************************************************************)
(* A call that was begun goes on, the listener runs, and the remote        *)
(* executes, answers and returns buffers.  The client need do nothing.     *)
(***************************************************************************)
Fairness ==
    /\ WF_vars(UseRefused \/ UseBuffer \/ UsePrepare)
    /\ WF_vars(UseStore \/ UseFails \/ GiveReturns \/ FreeFinish)
    /\ WF_vars(RemoteUses \/ RemoteTakes \/ RemoteFrees)
    /\ WF_vars(RemoteAnswers)
    /\ \A r \in Remotes : WF_vars(RemoteDone(r))
    /\ WF_vars(ListenerAnswer \/ BufferDone \/ BufferDoneUnknown)

FairSpec == Spec /\ Fairness

-----------------------------------------------------------------------------
(***************************************************************************)
(* Properties                                                              *)
(***************************************************************************)
(***************************************************************************)
(* The two counters and the slots agree: whatever the order of allocations *)
(* and frees, every buffer is below nTotalBuffers, where the loops look,   *)
(* and nTotalBuffers stays within the array (PROXY_UseBuffer and           *)
(* PROXY_FreeBuffer).                                                      *)
(***************************************************************************)
SlotTable ==
    /\ \A s \in Slots : pBufHeader[s] # NULL => s < nTotalBuffers
    /\ life = "running" => nAllocatedBuffers = Cardinality(Occupied)
    /\ nAllocatedBuffers <= nTotalBuffers
    /\ nTotalBuffers <= MAX

(***************************************************************************)
(* While the component is up, a buffer the remote returns is found, at the *)
(* first match, under the header it was made for: PROXY_FillBufferDone     *)
(* never meets a cleared slot or an old remote address.                    *)
(***************************************************************************)
DoneFindsHeader ==
    life = "running" =>
        \A i \in DOMAIN inbox : inbox[i].kind = "done" =>
            \E s \in Slots : /\ FindRemote(inbox[i].buf, s)
                            /\ pBufHeader[s] = localOf[inbox[i].buf]
                            /\ pBufHeader[s] \in hdrs

(***************************************************************************)
(* The headers on the heap are the ones in the table and the one a call is *)
(* working on, also after calls that failed half-way.                      *)
(***************************************************************************)
HeadersOwned ==
    hdrs = {pBufHeader[s] : s \in Occupied} \cup ({hdr} \ {NULL})

(***************************************************************************)
(* Between calls, what was obtained for buffers is what the table records: *)
(* nothing leaks when no call fails half-way.                              *)
(***************************************************************************)
NothingLeaks ==
    pc = "idle" /\ nFaults = 0 =>
        /\ open = {handle0[s] : s \in Occupied} \ {NULL}
        /\ nMeta = Cardinality({s \in Occupied : handle2[s]})
        /\ nReg = Cardinality({s \in Occupied : reg[s]})

(***************************************************************************)
(* The memory in a slot belongs to the header in the slot, until a call    *)
(* fails half-way: PROXY_AllocateBuffer and the PROXY_UseBuffer it calls   *)
(* pick the same slot, and PROXY_FreeBuffer frees what was allocated.      *)
(***************************************************************************)
SpotHoldsOwnMemory ==
    nFaults = 0 => \A s \in Occupied : handle0[s] = memOf[pBufHeader[s]]

\* The remote, or a call on its way to or from it, has the buffer of h.
GivenAway(h) == h \notin clientHas /\ \E s \in Occupied : pBufHeader[s] = h

(***************************************************************************)
(* Every buffer given to the remote with EmptyThisBuffer or FillThisBuffer *)
(* comes back to the client, or is freed, or the component is torn down,   *)
(* whatever the listener has to do in between.                             *)
(***************************************************************************)
BuffersComeBack ==
    \A h \in Headers : GivenAway(h) ~> (~GivenAway(h) \/ life # "running")

=============================================================================
