------------------------------- MODULE OmxCore -------------------------------
(***************************************************************************)
(* The OMX core (OMX_Core.c): OMX_Init and OMX_Deinit count the clients    *)
(* under pCoreInitMutex and create and destroy the mutex that guards the   *)
(* component table of OMX_GetHandle and OMX_FreeHandle.                    *)
(*                                                                         *)
(* A client is a thread with one OMX_Init: it gets and frees handles only  *)
(* after its OMX_Init and before its OMX_Deinit.                           *)
(***************************************************************************)
EXTENDS Integers, FiniteSets

CONSTANTS
    Clients,
    MAXCOMP,    \* entries of pModules and pComponents
    Handles,    \* addresses of component handles
    Failures,   \* where OMX_GetHandle may fail, a subset of FailurePoints
    NULL

FailurePoints == {"dlopen", "dlsym", "malloc", "init", "callbacks"}

ASSUME ClientsAssumption == IsFiniteSet(Clients) /\ NULL \notin Clients
ASSUME CompAssumption == MAXCOMP \in Nat \ {0} /\ NULL \notin Handles
ASSUME FailuresAssumption == Failures \subseteq FailurePoints

Slots == 0 .. MAXCOMP - 1

VARIABLES
    count,           \* clients
    initHolder,      \* who holds pCoreInitMutex
    mutex,           \* is the mutex initialised?
    holder,          \* who holds it
    pModules,        \* is there a library in the slot?
    pComponents,     \* the handle in the slot
    pc, slot, handle, \* of each client: its call and the call's variables
    ref,             \* may it use the core: between OMX_Init and OMX_Deinit?
    held,            \* the handles it was given
    \* History, for the properties only:
    lost             \* slots left behind by a dlsym, malloc or SetCallbacks

core == <<pModules, pComponents>>
locals == <<slot, handle>>
vars == <<count, initHolder, mutex, holder, core, pc, locals, ref, held, lost>>

\* The stages in which a call believes to hold the mutex.
Inside == {"get", "opened", "made", "free", "deiniting", "counted"}

Stages == Inside \cup {"idle", "init", "build", "deinit", "dlock", "destroy", "release"}

\* Types of the core's globals; count never leaves the number of its clients.
TypeOK ==
    /\ count \in 0 .. Cardinality(Clients)
    /\ initHolder \in Clients \cup {NULL} /\ holder \in Clients \cup {NULL}
    /\ mutex \in BOOLEAN
    /\ pModules \in [Slots -> BOOLEAN]
    /\ pComponents \in [Slots -> Handles \cup {NULL}]
    /\ pc \in [Clients -> Stages]
    /\ slot \in [Clients -> Slots]
    /\ handle \in [Clients -> Handles \cup {NULL}]
    /\ ref \in [Clients -> BOOLEAN]
    /\ held \in [Clients -> SUBSET Handles]
    /\ lost \subseteq Slots

\* The library is loaded; Core_Setup has created pCoreInitMutex.
Init ==
    /\ count = 0
    /\ initHolder = NULL
    /\ mutex = FALSE /\ holder = NULL
    /\ pModules = [s \in Slots |-> FALSE]
    /\ pComponents = [s \in Slots |-> NULL]
    /\ pc = [c \in Clients |-> "idle"]
    /\ slot = [c \in Clients |-> 0]
    /\ handle = [c \in Clients |-> NULL]
    /\ ref = [c \in Clients |-> FALSE]
    /\ held = [c \in Clients |-> {}]
    /\ lost = {}

-----------------------------------------------------------------------------
At(c, stage) == pc[c] = stage

Goto(c, stage) == pc' = [pc EXCEPT ![c] = stage]

ObtainInit(c) == initHolder = NULL /\ initHolder' = c

\* pthread_mutex_lock fails on a mutex that is not there; the code goes on.
LockMutex(c) ==
    \/ mutex /\ holder = NULL /\ holder' = c
    \/ ~mutex /\ UNCHANGED holder

UnlockMutex(c) == holder' = IF holder = c THEN NULL ELSE holder

-----------------------------------------------------------------------------
(***************************************************************************)
(* OMX_Init                                                                *)
(***************************************************************************)
InitObtain(c) ==
    /\ At(c, "idle") /\ ~ref[c]
    /\ ObtainInit(c)
    /\ Goto(c, "init")
    /\ UNCHANGED <<count, mutex, holder, core, locals, ref, held, lost>>

InitCount(c) ==
    /\ At(c, "init")
    /\ count' = count + 1
    /\ Goto(c, "build")
    /\ UNCHANGED <<initHolder, mutex, holder, core, locals, ref, held, lost>>

\* Mutant: every OMX_Init initialises the mutex.
FirstOrLater == TRUE

FirstInit == count = 1

\* The first client initialises the mutex, with whoever holds it forgotten.
InitBuild(c) ==
    /\ At(c, "build")
    /\ mutex' = (FirstInit \/ mutex)
    /\ holder' = IF FirstInit THEN NULL ELSE holder
    /\ initHolder' = NULL
    /\ ref' = [ref EXCEPT ![c] = TRUE]
    /\ Goto(c, "idle")
    /\ UNCHANGED <<count, core, locals, held, lost>>

-----------------------------------------------------------------------------
(***************************************************************************)
(* OMX_Deinit.  A client without a reference may call it too, when there   *)
(* is none at all.                                                         *)
(***************************************************************************)
DeinitObtain(c) ==
    /\ At(c, "idle")
    /\ ref[c] \/ count = 0
    /\ ObtainInit(c)
    /\ ref' = [ref EXCEPT ![c] = FALSE]
    /\ Goto(c, "deinit")
    /\ UNCHANGED <<count, mutex, holder, core, locals, held, lost>>

\* "OMX_Deinit being called without a corresponding OMX_Init"
DeinitNothing(c) ==
    /\ At(c, "deinit")
    /\ count = 0
    /\ Goto(c, "release")
    /\ UNCHANGED <<count, initHolder, mutex, holder, core, locals, ref, held, lost>>

\* Mutant: without the assertion.
DeinitCountAlways(c) ==
    /\ At(c, "deinit")
    /\ count' = count - 1
    /\ Goto(c, "dlock")
    /\ UNCHANGED <<initHolder, mutex, holder, core, locals, ref, held, lost>>

DeinitCount(c) ==
    /\ At(c, "deinit")
    /\ count > 0
    /\ count' = count - 1
    /\ Goto(c, "dlock")
    /\ UNCHANGED <<initHolder, mutex, holder, core, locals, ref, held, lost>>

DeinitLock(c) ==
    /\ At(c, "dlock")
    /\ LockMutex(c)
    /\ Goto(c, "counted")
    /\ UNCHANGED <<count, initHolder, mutex, core, locals, ref, held, lost>>

\* Mutant: one client left is taken for none.
LastOrSecondLast == count <= 1

LastDeinit == count = 0

DeinitUnlock(c) ==
    /\ At(c, "counted")
    /\ UnlockMutex(c)
    /\ Goto(c, IF LastDeinit THEN "destroy" ELSE "release")
    /\ UNCHANGED <<count, initHolder, mutex, core, locals, ref, held, lost>>

\* pthread_mutex_destroy refuses a mutex that is held.
DeinitDestroy(c) ==
    /\ At(c, "destroy")
    /\ mutex' = (mutex /\ holder # NULL)
    /\ Goto(c, "release")
    /\ UNCHANGED <<count, initHolder, holder, core, locals, ref, held, lost>>

DeinitRelease(c) ==
    /\ At(c, "release")
    /\ initHolder' = NULL
    /\ Goto(c, "idle")
    /\ UNCHANGED <<count, mutex, holder, core, locals, ref, held, lost>>

-----------------------------------------------------------------------------
(***************************************************************************)
(* OMX_GetHandle                                                           *)
(***************************************************************************)
GetLock(c) ==
    /\ At(c, "idle") /\ ref[c]
    /\ LockMutex(c)
    /\ Goto(c, "get")
    /\ UNCHANGED <<count, initHolder, mutex, core, locals, ref, held, lost>>

\* "Locate the first empty slot for a component."
FreeSlots == {s \in Slots : ~pModules[s]}

\* Mutant: no search.
AlwaysFirst(s) == s = 0

FirstFree(s) == s \in FreeSlots /\ \A f \in FreeSlots : s <= f

\* EXIT of OMX_GetHandle and OMX_FreeHandle.
Exit(c) == UnlockMutex(c) /\ Goto(c, "idle") /\ handle' = [handle EXCEPT ![c] = NULL]

\* No OMX_Init, no slot, or no library.
GetRefused(c) ==
    /\ At(c, "get")
    /\ count = 0 \/ FreeSlots = {} \/ "dlopen" \in Failures
    /\ Exit(c)
    /\ UNCHANGED <<count, initHolder, mutex, core, slot, ref, held, lost>>

GetOpen(c) ==
    /\ At(c, "get")
    /\ count > 0
    /\ \E s \in Slots : /\ FirstFree(s)
                        /\ pModules' = [pModules EXCEPT ![s] = TRUE]
                        /\ slot' = [slot EXCEPT ![c] = s]
    /\ Goto(c, "opened")
    /\ UNCHANGED <<count, initHolder, mutex, holder, pComponents, handle, ref, held, lost>>

\* dlsym or malloc fails: the library stays in its slot.
GetMakeFails(c) ==
    /\ At(c, "opened")
    /\ {"dlsym", "malloc"} \cap Failures # {}
    /\ Exit(c)
    /\ lost' = lost \cup {slot[c]}
    /\ UNCHANGED <<count, initHolder, mutex, core, slot, ref, held>>

\* The handles the heap has given out.
Allocated == {pComponents[s] : s \in Slots} \cup {handle[c] : c \in Clients}

GetMake(c) ==
    /\ At(c, "opened")
    /\ \E h \in Handles \ Allocated :
        /\ pComponents' = [pComponents EXCEPT ![slot[c]] = h]
        /\ handle' = [handle EXCEPT ![c] = h]
    /\ Goto(c, "made")
    /\ UNCHANGED <<count, initHolder, mutex, holder, pModules, slot, ref, held, lost>>

\* Mutant: the slot keeps the library.
ReleaseHandleOnly(s) ==
    /\ pComponents' = [pComponents EXCEPT ![s] = NULL]
    /\ UNCHANGED pModules

\* The component is unloaded and the slot is empty again.
ReleaseSlot(s) ==
    /\ pModules' = [pModules EXCEPT ![s] = FALSE]
    /\ pComponents' = [pComponents EXCEPT ![s] = NULL]

\* OMX_ComponentInit fails: the slot is released.
GetInitFails(c) ==
    /\ At(c, "made")
    /\ "init" \in Failures
    /\ ReleaseSlot(slot[c])
    /\ Exit(c)
    /\ UNCHANGED <<count, initHolder, mutex, slot, ref, held, lost>>

\* SetCallbacks fails: the slot, and the caller's *pHandle, stay.
GetCallbacksFail(c) ==
    /\ At(c, "made")
    /\ "callbacks" \in Failures
    /\ Exit(c)
    /\ lost' = lost \cup {slot[c]}
    /\ UNCHANGED <<count, initHolder, mutex, core, slot, ref, held>>

GetReturn(c) ==
    /\ At(c, "made")
    /\ held' = [held EXCEPT ![c] = @ \cup {handle[c]}]
    /\ Exit(c)
    /\ UNCHANGED <<count, initHolder, mutex, core, slot, ref, lost>>

-----------------------------------------------------------------------------
(***************************************************************************)
(* OMX_FreeHandle, of the client's handle or of one that is free already.  *)
(* A client that keeps a freed handle until malloc gives its address to    *)
(* another client's component is left out: it would free that one.         *)
(***************************************************************************)
FreeLock(c) ==
    /\ At(c, "idle") /\ ref[c]
    /\ \E h \in held[c] \cup (Handles \ Allocated) :
        /\ handle' = [handle EXCEPT ![c] = h]
        /\ held' = [held EXCEPT ![c] = @ \ {h}]
    /\ LockMutex(c)
    /\ Goto(c, "free")
    /\ UNCHANGED <<count, initHolder, mutex, core, slot, ref, lost>>

\* The handle's slot is found; ComponentDeInit runs.
FreeDeInit(c) ==
    /\ At(c, "free")
    /\ count > 0
    /\ \E s \in Slots : /\ pComponents[s] = handle[c]
                        /\ \A f \in Slots : pComponents[f] = handle[c] => s <= f
                        /\ slot' = [slot EXCEPT ![c] = s]
    /\ Goto(c, "deiniting")
    /\ UNCHANGED <<count, initHolder, mutex, holder, core, handle, ref, held, lost>>

\* No OMX_Init, or a handle that is not in the table.
FreeRefused(c) ==
    /\ At(c, "free")
    /\ count = 0 \/ \A s \in Slots : pComponents[s] # handle[c]
    /\ Exit(c)
    /\ UNCHANGED <<count, initHolder, mutex, core, slot, ref, held, lost>>

\* Whatever ComponentDeInit returned.
FreeReturn(c) ==
    /\ At(c, "deiniting")
    /\ ReleaseSlot(slot[c])
    /\ Exit(c)
    /\ UNCHANGED <<count, initHolder, mutex, slot, ref, held, lost>>

-----------------------------------------------------------------------------
Next == \E c \in Clients :
    \/ InitObtain(c) \/ InitCount(c) \/ InitBuild(c)
    \/ DeinitObtain(c) \/ DeinitNothing(c) \/ DeinitCount(c) \/ DeinitLock(c)
    \/ DeinitUnlock(c) \/ DeinitDestroy(c) \/ DeinitRelease(c)
    \/ GetLock(c) \/ GetRefused(c) \/ GetOpen(c) \/ GetMakeFails(c) \/ GetMake(c)
    \/ GetInitFails(c) \/ GetCallbacksFail(c) \/ GetReturn(c)
    \/ FreeLock(c) \/ FreeDeInit(c) \/ FreeRefused(c) \/ FreeReturn(c)

Spec == Init /\ [][Next]_vars

-----------------------------------------------------------------------------
(***************************************************************************)
(* Properties                                                              *)
(***************************************************************************)
(***************************************************************************)
(* Whoever is between the lock and the unlock of OMX_GetHandle,            *)
(* OMX_FreeHandle or OMX_Deinit really holds an initialised mutex, however *)
(* OMX_Init and OMX_Deinit of other clients destroy and re-create it.      *)
(***************************************************************************)
MutexGuards == \A c \in Clients : pc[c] \in Inside => mutex /\ holder = c

(***************************************************************************)
(* A handle a client has is in exactly one slot, with its library, and no  *)
(* other client has it: no free and no failed OMX_GetHandle takes it away. *)
(***************************************************************************)
HandlesInTable ==
    \A c \in Clients : \A h \in held[c] :
        /\ \A d \in Clients \ {c} : h \notin held[d]
        /\ \E s \in Slots : /\ pComponents[s] = h /\ pModules[s]
                            /\ \A t \in Slots \ {s} : pComponents[t] # h

(***************************************************************************)
(* A slot that is not free belongs to a client's handle or to a call at    *)
(* work on it, or it was lost when dlsym, malloc or SetCallbacks failed:   *)
(* no other failure and no order of calls uses up the table.               *)
(***************************************************************************)
SlotsAccounted ==
    \A s \in Slots \ (FreeSlots \cup lost) : \E c \in Clients :
        \/ pComponents[s] \in held[c]
        \/ slot[c] = s /\ pc[c] \in {"opened", "made", "deiniting"}
        \/ pc[c] = "free" /\ pComponents[s] = handle[c]

=============================================================================
