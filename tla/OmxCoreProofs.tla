--------------------------- MODULE OmxCoreProofs ---------------------------
(***************************************************************************)
(* Theorems about OmxCore, for any number of clients and slots.            *)
(***************************************************************************)
EXTENDS OmxCore, FiniteSetTheorems, TLAPS

USE ClientsAssumption

\* The clients with a reference, in the table, and with pCoreInitMutex.
Refs == {c \in Clients : ref[c]}

InTable == {c \in Clients : pc[c] \in {"get", "opened", "made", "free", "deiniting"}}

InitStages == {"init", "build", "deinit", "dlock", "counted", "destroy", "release"}

LockTypes ==
    /\ count \in Nat
    /\ pc \in [Clients -> Stages]
    /\ ref \in [Clients -> BOOLEAN]
    /\ holder \in Clients \cup {NULL} /\ initHolder \in Clients \cup {NULL}

\* pCoreInitMutex is held by the one call between its obtain and release.
InitExclusive ==
    \A c \in Clients : pc[c] \in InitStages => initHolder = c /\ c \notin Refs

\* count is the number of references, but for the call that is changing it.
CountsRefs ==
    /\ \A c \in Clients : pc[c] = "build" => count = Cardinality(Refs) + 1
    /\ \A c \in Clients : pc[c] = "deinit" =>
         \/ count = Cardinality(Refs) + 1
         \/ count = 0 /\ Refs = {}
    /\ (\A c \in Clients : pc[c] \notin {"build", "deinit"}) =>
         count = Cardinality(Refs)

\* The mutex is there as long as somebody counts on it.
MutexThere ==
    /\ Refs # {} => mutex
    /\ \A c \in Clients : pc[c] = "deinit" /\ count # 0 => mutex
    /\ \A c \in Clients : pc[c] \in {"dlock", "counted"} => mutex
    /\ \A c \in Clients : pc[c] = "destroy" => count = 0

CoreInv ==
    /\ LockTypes
    /\ InitExclusive
    /\ InTable \subseteq Refs
    /\ CountsRefs
    /\ MutexThere
    /\ MutexGuards

-----------------------------------------------------------------------------
\* References are finitely many.
LEMMA RefsFacts ==
    /\ IsFiniteSet(Refs)
    /\ Cardinality(Refs) \in Nat
    /\ Cardinality(Refs) = 0 <=> Refs = {}
  <1>1. Refs \in SUBSET Clients
    BY DEF Refs
  <1>2. IsFiniteSet(Refs)
    BY <1>1, FS_Subset
  <1>3. Cardinality(Refs) \in Nat
    BY <1>2, FS_CardinalityType
  <1>4. Cardinality(Refs) = 0 <=> Refs = {}
    BY <1>2, FS_EmptySet
  <1> QED
    BY <1>2, <1>3, <1>4

\* Nobody has a reference at the start.
LEMMA InitCore == Init => CoreInv
  <1> SUFFICES ASSUME Init PROVE CoreInv
    OBVIOUS
  <1>1. Refs = {}
    BY Zenon DEF Init, Refs
  <1>2. Cardinality(Refs) = 0
    BY <1>1, FS_EmptySet
  <1>3. \A c \in Clients : pc[c] = "idle"
    BY DEF Init
  <1>4. ref \in [Clients -> BOOLEAN]
    BY Zenon DEF Init
  <1>5. LockTypes
    BY <1>4 DEF Init, LockTypes, Stages
  <1>6. InTable = {}
    BY <1>3 DEF InTable
  <1>7. InitExclusive /\ MutexGuards
    BY <1>3 DEF InitExclusive, InitStages, MutexGuards, Inside
  <1>8. CountsRefs /\ MutexThere
    BY <1>1, <1>2, <1>3 DEF Init, CountsRefs, MutexThere
  <1> QED
    BY <1>5, <1>6, <1>7, <1>8 DEF CoreInv

\* With a call inside the mutex there is no other, and it cannot be locked.
LEMMA Alone ==
    ASSUME CoreInv, NEW c \in Clients, pc[c] \in Inside,
           NEW d \in Clients, pc[d] \in Inside
    PROVE  c = d
  BY DEF CoreInv, MutexGuards

\* Only the call that holds pCoreInitMutex is between obtain and release.
LEMMA OneInit ==
    ASSUME CoreInv, NEW c \in Clients, pc[c] \in InitStages
    PROVE  \A d \in Clients \ {c} : pc[d] \notin InitStages
  BY DEF CoreInv, InitExclusive

-----------------------------------------------------------------------------
(***************************************************************************)
(* OMX_Init and OMX_Deinit.                                                *)
(***************************************************************************)
LEMMA StageStep ==
    ASSUME NEW c \in Clients, NEW stage \in Stages, LockTypes, Goto(c, stage)
    PROVE  /\ pc' \in [Clients -> Stages]
           /\ pc'[c] = stage
           /\ \A d \in Clients \ {c} : pc'[d] = pc[d]
  BY DEF Goto, LockTypes

\* OMX_Init enters the init mutex.
LEMMA InitObtainCore ==
    ASSUME CoreInv, NEW c \in Clients, InitObtain(c)
    PROVE  CoreInv'
  <1>1. /\ pc[c] = "idle" /\ ~ref[c] /\ initHolder = NULL /\ initHolder' = c
        /\ UNCHANGED <<count, mutex, holder, ref>>
        /\ Goto(c, "init")
    BY DEF InitObtain, At, ObtainInit
  <1>2. /\ pc' \in [Clients -> Stages] /\ pc'[c] = "init"
        /\ \A d \in Clients \ {c} : pc'[d] = pc[d]
    BY <1>1, StageStep DEF CoreInv, Stages
  <1>3. Refs' = Refs /\ InTable' \subseteq InTable /\ c \notin Refs
    BY <1>1, <1>2 DEF Refs, InTable
  <1>4. \A d \in Clients : pc[d] \notin InitStages
    BY <1>1 DEF CoreInv, InitExclusive
  <1>5. LockTypes'
    BY <1>1, <1>2 DEF CoreInv, LockTypes
  <1>6. InitExclusive'
    BY <1>1, <1>2, <1>3, <1>4 DEF InitExclusive
  <1>7. CountsRefs'
    BY <1>1, <1>2, <1>3, <1>4 DEF CoreInv, CountsRefs, InitStages
  <1>8. MutexThere'
    BY <1>1, <1>2, <1>3 DEF CoreInv, MutexThere
  <1>9. MutexGuards'
    BY <1>1, <1>2 DEF CoreInv, MutexGuards, Inside
  <1> QED
    BY <1>3, <1>5, <1>6, <1>7, <1>8, <1>9 DEF CoreInv

\* OMX_Init counts its client.
LEMMA InitCountCore ==
    ASSUME CoreInv, NEW c \in Clients, InitCount(c)
    PROVE  CoreInv'
  <1>1. /\ pc[c] = "init" /\ count' = count + 1
        /\ UNCHANGED <<initHolder, mutex, holder, ref>>
        /\ Goto(c, "build")
    BY DEF InitCount, At
  <1>2. /\ pc' \in [Clients -> Stages] /\ pc'[c] = "build"
        /\ \A d \in Clients \ {c} : pc'[d] = pc[d]
    BY <1>1, StageStep DEF CoreInv, Stages
  <1>3. Refs' = Refs /\ InTable' \subseteq InTable
    BY <1>1, <1>2 DEF Refs, InTable
  <1>4. \A d \in Clients \ {c} : pc[d] \notin InitStages
    BY <1>1, OneInit DEF InitStages
  <1>5. LockTypes'
    BY <1>1, <1>2 DEF CoreInv, LockTypes
  <1>6. InitExclusive'
    BY <1>1, <1>2, <1>3 DEF CoreInv, InitExclusive, InitStages
  <1>7. CountsRefs'
    <2>1. count = Cardinality(Refs)
      BY <1>1, <1>4 DEF CoreInv, CountsRefs, InitStages
    <2> QED
      BY <1>1, <1>2, <1>3, <1>4, <2>1 DEF CountsRefs, InitStages
  <1>8. MutexThere'
    BY <1>1, <1>2, <1>3, <1>4 DEF CoreInv, MutexThere, InitStages
  <1>9. MutexGuards'
    BY <1>1, <1>2 DEF CoreInv, MutexGuards, Inside
  <1> QED
    BY <1>3, <1>5, <1>6, <1>7, <1>8, <1>9 DEF CoreInv

\* The first client finds nobody inside, so nobody loses the mutex.
LEMMA InitBuildCore ==
    ASSUME CoreInv, NEW c \in Clients, InitBuild(c)
    PROVE  CoreInv'
  <1>1. /\ pc[c] = "build" /\ initHolder' = NULL /\ initHolder = c
        /\ ref' = [ref EXCEPT ![c] = TRUE]
        /\ UNCHANGED count
        /\ Goto(c, "idle")
    BY DEF InitBuild, At, CoreInv, InitExclusive, InitStages
  <1>2. /\ pc' \in [Clients -> Stages] /\ pc'[c] = "idle"
        /\ \A d \in Clients \ {c} : pc'[d] = pc[d]
    BY <1>1, StageStep DEF CoreInv, Stages
  <1>3. Refs' = Refs \cup {c} /\ c \notin Refs
    <2>1. c \notin Refs
      BY <1>1 DEF CoreInv, InitExclusive, InitStages
    <2>2. ref' \in [Clients -> BOOLEAN] /\ ref'[c]
          /\ \A d \in Clients \ {c} : ref'[d] = ref[d]
      BY <1>1, Zenon DEF CoreInv, LockTypes
    <2> QED
      BY <2>1, <2>2 DEF Refs
  <1>4. /\ \A d \in Clients \ {c} : pc[d] \notin InitStages
        /\ InTable' = InTable
    <2>1. \A d \in Clients \ {c} : pc[d] \notin InitStages
      BY <1>1, OneInit DEF InitStages
    <2> QED
      BY <1>1, <1>2, <2>1 DEF InTable
  <1>5. count = Cardinality(Refs) + 1 /\ Cardinality(Refs') = Cardinality(Refs) + 1
    BY <1>1, <1>3, RefsFacts, FS_AddElement DEF CoreInv, CountsRefs
  <1>6. mutex' /\ holder' \in {holder, NULL}
    <2>1. CASE count = 1
      BY <2>1 DEF InitBuild, FirstInit
    <2>2. CASE count # 1
      <3>1. Refs # {}
        BY <2>2, <1>5, RefsFacts
      <3> QED
        BY <3>1, <2>2 DEF InitBuild, FirstInit, CoreInv, MutexThere
    <2> QED
      BY <2>1, <2>2
  <1>7. LockTypes'
    <2>1. ref' \in [Clients -> BOOLEAN]
      BY <1>1, Zenon DEF CoreInv, LockTypes
    <2> QED
      BY <1>1, <1>2, <1>6, <2>1 DEF CoreInv, LockTypes
  <1>8. InitExclusive'
    BY <1>2, <1>4 DEF InitExclusive, InitStages
  <1>9. CountsRefs'
    BY <1>1, <1>2, <1>4, <1>5 DEF CountsRefs, InitStages
  <1>10. MutexThere'
    BY <1>1, <1>2, <1>4, <1>6 DEF MutexThere, InitStages
  <1>11. MutexGuards'
    <2> SUFFICES ASSUME NEW d \in Clients, pc'[d] \in Inside PROVE holder' = d
      BY <1>6 DEF MutexGuards
    <2>1. d # c /\ pc[d] \in Inside /\ holder = d
      BY <1>2 DEF Inside, CoreInv, MutexGuards
    <2>2. d \in Refs
      BY <2>1, <1>4 DEF Inside, InitStages, InTable, CoreInv
    <2>3. count # 1
      BY <2>2, <1>5, RefsFacts
    <2> QED
      BY <2>1, <2>3 DEF InitBuild, FirstInit
  <1> QED
    BY <1>3, <1>4, <1>7, <1>8, <1>9, <1>10, <1>11 DEF CoreInv

\* OMX_Deinit enters the init mutex and gives up its reference.
LEMMA DeinitObtainCore ==
    ASSUME CoreInv, NEW c \in Clients, DeinitObtain(c)
    PROVE  CoreInv'
  <1>1. /\ pc[c] = "idle" /\ initHolder = NULL /\ initHolder' = c
        /\ ref' = [ref EXCEPT ![c] = FALSE] /\ (ref[c] \/ count = 0)
        /\ UNCHANGED <<count, mutex, holder>>
        /\ Goto(c, "deinit")
    BY DEF DeinitObtain, At, ObtainInit
  <1>2. /\ pc' \in [Clients -> Stages] /\ pc'[c] = "deinit"
        /\ \A d \in Clients \ {c} : pc'[d] = pc[d]
    BY <1>1, StageStep DEF CoreInv, Stages
  <1>3. Refs' = Refs \ {c}
    <2>1. /\ ref' \in [Clients -> BOOLEAN] /\ ~ref'[c]
          /\ \A d \in Clients \ {c} : ref'[d] = ref[d]
      BY <1>1, Zenon DEF CoreInv, LockTypes
    <2> QED
      BY <2>1 DEF Refs
  <1>4. /\ \A d \in Clients : pc[d] \notin InitStages
        /\ InTable' = InTable /\ c \notin InTable
    <2>1. \A d \in Clients : pc[d] \notin InitStages
      BY <1>1 DEF CoreInv, InitExclusive
    <2> QED
      BY <1>1, <1>2, <2>1 DEF InTable
  <1>5. count = Cardinality(Refs)
    BY <1>4 DEF CoreInv, CountsRefs, InitStages
  <1>6. \/ count = Cardinality(Refs') + 1 /\ Refs # {}
        \/ count = 0 /\ Refs' = {}
    <2>1. CASE ref[c]
      <3>1. c \in Refs
        BY <2>1 DEF Refs
      <3>2. Cardinality(Refs') = Cardinality(Refs) - 1
        BY <3>1, <1>3, RefsFacts, FS_RemoveElement
      <3> QED
        BY <3>1, <3>2, <1>5, RefsFacts
    <2>2. CASE count = 0
      BY <2>2, <1>3, <1>5, RefsFacts
    <2> QED
      BY <1>1, <2>1, <2>2
  <1>7. LockTypes'
    <2>1. ref' \in [Clients -> BOOLEAN]
      BY <1>1, Zenon DEF CoreInv, LockTypes
    <2> QED
      BY <1>1, <1>2, <2>1 DEF CoreInv, LockTypes
  <1>8. InitExclusive'
    BY <1>1, <1>2, <1>3, <1>4 DEF InitExclusive
  <1>9. CountsRefs'
    BY <1>1, <1>2, <1>4, <1>6 DEF CountsRefs, InitStages
  <1>10. MutexThere'
    BY <1>1, <1>2, <1>3, <1>4, <1>6 DEF CoreInv, MutexThere, InitStages
  <1>11. MutexGuards'
    BY <1>1, <1>2 DEF CoreInv, MutexGuards, Inside
  <1>12. InTable' \subseteq Refs'
    BY <1>3, <1>4 DEF CoreInv
  <1> QED
    BY <1>7, <1>8, <1>9, <1>10, <1>11, <1>12 DEF CoreInv

\* The rest of OMX_Deinit, up to the release.
LEMMA DeinitCore ==
    ASSUME CoreInv, NEW c \in Clients,
           DeinitNothing(c) \/ DeinitCount(c) \/ DeinitLock(c) \/ DeinitUnlock(c)
             \/ DeinitDestroy(c)
    PROVE  CoreInv'
  <1>1. /\ pc[c] \in InitStages \ {"build", "init"}
        /\ UNCHANGED <<initHolder, ref>>
    BY DEF DeinitNothing, DeinitCount, DeinitLock, DeinitUnlock, DeinitDestroy, At,
           InitStages
  <1>2. PICK stage \in {"dlock", "counted", "destroy", "release"} : Goto(c, stage)
    BY DEF DeinitNothing, DeinitCount, DeinitLock, DeinitUnlock, DeinitDestroy
  <1>3. /\ pc' \in [Clients -> Stages] /\ pc'[c] = stage
        /\ \A d \in Clients \ {c} : pc'[d] = pc[d]
    BY <1>2, StageStep DEF CoreInv, Stages, Inside
  <1>4. Refs' = Refs /\ InTable' = InTable /\ c \notin InTable
    BY <1>1, <1>2, <1>3 DEF Refs, InTable, InitStages
  <1>5. /\ \A d \in Clients \ {c} : pc[d] \notin InitStages
        /\ \A d \in Clients \ {c} : pc'[d] \notin InitStages
    BY <1>1, <1>3, OneInit
  <1>6. InitExclusive'
    BY <1>1, <1>3, <1>4, <1>5 DEF CoreInv, InitExclusive
  <1>7. InTable' \subseteq Refs'
    BY <1>4 DEF CoreInv
  <1>8. CASE DeinitNothing(c)
    <2>1. /\ pc[c] = "deinit" /\ count = 0 /\ pc'[c] = "release"
          /\ UNCHANGED <<count, mutex, holder>>
      BY <1>8, StageStep DEF DeinitNothing, At, CoreInv, Stages
    <2>2. Refs = {}
      BY <2>1, RefsFacts DEF CoreInv, CountsRefs
    <2>3. CountsRefs'
      BY <1>4, <1>5, <2>1, <2>2, RefsFacts DEF CountsRefs, InitStages
    <2>4. MutexThere'
      BY <1>4, <1>5, <2>1, <2>2 DEF MutexThere, InitStages
    <2>5. MutexGuards' /\ LockTypes'
      BY <1>1, <1>3, <2>1 DEF CoreInv, MutexGuards, LockTypes, Inside
    <2> QED
      BY <1>6, <1>7, <2>3, <2>4, <2>5 DEF CoreInv
  <1>9. CASE DeinitCount(c)
    <2>1. /\ pc[c] = "deinit" /\ count > 0 /\ pc'[c] = "dlock"
          /\ count' = count - 1
          /\ UNCHANGED <<mutex, holder>>
      BY <1>9, StageStep DEF DeinitCount, At, CoreInv, Stages
    <2>2. count = Cardinality(Refs) + 1 /\ mutex /\ count \in Nat
      BY <2>1 DEF CoreInv, CountsRefs, MutexThere, LockTypes
    <2>3. CountsRefs'
      BY <1>4, <1>5, <2>1, <2>2, RefsFacts DEF CountsRefs, InitStages
    <2>4. MutexThere'
      BY <1>4, <1>5, <2>1, <2>2 DEF MutexThere, InitStages
    <2>5. MutexGuards' /\ LockTypes'
      BY <1>1, <1>3, <2>1, <2>2 DEF CoreInv, MutexGuards, LockTypes, Inside
    <2> QED
      BY <1>6, <1>7, <2>3, <2>4, <2>5 DEF CoreInv
  <1>10. CASE DeinitLock(c)
    <2>1. /\ pc[c] = "dlock" /\ pc'[c] = "counted"
          /\ UNCHANGED <<count, mutex>>
      BY <1>10, StageStep DEF DeinitLock, At, CoreInv, Stages, Inside
    <2>2. mutex /\ holder = NULL /\ holder' = c
      BY <1>10, <2>1 DEF DeinitLock, LockMutex, CoreInv, MutexThere
    <2>3. CountsRefs'
      BY <1>4, <1>5, <2>1 DEF CoreInv, CountsRefs, InitStages
    <2>4. MutexThere'
      BY <1>4, <1>5, <2>1, <2>2 DEF MutexThere, InitStages
    <2>5. MutexGuards' /\ LockTypes'
      BY <1>1, <1>3, <2>1, <2>2 DEF CoreInv, MutexGuards, LockTypes, Inside
    <2> QED
      BY <1>6, <1>7, <2>3, <2>4, <2>5 DEF CoreInv
  <1>11. CASE DeinitUnlock(c)
    <2>1. /\ pc[c] = "counted" /\ UNCHANGED <<count, mutex>>
          /\ Goto(c, IF LastDeinit THEN "destroy" ELSE "release")
      BY <1>11 DEF DeinitUnlock, At
    <2>2. /\ pc'[c] \in {"destroy", "release"}
          /\ pc'[c] = "destroy" => count = 0
      <3>1. CASE LastDeinit
        BY <3>1, <2>1, StageStep DEF LastDeinit, CoreInv, Stages
      <3>2. CASE ~LastDeinit
        BY <3>2, <2>1, StageStep DEF CoreInv, Stages
      <3> QED
        BY <3>1, <3>2
    <2>3. holder = c /\ holder' = NULL
      BY <1>11, <2>1 DEF DeinitUnlock, UnlockMutex, CoreInv, MutexGuards, Inside
    <2>4. CountsRefs'
      BY <1>4, <1>5, <2>1, <2>2 DEF CoreInv, CountsRefs, InitStages
    <2>5. MutexThere'
      BY <1>4, <1>5, <2>1, <2>2 DEF CoreInv, MutexThere, InitStages
    <2>6. MutexGuards'
      BY <1>3, <2>2, <2>3 DEF CoreInv, MutexGuards, Inside
    <2>7. LockTypes'
      BY <1>1, <1>3, <2>1, <2>3 DEF CoreInv, LockTypes
    <2> QED
      BY <1>6, <1>7, <2>4, <2>5, <2>6, <2>7 DEF CoreInv
  <1>12. CASE DeinitDestroy(c)
    <2>1. /\ pc[c] = "destroy" /\ pc'[c] = "release"
          /\ UNCHANGED <<count, holder>>
      BY <1>12, StageStep DEF DeinitDestroy, At, CoreInv, Stages
    <2>2. count = 0
      BY <2>1 DEF CoreInv, MutexThere
    <2>3. count = Cardinality(Refs)
      BY <1>5, <2>1 DEF CoreInv, CountsRefs, InitStages
    <2>4. Refs = {}
      BY <2>2, <2>3, RefsFacts
    <2>5. \A d \in Clients : pc'[d] \notin Inside
      <3>1. \A d \in Clients : d \notin InTable'
        BY <1>4, <2>4 DEF CoreInv
      <3> QED
        BY <3>1, <1>5, <2>1 DEF Inside, InTable, InitStages
    <2>6. CountsRefs'
      BY <1>4, <1>5, <2>1, <2>3 DEF CountsRefs, InitStages
    <2>7. MutexThere'
      BY <1>4, <1>5, <2>1, <2>2, <2>4 DEF MutexThere, InitStages
    <2>8. MutexGuards' /\ LockTypes'
      BY <1>1, <1>3, <2>1, <2>5 DEF CoreInv, MutexGuards, LockTypes
    <2> QED
      BY <1>6, <1>7, <2>6, <2>7, <2>8 DEF CoreInv
  <1> QED
    BY <1>8, <1>9, <1>10, <1>11, <1>12

\* OMX_Deinit leaves the init mutex.
LEMMA DeinitReleaseCore ==
    ASSUME CoreInv, NEW c \in Clients, DeinitRelease(c)
    PROVE  CoreInv'
  <1>1. /\ pc[c] = "release" /\ initHolder' = NULL
        /\ UNCHANGED <<count, mutex, holder, ref>>
        /\ Goto(c, "idle")
    BY DEF DeinitRelease, At
  <1>2. /\ pc' \in [Clients -> Stages] /\ pc'[c] = "idle"
        /\ \A d \in Clients \ {c} : pc'[d] = pc[d]
    BY <1>1, StageStep DEF CoreInv, Stages
  <1>3. Refs' = Refs /\ InTable' = InTable
    BY <1>1, <1>2 DEF Refs, InTable
  <1>4. \A d \in Clients : pc'[d] \notin InitStages
    BY <1>1, <1>2, OneInit DEF InitStages
  <1>5. count = Cardinality(Refs)
    BY <1>1, <1>2, <1>4 DEF CoreInv, CountsRefs, InitStages
  <1>6. LockTypes' /\ InitExclusive'
    BY <1>1, <1>2, <1>4 DEF CoreInv, LockTypes, InitExclusive
  <1>7. CountsRefs'
    BY <1>1, <1>3, <1>4, <1>5 DEF CountsRefs, InitStages
  <1>8. MutexThere'
    BY <1>1, <1>3, <1>4 DEF CoreInv, MutexThere, InitStages
  <1>9. MutexGuards'
    BY <1>1, <1>2 DEF CoreInv, MutexGuards, Inside
  <1> QED
    BY <1>3, <1>6, <1>7, <1>8, <1>9 DEF CoreInv

-----------------------------------------------------------------------------
(***************************************************************************)
(* OMX_GetHandle and OMX_FreeHandle.  A step either locks, stays inside or *)
(* unlocks; the reference keeps the mutex there.                           *)
(***************************************************************************)
TableStages == {"get", "opened", "made", "free", "deiniting"}

\* A step in the table keeps the counts: its client has a reference.
LEMMA TableStepCore ==
    ASSUME CoreInv, NEW c \in Clients, NEW stage \in TableStages \cup {"idle"},
           Goto(c, stage), UNCHANGED <<count, initHolder, mutex, ref>>,
           \/ pc[c] = "idle" /\ ref[c] /\ LockMutex(c) /\ stage # "idle"
           \/ pc[c] \in TableStages /\ UNCHANGED holder /\ stage # "idle"
           \/ pc[c] \in TableStages /\ UnlockMutex(c) /\ stage = "idle"
    PROVE  CoreInv'
  <1>1. /\ pc' \in [Clients -> Stages] /\ pc'[c] = stage
        /\ \A d \in Clients \ {c} : pc'[d] = pc[d]
    BY StageStep DEF CoreInv, Stages, Inside, TableStages
  <1>2. Refs' = Refs /\ c \in Refs
    BY DEF Refs, CoreInv, InTable, TableStages
  <1>3. mutex
    BY <1>2 DEF CoreInv, MutexThere
  <1>4. /\ pc[c] \notin InitStages /\ pc'[c] \notin InitStages
    BY <1>1 DEF InitStages, TableStages
  <1>5. InitExclusive'
    BY <1>1, <1>2, <1>4 DEF CoreInv, InitExclusive
  <1>6. InTable' \subseteq Refs'
    BY <1>1, <1>2 DEF CoreInv, InTable
  <1>7. CountsRefs'
    BY <1>1, <1>2, <1>4 DEF CoreInv, CountsRefs, InitStages
  <1>8. MutexThere'
    BY <1>1, <1>2, <1>4 DEF CoreInv, MutexThere, InitStages
  <1>9. \/ pc[c] = "idle" /\ holder = NULL /\ holder' = c /\ stage # "idle"
        \/ pc[c] \in TableStages /\ holder = c /\ holder' = c /\ stage # "idle"
        \/ pc[c] \in TableStages /\ holder = c /\ holder' = NULL /\ stage = "idle"
    BY <1>3 DEF CoreInv, MutexGuards, Inside, TableStages, LockMutex, UnlockMutex
  <1>10. MutexGuards'
    BY <1>1, <1>3, <1>9 DEF CoreInv, MutexGuards, Inside, TableStages
  <1>11. LockTypes'
    BY <1>1, <1>9 DEF CoreInv, LockTypes
  <1> QED
    BY <1>5, <1>6, <1>7, <1>8, <1>10, <1>11 DEF CoreInv

\* Every step of OMX_GetHandle and OMX_FreeHandle is such a step.
LEMMA TableCore ==
    ASSUME CoreInv, NEW c \in Clients,
           \/ GetLock(c) \/ GetRefused(c) \/ GetOpen(c) \/ GetMakeFails(c) \/ GetMake(c)
           \/ GetInitFails(c) \/ GetCallbacksFail(c) \/ GetReturn(c)
           \/ FreeLock(c) \/ FreeDeInit(c) \/ FreeRefused(c) \/ FreeReturn(c)
    PROVE  CoreInv'
  <1>1. UNCHANGED <<count, initHolder, mutex, ref>>
    BY DEF GetLock, GetRefused, GetOpen, GetMakeFails, GetMake, GetInitFails,
           GetCallbacksFail, GetReturn, FreeLock, FreeDeInit, FreeRefused, FreeReturn
  <1>2. CASE GetLock(c) \/ FreeLock(c)
    <2>1. PICK stage \in {"get", "free"} : Goto(c, stage)
      BY <1>2 DEF GetLock, FreeLock
    <2>2. pc[c] = "idle" /\ ref[c] /\ LockMutex(c)
      BY <1>2 DEF GetLock, FreeLock, At
    <2> QED
      BY <1>1, <2>1, <2>2, TableStepCore DEF TableStages
  <1>3. CASE GetOpen(c) \/ GetMake(c) \/ FreeDeInit(c)
    <2>1. PICK stage \in {"opened", "made", "deiniting"} : Goto(c, stage)
      BY <1>3 DEF GetOpen, GetMake, FreeDeInit
    <2>2. pc[c] \in TableStages /\ UNCHANGED holder
      BY <1>3 DEF GetOpen, GetMake, FreeDeInit, At, TableStages
    <2> QED
      BY <1>1, <2>1, <2>2, TableStepCore DEF TableStages
  <1>4. CASE \/ GetRefused(c) \/ GetMakeFails(c) \/ GetInitFails(c) \/ GetCallbacksFail(c)
             \/ GetReturn(c) \/ FreeRefused(c) \/ FreeReturn(c)
    <2>1. pc[c] \in TableStages /\ UnlockMutex(c) /\ Goto(c, "idle")
      BY <1>4 DEF GetRefused, GetMakeFails, GetInitFails, GetCallbacksFail, GetReturn,
                  FreeRefused, FreeReturn, At, Exit, TableStages
    <2> QED
      BY <1>1, <2>1, TableStepCore
  <1> QED
    BY <1>2, <1>3, <1>4

-----------------------------------------------------------------------------
\* Every step keeps count, mutexes and references in line.
LEMMA NextCore == CoreInv /\ [Next]_vars => CoreInv'
  <1> SUFFICES ASSUME CoreInv, [Next]_vars PROVE CoreInv'
    OBVIOUS
  <1>1. CASE UNCHANGED vars
    <2>1. UNCHANGED <<count, initHolder, mutex, holder, pc, ref>>
      BY <1>1 DEF vars
    <2>2. UNCHANGED <<Refs, InTable>>
      BY <2>1 DEF Refs, InTable
    <2> QED
      BY <2>1, <2>2 DEF CoreInv, LockTypes, InitExclusive, CountsRefs, MutexThere,
                        MutexGuards
  <1>2. CASE Next
    <2>1. PICK c \in Clients :
            \/ InitObtain(c) \/ InitCount(c) \/ InitBuild(c)
            \/ DeinitObtain(c) \/ DeinitNothing(c) \/ DeinitCount(c) \/ DeinitLock(c)
            \/ DeinitUnlock(c) \/ DeinitDestroy(c) \/ DeinitRelease(c)
            \/ GetLock(c) \/ GetRefused(c) \/ GetOpen(c) \/ GetMakeFails(c) \/ GetMake(c)
            \/ GetInitFails(c) \/ GetCallbacksFail(c) \/ GetReturn(c)
            \/ FreeLock(c) \/ FreeDeInit(c) \/ FreeRefused(c) \/ FreeReturn(c)
      BY <1>2 DEF Next
    <2>2. CASE InitObtain(c) \/ InitCount(c) \/ InitBuild(c)
      BY <2>2, InitObtainCore, InitCountCore, InitBuildCore
    <2>3. CASE \/ DeinitObtain(c) \/ DeinitNothing(c) \/ DeinitCount(c) \/ DeinitLock(c)
               \/ DeinitUnlock(c) \/ DeinitDestroy(c) \/ DeinitRelease(c)
      BY <2>3, DeinitObtainCore, DeinitCore, DeinitReleaseCore
    <2>4. CASE \/ GetLock(c) \/ GetRefused(c) \/ GetOpen(c) \/ GetMakeFails(c)
               \/ GetMake(c) \/ GetInitFails(c) \/ GetCallbacksFail(c) \/ GetReturn(c)
               \/ FreeLock(c) \/ FreeDeInit(c) \/ FreeRefused(c) \/ FreeReturn(c)
      BY <2>4, TableCore
    <2> QED
      BY <2>1, <2>2, <2>3, <2>4
  <1> QED
    BY <1>1, <1>2

(***************************************************************************)
(* For any number of clients: while each uses the core only between its    *)
(* OMX_Init and its OMX_Deinit, the component table is never touched       *)
(* without the mutex, although OMX_Deinit destroys it and OMX_Init makes   *)
(* it anew.                                                                *)
(***************************************************************************)
THEOREM TableGuarded == Spec => []MutexGuards
  <1>1. Init => CoreInv
    BY InitCore
  <1>2. CoreInv /\ [Next]_vars => CoreInv'
    BY NextCore
  <1>3. CoreInv => MutexGuards
    BY DEF CoreInv
  <1> QED
    BY <1>1, <1>2, <1>3, PTL DEF Spec

-----------------------------------------------------------------------------
(***************************************************************************)
(* The component table.  A call inside the mutex is alone, so each slot    *)
(* and each handle belongs to one client, one call, or nobody.             *)
(***************************************************************************)
TableTypes ==
    /\ mutex \in BOOLEAN
    /\ pModules \in [Slots -> BOOLEAN]
    /\ pComponents \in [Slots -> Handles \cup {NULL}]
    /\ slot \in [Clients -> Slots]
    /\ handle \in [Clients -> Handles \cup {NULL}]
    /\ held \in [Clients -> SUBSET Handles]
    /\ lost \subseteq Slots

\* A handle is in one slot, together with its library.
OneSlot ==
    /\ \A s \in Slots : pComponents[s] # NULL => s \notin FreeSlots
    /\ \A s, t \in Slots :
         pComponents[s] = pComponents[t] /\ pComponents[s] # NULL => s = t

\* A client's handle is in the table, nobody else's, and no call works on it.
HeldStored ==
    \A c \in Clients : \A h \in held[c] :
        /\ \E s \in Slots : pComponents[s] = h
        /\ \A d \in Clients : handle[d] # h /\ (d # c => h \notin held[d])

\* What the variables of a call say of the table.
CallHolds ==
    \A c \in Clients :
        /\ pc[c] = "opened" => slot[c] \notin FreeSlots /\ pComponents[slot[c]] = NULL
        /\ pc[c] \in {"made", "deiniting"} => pComponents[slot[c]] = handle[c]
        /\ pc[c] \in {"made", "free", "deiniting"} <=> handle[c] # NULL

SlotsInv ==
    /\ TableTypes
    /\ OneSlot
    /\ HeldStored
    /\ CallHolds
    /\ SlotsAccounted

\* The table is empty at the start.
LEMMA InitSlots == Init => SlotsInv
  <1> SUFFICES ASSUME Init PROVE SlotsInv
    OBVIOUS
  <1>1. 0 \in Slots
    BY CompAssumption DEF Slots
  <1>2. pModules \in [Slots -> BOOLEAN] /\ FreeSlots = Slots
    BY Zenon DEF Init, FreeSlots
  <1>3. TableTypes
    BY <1>1, <1>2 DEF Init, TableTypes
  <1>4. OneSlot
    BY DEF Init, OneSlot
  <1>5. HeldStored
    BY DEF Init, HeldStored
  <1>6. CallHolds
    BY DEF Init, CallHolds
  <1>7. SlotsAccounted
    BY <1>2 DEF SlotsAccounted
  <1> QED
    BY <1>3, <1>4, <1>5, <1>6, <1>7 DEF SlotsInv

\* The stages of a call that has a slot or a handle.
Busy == {"opened", "made", "free", "deiniting"}

\* A call in the table is the only one, and the core has clients.
LEMMA BusyAlone ==
    ASSUME CoreInv, NEW c \in Clients, pc[c] \in Busy \cup {"get"}
    PROVE  /\ \A d \in Clients \ {c} : pc[d] \notin Busy
           /\ count # 0
  <1>1. \A d \in Clients \ {c} : pc[d] \notin Busy
    BY Alone DEF Busy, Inside
  <1>2. c \in Refs
    BY DEF CoreInv, InTable, Busy
  <1>3. Cardinality(Refs) # 0 /\ Cardinality(Refs) \in Nat
    BY <1>2, RefsFacts
  <1>4. count = Cardinality(Refs) \/ count = Cardinality(Refs) + 1
    BY <1>2 DEF CoreInv, CountsRefs
  <1> QED
    BY <1>1, <1>3, <1>4

\* Calls that touch neither a slot nor a handle.
LEMMA FrameSlots ==
    ASSUME CoreInv, SlotsInv, NEW c \in Clients, NEW stage \in Stages, Goto(c, stage),
           UNCHANGED <<core, slot, handle, held, lost>>, mutex' \in BOOLEAN,
           pc[c] \notin Busy, stage \notin Busy
    PROVE  SlotsInv'
  <1>1. /\ pc' \in [Clients -> Stages] /\ pc'[c] = stage
        /\ \A d \in Clients \ {c} : pc'[d] = pc[d]
    BY StageStep DEF CoreInv
  <1>2. /\ UNCHANGED <<pModules, pComponents, slot, handle, held, lost>>
        /\ FreeSlots' = FreeSlots
    BY DEF core, FreeSlots
  <1>3. TableTypes' /\ OneSlot' /\ HeldStored'
    BY <1>2 DEF SlotsInv, TableTypes, OneSlot, HeldStored
  <1>4. CallHolds'
    BY <1>1, <1>2 DEF SlotsInv, CallHolds, Busy
  <1>5. SlotsAccounted'
    BY <1>1, <1>2 DEF SlotsInv, SlotsAccounted, Busy
  <1> QED
    BY <1>3, <1>4, <1>5 DEF SlotsInv

\* OMX_Init, OMX_Deinit and the lock of the table change no slot.
LEMMA InitDeinitSlots ==
    ASSUME CoreInv, SlotsInv, NEW c \in Clients,
           \/ InitObtain(c) \/ InitCount(c) \/ InitBuild(c)
           \/ DeinitObtain(c) \/ DeinitNothing(c) \/ DeinitCount(c) \/ DeinitLock(c)
           \/ DeinitUnlock(c) \/ DeinitDestroy(c) \/ DeinitRelease(c)
           \/ GetLock(c)
    PROVE  SlotsInv'
  <1>1. UNCHANGED <<core, slot, handle, held, lost>>
    BY DEF locals, InitObtain, InitCount, InitBuild, DeinitObtain, DeinitNothing,
           DeinitCount, DeinitLock, DeinitUnlock, DeinitDestroy, DeinitRelease, GetLock
  <1>2. mutex' \in BOOLEAN
    <2>1. mutex' = mutex \/ InitBuild(c) \/ DeinitDestroy(c)
      BY DEF InitObtain, InitCount, DeinitObtain, DeinitNothing, DeinitCount,
             DeinitLock, DeinitUnlock, DeinitRelease, GetLock
    <2>2. InitBuild(c) \/ DeinitDestroy(c) => mutex' \in BOOLEAN
      BY Zenon DEF InitBuild, DeinitDestroy
    <2> QED
      BY <2>1, <2>2 DEF SlotsInv, TableTypes
  <1>3. PICK stage \in Stages \ Busy : Goto(c, stage)
    BY DEF Stages, Inside, Busy, InitObtain, InitCount, InitBuild, DeinitObtain,
           DeinitNothing, DeinitCount, DeinitLock, DeinitUnlock, DeinitDestroy,
           DeinitRelease, GetLock
  <1>4. pc[c] \notin Busy
    BY DEF At, Busy, InitObtain, InitCount, InitBuild, DeinitObtain, DeinitNothing,
           DeinitCount, DeinitLock, DeinitUnlock, DeinitDestroy, DeinitRelease, GetLock
  <1> QED
    BY <1>1, <1>2, <1>3, <1>4, FrameSlots

\* The exit of OMX_GetHandle and OMX_FreeHandle.
LEMMA ExitFacts ==
    ASSUME CoreInv, SlotsInv, NEW c \in Clients, Exit(c)
    PROVE  /\ pc' \in [Clients -> Stages] /\ pc'[c] = "idle"
           /\ \A d \in Clients \ {c} : pc'[d] = pc[d] /\ handle'[d] = handle[d]
           /\ handle' \in [Clients -> Handles \cup {NULL}] /\ handle'[c] = NULL
  <1>1. pc' \in [Clients -> Stages] /\ pc'[c] = "idle"
        /\ \A d \in Clients \ {c} : pc'[d] = pc[d]
    BY StageStep DEF Exit, CoreInv, Stages
  <1>2. handle' = [handle EXCEPT ![c] = NULL] /\ handle \in [Clients -> Handles \cup {NULL}]
    BY DEF Exit, SlotsInv, TableTypes
  <1> QED
    BY <1>1, <1>2

\* Refusals change nothing; a handle that is free already is in no slot.
LEMMA RefusedSlots ==
    ASSUME CoreInv, SlotsInv, NEW c \in Clients, GetRefused(c) \/ FreeRefused(c)
    PROVE  SlotsInv'
  <1>1. Exit(c) /\ UNCHANGED <<mutex, pModules, pComponents, slot, held, lost>>
    BY DEF GetRefused, FreeRefused, core
  <1>2. FreeSlots' = FreeSlots
    BY <1>1 DEF FreeSlots
  <1>3. \A d \in Clients \ {c} : pc[d] \notin Busy
    BY BusyAlone DEF GetRefused, FreeRefused, At, Busy
  <1>4. pc[c] = "get" \/ \A s \in Slots : pComponents[s] # handle[c]
    BY BusyAlone DEF GetRefused, FreeRefused, At, Busy
  <1>5. pc[c] \in {"get", "free"}
    BY DEF GetRefused, FreeRefused, At
  <1>6. TableTypes' /\ OneSlot'
    BY <1>1, <1>2, ExitFacts DEF SlotsInv, TableTypes, OneSlot
  <1>7. HeldStored'
    BY <1>1, ExitFacts, CompAssumption DEF SlotsInv, TableTypes, HeldStored
  <1>8. CallHolds'
    BY <1>1, <1>2, <1>3, ExitFacts DEF SlotsInv, CallHolds, Busy
  <1>9. SlotsAccounted'
    BY <1>1, <1>2, <1>4, <1>5, ExitFacts DEF SlotsInv, SlotsAccounted
  <1> QED
    BY <1>6, <1>7, <1>8, <1>9 DEF SlotsInv

\* OMX_GetHandle takes the first free slot for its library.
LEMMA GetOpenSlots ==
    ASSUME CoreInv, SlotsInv, NEW c \in Clients, GetOpen(c)
    PROVE  SlotsInv'
  <1>1. PICK s \in Slots : /\ FirstFree(s)
                           /\ pModules' = [pModules EXCEPT ![s] = TRUE]
                           /\ slot' = [slot EXCEPT ![c] = s]
    BY DEF GetOpen
  <1>2. /\ pc[c] = "get" /\ Goto(c, "opened")
        /\ UNCHANGED <<mutex, pComponents, handle, held, lost>>
    BY DEF GetOpen, At
  <1>3. /\ pc' \in [Clients -> Stages] /\ pc'[c] = "opened"
        /\ \A d \in Clients \ {c} : pc'[d] = pc[d]
    BY <1>2, StageStep DEF CoreInv, Stages, Inside
  <1>4. s \in FreeSlots /\ FreeSlots' = FreeSlots \ {s} /\ pModules' \in [Slots -> BOOLEAN]
    <2>1. pModules \in [Slots -> BOOLEAN] /\ s \in FreeSlots
      BY <1>1 DEF SlotsInv, TableTypes, FirstFree
    <2>2. /\ pModules' \in [Slots -> BOOLEAN] /\ pModules'[s]
          /\ \A t \in Slots \ {s} : pModules'[t] = pModules[t]
      BY <1>1, <2>1, Zenon
    <2> QED
      BY <2>1, <2>2 DEF FreeSlots
  <1>5. /\ slot' \in [Clients -> Slots] /\ slot'[c] = s
        /\ \A d \in Clients \ {c} : slot'[d] = slot[d] /\ pc[d] \notin Busy
    BY <1>1, <1>2, BusyAlone DEF SlotsInv, TableTypes
  <1>6. TableTypes'
    BY <1>2, <1>4, <1>5 DEF SlotsInv, TableTypes
  <1>7. OneSlot' /\ HeldStored'
    BY <1>2, <1>4 DEF SlotsInv, OneSlot, HeldStored
  <1>8. CallHolds'
    BY <1>2, <1>3, <1>4, <1>5 DEF SlotsInv, OneSlot, CallHolds, Busy
  <1>9. SlotsAccounted'
    BY <1>2, <1>3, <1>4, <1>5 DEF SlotsInv, SlotsAccounted, Busy
  <1> QED
    BY <1>6, <1>7, <1>8, <1>9 DEF SlotsInv

\* The failures that leave the slot behind.
LEMMA LostSlots ==
    ASSUME CoreInv, SlotsInv, NEW c \in Clients, GetMakeFails(c) \/ GetCallbacksFail(c)
    PROVE  SlotsInv'
  <1>1. /\ Exit(c) /\ UNCHANGED <<mutex, pModules, pComponents, slot, held>>
        /\ lost' = lost \cup {slot[c]}
    BY DEF GetMakeFails, GetCallbacksFail, core
  <1>2. FreeSlots' = FreeSlots
    BY <1>1 DEF FreeSlots
  <1>3. pc[c] \in {"opened", "made"} /\ slot[c] \in Slots
    BY DEF GetMakeFails, GetCallbacksFail, At, SlotsInv, TableTypes
  <1>4. \A d \in Clients \ {c} : pc[d] \notin Busy
    BY <1>3, BusyAlone DEF Busy
  <1>5. TableTypes' /\ OneSlot'
    BY <1>1, <1>2, <1>3, ExitFacts DEF SlotsInv, TableTypes, OneSlot
  <1>6. HeldStored'
    BY <1>1, ExitFacts, CompAssumption DEF SlotsInv, TableTypes, HeldStored
  <1>7. CallHolds'
    BY <1>1, <1>2, <1>4, ExitFacts DEF SlotsInv, CallHolds, Busy
  <1>8. SlotsAccounted'
    BY <1>1, <1>2, <1>3, <1>4, ExitFacts DEF SlotsInv, SlotsAccounted, Busy
  <1> QED
    BY <1>5, <1>6, <1>7, <1>8 DEF SlotsInv

\* The new handle is nobody's yet.
LEMMA GetMakeSlots ==
    ASSUME CoreInv, SlotsInv, NEW c \in Clients, GetMake(c)
    PROVE  SlotsInv'
  <1>1. PICK h \in Handles \ Allocated :
            /\ pComponents' = [pComponents EXCEPT ![slot[c]] = h]
            /\ handle' = [handle EXCEPT ![c] = h]
    BY DEF GetMake
  <1>2. /\ pc[c] = "opened" /\ Goto(c, "made")
        /\ UNCHANGED <<mutex, pModules, slot, held, lost>>
    BY DEF GetMake, At
  <1>3. /\ pc' \in [Clients -> Stages] /\ pc'[c] = "made"
        /\ \A d \in Clients \ {c} : pc'[d] = pc[d] /\ pc[d] \notin Busy
    BY <1>2, StageStep, BusyAlone DEF CoreInv, Stages, Inside, Busy
  <1>4. FreeSlots' = FreeSlots /\ slot[c] \in Slots /\ slot[c] \notin FreeSlots
    BY <1>2 DEF FreeSlots, SlotsInv, TableTypes, CallHolds
  <1>5. /\ pComponents' \in [Slots -> Handles \cup {NULL}] /\ pComponents'[slot[c]] = h
        /\ \A t \in Slots \ {slot[c]} : pComponents'[t] = pComponents[t]
        /\ handle' \in [Clients -> Handles \cup {NULL}] /\ handle'[c] = h
        /\ \A d \in Clients \ {c} : handle'[d] = handle[d]
        /\ pComponents[slot[c]] = NULL
    BY <1>1, <1>2, <1>4 DEF SlotsInv, TableTypes, CallHolds
  <1>6. h # NULL /\ (\A t \in Slots : pComponents[t] # h)
    BY CompAssumption DEF Allocated
  <1>7. TableTypes'
    BY <1>2, <1>5 DEF SlotsInv, TableTypes
  <1>8. OneSlot'
    BY <1>4, <1>5, <1>6 DEF SlotsInv, OneSlot
  <1>9. HeldStored'
    <2> SUFFICES ASSUME NEW d \in Clients, NEW g \in held[d]
                 PROVE  /\ \E s \in Slots : pComponents'[s] = g
                        /\ \A e \in Clients : handle'[e] # g /\ (e # d => g \notin held[e])
      BY <1>2 DEF HeldStored
    <2>1. PICK s \in Slots : pComponents[s] = g
      BY DEF SlotsInv, HeldStored
    <2>2. g # NULL /\ g # h
      BY <1>6, <2>1, CompAssumption DEF SlotsInv, TableTypes
    <2>3. s # slot[c]
      BY <1>5, <2>1, <2>2
    <2> QED
      BY <1>5, <2>1, <2>2, <2>3 DEF SlotsInv, HeldStored
  <1>10. CallHolds'
    BY <1>2, <1>3, <1>5, <1>6 DEF SlotsInv, CallHolds, Busy
  <1>11. SlotsAccounted'
    BY <1>2, <1>3, <1>4, <1>5 DEF SlotsInv, SlotsAccounted, Busy
  <1> QED
    BY <1>7, <1>8, <1>9, <1>10, <1>11 DEF SlotsInv

\* The slot is released, by OMX_FreeHandle or after a failed OMX_ComponentInit.
LEMMA ReleaseSlots ==
    ASSUME CoreInv, SlotsInv, NEW c \in Clients, GetInitFails(c) \/ FreeReturn(c)
    PROVE  SlotsInv'
  <1>1. /\ Exit(c) /\ ReleaseSlot(slot[c])
        /\ UNCHANGED <<mutex, slot, held, lost>>
        /\ pc[c] \in {"made", "deiniting"}
    BY DEF GetInitFails, FreeReturn, At
  <1>2. \A d \in Clients \ {c} : pc[d] \notin Busy
    BY <1>1, BusyAlone DEF Busy
  <1>3. /\ slot[c] \in Slots
        /\ pComponents' \in [Slots -> Handles \cup {NULL}] /\ pComponents'[slot[c]] = NULL
        /\ \A t \in Slots \ {slot[c]} : pComponents'[t] = pComponents[t]
        /\ pComponents[slot[c]] = handle[c] /\ handle[c] # NULL
    BY <1>1 DEF ReleaseSlot, SlotsInv, TableTypes, CallHolds
  <1>4. FreeSlots' = FreeSlots \cup {slot[c]} /\ pModules' \in [Slots -> BOOLEAN]
    <2>1. pModules \in [Slots -> BOOLEAN] /\ pModules' = [pModules EXCEPT ![slot[c]] = FALSE]
      BY <1>1 DEF ReleaseSlot, SlotsInv, TableTypes
    <2>2. /\ pModules' \in [Slots -> BOOLEAN] /\ ~pModules'[slot[c]]
          /\ \A t \in Slots \ {slot[c]} : pModules'[t] = pModules[t]
      BY <1>3, <2>1, Zenon
    <2> QED
      BY <1>3, <2>2 DEF FreeSlots
  <1>5. TableTypes'
    BY <1>1, <1>3, <1>4, ExitFacts DEF SlotsInv, TableTypes
  <1>6. OneSlot'
    BY <1>3, <1>4 DEF SlotsInv, OneSlot
  <1>7. HeldStored'
    <2> SUFFICES ASSUME NEW d \in Clients, NEW g \in held[d]
                 PROVE  /\ \E s \in Slots : pComponents'[s] = g
                        /\ \A e \in Clients : handle'[e] # g /\ (e # d => g \notin held[e])
      BY <1>1 DEF HeldStored
    <2>1. PICK s \in Slots : pComponents[s] = g
      BY DEF SlotsInv, HeldStored
    <2>2. g # NULL /\ g # handle[c]
      BY CompAssumption DEF SlotsInv, TableTypes, HeldStored
    <2>3. s # slot[c]
      BY <1>3, <2>1, <2>2
    <2> QED
      BY <1>3, <2>1, <2>2, <2>3, ExitFacts, <1>1 DEF SlotsInv, HeldStored
  <1>8. CallHolds'
    BY <1>1, <1>2, ExitFacts DEF SlotsInv, CallHolds, Busy
  <1>9. SlotsAccounted'
    BY <1>1, <1>2, <1>3, <1>4, ExitFacts DEF SlotsInv, SlotsAccounted, Busy
  <1> QED
    BY <1>5, <1>6, <1>7, <1>8, <1>9 DEF SlotsInv

\* The handle goes from the call to its client.
LEMMA GetReturnSlots ==
    ASSUME CoreInv, SlotsInv, NEW c \in Clients, GetReturn(c)
    PROVE  SlotsInv'
  <1>1. /\ Exit(c) /\ UNCHANGED <<mutex, pModules, pComponents, slot, lost>>
        /\ held' = [held EXCEPT ![c] = @ \cup {handle[c]}]
        /\ pc[c] = "made"
    BY DEF GetReturn, At, core
  <1>2. FreeSlots' = FreeSlots
    BY <1>1 DEF FreeSlots
  <1>3. \A d \in Clients \ {c} : pc[d] \notin Busy /\ handle[d] = NULL
    BY <1>1, BusyAlone DEF Busy, SlotsInv, CallHolds
  <1>4. /\ slot[c] \in Slots /\ handle[c] \in Handles
        /\ pComponents[slot[c]] = handle[c] /\ handle[c] # NULL
    BY <1>1 DEF SlotsInv, TableTypes, CallHolds
  <1>5. /\ held' \in [Clients -> SUBSET Handles] /\ held'[c] = held[c] \cup {handle[c]}
        /\ \A d \in Clients \ {c} : held'[d] = held[d]
    BY <1>1, <1>4 DEF SlotsInv, TableTypes
  <1>6. TableTypes' /\ OneSlot'
    BY <1>1, <1>2, <1>5, ExitFacts DEF SlotsInv, TableTypes, OneSlot
  <1>7. HeldStored'
    <2> SUFFICES ASSUME NEW d \in Clients, NEW g \in held'[d]
                 PROVE  /\ \E s \in Slots : pComponents[s] = g
                        /\ \A e \in Clients : handle'[e] # g /\ (e # d => g \notin held'[e])
      BY <1>1 DEF HeldStored
    <2>1. \A e \in Clients : handle'[e] = NULL
      BY <1>1, <1>3, ExitFacts
    <2>2. g \in Handles /\ g # NULL
      BY <1>5, CompAssumption
    <2>3. CASE g = handle[c]
      <3>1. \A e \in Clients : g \notin held[e]
        BY <2>3 DEF SlotsInv, HeldStored
      <3>2. d = c
        BY <3>1, <1>5
      <3> QED
        BY <1>4, <1>5, <2>1, <2>2, <2>3, <3>1, <3>2
    <2>4. CASE g # handle[c]
      <3>1. g \in held[d]
        BY <1>5, <2>4
      <3> QED
        BY <1>5, <2>1, <2>2, <2>4, <3>1 DEF SlotsInv, HeldStored
    <2> QED
      BY <2>3, <2>4
  <1>8. CallHolds'
    BY <1>1, <1>2, <1>3, ExitFacts DEF SlotsInv, CallHolds, Busy
  <1>9. SlotsAccounted'
    BY <1>1, <1>2, <1>3, <1>4, <1>5, ExitFacts DEF SlotsInv, SlotsAccounted, Busy
  <1> QED
    BY <1>6, <1>7, <1>8, <1>9 DEF SlotsInv

\* The handle goes from the client to the call, or was nobody's.
LEMMA FreeLockSlots ==
    ASSUME CoreInv, SlotsInv, NEW c \in Clients, FreeLock(c)
    PROVE  SlotsInv'
  <1>1. PICK h \in held[c] \cup (Handles \ Allocated) :
            /\ handle' = [handle EXCEPT ![c] = h]
            /\ held' = [held EXCEPT ![c] = @ \ {h}]
    BY DEF FreeLock
  <1>2. /\ pc[c] = "idle" /\ ref[c] /\ LockMutex(c) /\ Goto(c, "free")
        /\ UNCHANGED <<mutex, pModules, pComponents, slot, lost>>
    BY DEF FreeLock, At, core
  <1>3. /\ pc' \in [Clients -> Stages] /\ pc'[c] = "free"
        /\ \A d \in Clients \ {c} : pc'[d] = pc[d]
    BY <1>2, StageStep DEF CoreInv, Stages, Inside
  <1>4. \A d \in Clients : pc[d] \notin Busy /\ handle[d] = NULL
    <2>1. mutex
      <3>1. c \in Refs
        BY <1>2 DEF Refs
      <3> QED
        BY <3>1 DEF CoreInv, MutexThere
    <2>2. holder = NULL
      BY <1>2, <2>1 DEF LockMutex
    <2> QED
      BY <2>2 DEF CoreInv, MutexGuards, Inside, Busy, SlotsInv, CallHolds
  <1>5. FreeSlots' = FreeSlots
    BY <1>2 DEF FreeSlots
  <1>6. /\ h \in Handles /\ h # NULL
        /\ handle' \in [Clients -> Handles \cup {NULL}] /\ handle'[c] = h
        /\ \A d \in Clients \ {c} : handle'[d] = NULL
        /\ held' \in [Clients -> SUBSET Handles] /\ held'[c] = held[c] \ {h}
        /\ \A d \in Clients \ {c} : held'[d] = held[d]
    BY <1>1, <1>4, CompAssumption DEF SlotsInv, TableTypes
  <1>7. \A d \in Clients \ {c} : h \notin held[d]
    BY <1>1 DEF SlotsInv, HeldStored, Allocated
  <1>8. TableTypes' /\ OneSlot'
    BY <1>2, <1>5, <1>6 DEF SlotsInv, TableTypes, OneSlot
  <1>9. HeldStored'
    <2> SUFFICES ASSUME NEW d \in Clients, NEW g \in held'[d]
                 PROVE  /\ \E s \in Slots : pComponents[s] = g
                        /\ \A e \in Clients : handle'[e] # g /\ (e # d => g \notin held'[e])
      BY <1>2 DEF HeldStored
    <2>1. g \in held[d] /\ g # h /\ g \in Handles /\ g # NULL
      BY <1>6, <1>7, CompAssumption
    <2> QED
      BY <1>6, <2>1 DEF SlotsInv, HeldStored
  <1>10. CallHolds'
    BY <1>2, <1>3, <1>4, <1>5, <1>6 DEF SlotsInv, CallHolds, Busy
  <1>11. SlotsAccounted'
    BY <1>2, <1>3, <1>4, <1>5, <1>6 DEF SlotsInv, SlotsAccounted, Busy
  <1> QED
    BY <1>8, <1>9, <1>10, <1>11 DEF SlotsInv

\* The slot OMX_FreeHandle finds is the one with the handle.
LEMMA FreeDeInitSlots ==
    ASSUME CoreInv, SlotsInv, NEW c \in Clients, FreeDeInit(c)
    PROVE  SlotsInv'
  <1>1. PICK s \in Slots : pComponents[s] = handle[c] /\ slot' = [slot EXCEPT ![c] = s]
    BY DEF FreeDeInit
  <1>2. /\ pc[c] = "free" /\ Goto(c, "deiniting")
        /\ UNCHANGED <<mutex, pModules, pComponents, handle, held, lost>>
    BY DEF FreeDeInit, At, core
  <1>3. /\ pc' \in [Clients -> Stages] /\ pc'[c] = "deiniting"
        /\ \A d \in Clients \ {c} : pc'[d] = pc[d] /\ pc[d] \notin Busy
    BY <1>2, StageStep, BusyAlone DEF CoreInv, Stages, Inside, Busy
  <1>4. /\ slot' \in [Clients -> Slots] /\ slot'[c] = s
        /\ \A d \in Clients \ {c} : slot'[d] = slot[d]
    BY <1>1 DEF SlotsInv, TableTypes
  <1>5. FreeSlots' = FreeSlots /\ handle[c] # NULL
    BY <1>2 DEF FreeSlots, SlotsInv, CallHolds
  <1>6. \A t \in Slots : pComponents[t] = handle[c] => t = s
    BY <1>1, <1>5 DEF SlotsInv, OneSlot
  <1>7. TableTypes' /\ OneSlot' /\ HeldStored'
    BY <1>2, <1>4, <1>5 DEF SlotsInv, TableTypes, OneSlot, HeldStored
  <1>8. CallHolds'
    BY <1>1, <1>2, <1>3, <1>4, <1>5 DEF SlotsInv, CallHolds, Busy
  <1>9. SlotsAccounted'
    BY <1>2, <1>3, <1>4, <1>5, <1>6 DEF SlotsInv, SlotsAccounted, Busy
  <1> QED
    BY <1>7, <1>8, <1>9 DEF SlotsInv

\* Every step keeps the slots and handles accounted for.
LEMMA NextSlots == CoreInv /\ SlotsInv /\ [Next]_vars => SlotsInv'
  <1> SUFFICES ASSUME CoreInv, SlotsInv, [Next]_vars PROVE SlotsInv'
    OBVIOUS
  <1>1. CASE UNCHANGED vars
    <2>1. UNCHANGED <<mutex, pModules, pComponents, slot, handle, held, lost, pc>>
      BY <1>1 DEF vars, core, locals
    <2>2. FreeSlots' = FreeSlots
      BY <2>1 DEF FreeSlots
    <2> QED
      BY <2>1, <2>2 DEF SlotsInv, TableTypes, OneSlot, HeldStored, CallHolds,
                        SlotsAccounted
  <1>2. ASSUME NEW c \in Clients,
               \/ InitObtain(c) \/ InitCount(c) \/ InitBuild(c)
               \/ DeinitObtain(c) \/ DeinitNothing(c) \/ DeinitCount(c) \/ DeinitLock(c)
               \/ DeinitUnlock(c) \/ DeinitDestroy(c) \/ DeinitRelease(c)
               \/ GetLock(c)
        PROVE  SlotsInv'
    BY <1>2, InitDeinitSlots
  <1>3. ASSUME NEW c \in Clients,
               \/ GetRefused(c) \/ GetOpen(c) \/ GetMakeFails(c) \/ GetMake(c)
               \/ GetInitFails(c) \/ GetCallbacksFail(c) \/ GetReturn(c)
               \/ FreeLock(c) \/ FreeDeInit(c) \/ FreeRefused(c) \/ FreeReturn(c)
        PROVE  SlotsInv'
    BY <1>3, RefusedSlots, GetOpenSlots, LostSlots, GetMakeSlots, ReleaseSlots,
       GetReturnSlots, FreeLockSlots, FreeDeInitSlots
  <1> QED
    BY <1>1, <1>2, <1>3 DEF Next

-----------------------------------------------------------------------------
(***************************************************************************)
(* For any number of clients, slots and handles, whatever fails: a handle  *)
(* a client was given stays in exactly one slot, with its library, until   *)
(* that client frees it, and no other client is given it.                  *)
(***************************************************************************)
THEOREM HandlesKept == Spec => []HandlesInTable
  <1>1. Init => CoreInv /\ SlotsInv
    BY InitCore, InitSlots
  <1>2. CoreInv /\ SlotsInv /\ [Next]_vars => (CoreInv /\ SlotsInv)'
    BY NextCore, NextSlots
  <1>3. SlotsInv => HandlesInTable
    <2> SUFFICES ASSUME SlotsInv, NEW c \in Clients, NEW h \in held[c]
                 PROVE  /\ \A d \in Clients \ {c} : h \notin held[d]
                        /\ \E s \in Slots :
                             /\ pComponents[s] = h /\ pModules[s]
                             /\ \A t \in Slots \ {s} : pComponents[t] # h
      BY DEF HandlesInTable
    <2>1. PICK s \in Slots : pComponents[s] = h
      BY DEF SlotsInv, HeldStored
    <2>2. h # NULL
      BY CompAssumption DEF SlotsInv, TableTypes
    <2>3. s \notin FreeSlots /\ \A t \in Slots \ {s} : pComponents[t] # h
      BY <2>1, <2>2 DEF SlotsInv, OneSlot
    <2>4. pModules[s]
      BY <2>3 DEF FreeSlots
    <2> QED
      BY <2>1, <2>3, <2>4 DEF SlotsInv, HeldStored
  <1> QED
    BY <1>1, <1>2, <1>3, PTL DEF Spec

(***************************************************************************)
(* The component table is used up only by handles of clients, calls under  *)
(* way, and the slots lost when dlsym, malloc or SetCallbacks fails: every *)
(* other path of OMX_GetHandle and OMX_FreeHandle gives its slot back.     *)
(***************************************************************************)
THEOREM SlotsKept == Spec => []SlotsAccounted
  <1>1. Init => CoreInv /\ SlotsInv
    BY InitCore, InitSlots
  <1>2. CoreInv /\ SlotsInv /\ [Next]_vars => (CoreInv /\ SlotsInv)'
    BY NextCore, NextSlots
  <1>3. SlotsInv => SlotsAccounted
    BY DEF SlotsInv
  <1> QED
    BY <1>1, <1>2, <1>3, PTL DEF Spec

\* count is at most the number of clients: the one that changes it has no reference.
LEMMA CountBounded == CoreInv => count \in 0 .. Cardinality(Clients)
  <1> SUFFICES ASSUME CoreInv PROVE count \in 0 .. Cardinality(Clients)
    OBVIOUS
  <1>1. Refs \in SUBSET Clients /\ Cardinality(Clients) \in Nat
    BY FS_CardinalityType DEF Refs
  <1>2. Cardinality(Refs) <= Cardinality(Clients)
    BY <1>1, FS_Subset
  <1>3. ASSUME NEW c \in Clients, c \notin Refs
        PROVE  Cardinality(Refs) + 1 <= Cardinality(Clients)
    <2>1. Cardinality(Refs) # Cardinality(Clients)
      BY <1>1, <1>3, FS_Subset
    <2> QED
      BY <1>1, <1>2, <2>1, RefsFacts
  <1>4. CASE \A c \in Clients : pc[c] \notin {"build", "deinit"}
    BY <1>1, <1>2, <1>4, RefsFacts DEF CoreInv, CountsRefs
  <1>5. CASE \E c \in Clients : pc[c] \in {"build", "deinit"}
    <2>1. PICK c \in Clients : pc[c] \in {"build", "deinit"}
      BY <1>5
    <2>2. c \notin Refs
      BY <2>1 DEF CoreInv, InitExclusive, InitStages
    <2> QED
      BY <1>1, <1>3, <2>1, <2>2, RefsFacts DEF CoreInv, CountsRefs, LockTypes
  <1> QED
    BY <1>4, <1>5

(***************************************************************************)
(* The core's globals keep their types for any number of clients; count    *)
(* never underflows and never exceeds the number of clients.               *)
(***************************************************************************)
THEOREM TypesCorrect == Spec => []TypeOK
  <1>1. Init => CoreInv /\ SlotsInv
    BY InitCore, InitSlots
  <1>2. CoreInv /\ SlotsInv /\ [Next]_vars => (CoreInv /\ SlotsInv)'
    BY NextCore, NextSlots
  <1>3. CoreInv /\ SlotsInv => TypeOK
    BY CountBounded DEF CoreInv, SlotsInv, TypeOK, TableTypes, LockTypes
  <1> QED
    BY <1>1, <1>2, <1>3, PTL DEF Spec

=============================================================================
