------------------------- MODULE ProxyBuffersProofs -------------------------
(***************************************************************************)
(* Theorems about ProxyBuffers, for tables of any size and any number of   *)
(* headers, remote buffers, memory handles and faults.                     *)
(***************************************************************************)
EXTENDS ProxyBuffers, FiniteSetTheorems, TLAPS

USE MaxAssumption, NullAssumption

\* The part of the state the slots and the counters depend on.
tableVars == <<pBufHeader, nTotalBuffers, nAllocatedBuffers, slot, hdr, pc, life>>

TableTypes ==
    /\ pBufHeader \in [Slots -> Headers \cup {NULL}]
    /\ nTotalBuffers \in Nat /\ nAllocatedBuffers \in Nat
    /\ pc \in Stages
    /\ slot \in Slots
    /\ hdr \in Headers \cup {NULL}
    /\ life \in {"running", "deinit", "gone"}

\* The stages of PROXY_UseBuffer after it chose a slot, and of PROXY_FreeBuffer.
Using == {"param", "xuse", "gotuse"}

Freeing == {"xfree", "gotfree"}

\* What a call remembers of the table while it waits is still so.
CallState ==
    /\ pc # "idle" => life = "running"
    /\ pc \in Using => FirstEmpty(slot) /\ nTotalBuffers < MAX /\ hdr \in Headers
    /\ pc \in Freeing => slot \in InTable /\ pBufHeader[slot] = hdr /\ hdr # NULL

TableInv == TableTypes /\ SlotTable /\ CallState

-----------------------------------------------------------------------------
\* The slots in use are an interval.
LEMMA InTableFacts ==
    ASSUME nTotalBuffers \in Nat
    PROVE  IsFiniteSet(InTable) /\ Cardinality(InTable) = nTotalBuffers
  <1>1. 0 \in Int /\ nTotalBuffers - 1 \in Int
    OBVIOUS
  <1>2. /\ IsFiniteSet(0 .. nTotalBuffers - 1)
        /\ Cardinality(0 .. nTotalBuffers - 1) =
             IF 0 > nTotalBuffers - 1 THEN 0 ELSE nTotalBuffers - 1 - 0 + 1
    BY <1>1, FS_Interval
  <1> QED
    BY <1>1, <1>2 DEF InTable

\* The occupied slots are finite, and all of InTable when none is empty.
LEMMA OccupiedFacts ==
    ASSUME TableTypes
    PROVE  /\ IsFiniteSet(Occupied)
           /\ Cardinality(Occupied) \in Nat
           /\ Cardinality(Occupied) <= nTotalBuffers
           /\ Empty = {} => Occupied = InTable /\ Cardinality(Occupied) = nTotalBuffers
  <1>1. /\ IsFiniteSet(InTable)
        /\ Cardinality(InTable) = nTotalBuffers
    BY InTableFacts DEF TableTypes
  <1>2. Occupied \in SUBSET InTable
    BY DEF Occupied
  <1>3. IsFiniteSet(Occupied) /\ Cardinality(Occupied) <= nTotalBuffers
    BY <1>1, <1>2, FS_Subset
  <1>4. Cardinality(Occupied) \in Nat
    BY <1>3, FS_CardinalityType
  <1>5. Empty = {} => Occupied = InTable
    BY DEF Empty, Occupied
  <1> QED
    BY <1>1, <1>3, <1>4, <1>5

\* The table is empty at the start.
LEMMA InitTable == Init => TableInv
  <1> SUFFICES ASSUME Init PROVE TableInv
    OBVIOUS
  <1>1. TableTypes
    BY DEF Init, TableTypes, Slots, Stages
  <1>2. Occupied = {}
    BY DEF Init, Occupied, InTable
  <1>3. SlotTable
    BY <1>2, FS_EmptySet DEF Init, SlotTable
  <1>4. CallState
    BY DEF Init, CallState, Using, Freeing
  <1> QED
    BY <1>1, <1>3, <1>4 DEF TableInv

\* A step that leaves the slots and the counters alone keeps SlotTable.
LEMMA SlotTableFrame ==
    ASSUME SlotTable,
           UNCHANGED <<pBufHeader, nTotalBuffers, nAllocatedBuffers, life>>
    PROVE  SlotTable'
  BY DEF SlotTable, Occupied, InTable

-----------------------------------------------------------------------------
\* The call only moves on; slots and counters stay.
LEMMA CallMoves ==
    ASSUME TableInv,
           UNCHANGED <<pBufHeader, nTotalBuffers, nAllocatedBuffers, life>>,
           TableTypes', CallState'
    PROVE  TableInv'
  BY SlotTableFrame DEF TableInv

\* PROXY_UseBuffer picks the first empty slot and the total covers it.
LEMMA UseBufferTable == TableInv /\ UseBuffer => TableInv'
  <1> SUFFICES ASSUME TableInv, UseBuffer PROVE TableInv'
    OBVIOUS
  <1>1. UNCHANGED <<pBufHeader, nTotalBuffers, nAllocatedBuffers, life>>
    BY DEF UseBuffer, table
  <1>2. PICK s \in Slots, h \in Headers \ hdrs :
            FirstEmpty(s) /\ slot' = s /\ hdr' = h
    BY DEF UseBuffer
  <1>3. pc' = "param" /\ life = "running"
    BY DEF UseBuffer, UseStarts
  <1>4. TableTypes'
    BY <1>1, <1>2, <1>3 DEF TableInv, TableTypes, Stages
  <1>5. nTotalBuffers < MAX
    BY DEF UseBuffer, TableFull, TableInv, TableTypes
  <1>6. FirstEmpty(slot)'
    BY <1>1, <1>2 DEF FirstEmpty, Empty, InTable
  <1>7. CallState'
    BY <1>1, <1>2, <1>3, <1>5, <1>6 DEF CallState, Using, Freeing
  <1> QED
    BY <1>1, <1>4, <1>7, CallMoves

\* The client's call takes or leaves a slot it looked up.
LEMMA LookupTable ==
    ASSUME TableInv, NEW h \in Headers, GiveBuffer(h) \/ FreeBuffer(h)
    PROVE  TableInv'
  <1>1. UNCHANGED <<pBufHeader, nTotalBuffers, nAllocatedBuffers, life>>
    BY DEF GiveBuffer, FreeBuffer, table
  <1>2. PICK s \in Slots : Find(h, s) /\ slot' = s
    BY DEF GiveBuffer, FreeBuffer
  <1>3. /\ pc' \in {"xgive", "xfree"} /\ life = "running"
        /\ hdr' = h
    BY DEF GiveBuffer, FreeBuffer, Send
  <1>4. TableTypes'
    BY <1>1, <1>2, <1>3 DEF TableInv, TableTypes, Stages
  <1>5. (slot \in InTable /\ pBufHeader[slot] = hdr /\ hdr # NULL)'
    BY <1>1, <1>2, <1>3 DEF Find, InTable
  <1>6. CallState'
    BY <1>1, <1>3, <1>5 DEF CallState, Using, Freeing
  <1> QED
    BY <1>1, <1>4, <1>6, CallMoves

\* A call enters, or returns with nothing stored.
LEMMA IdleTable ==
    ASSUME TableInv,
           AllocateBuffer \/ UseRefused \/ UsePrepareFails \/ UseFails \/ GiveReturns
    PROVE  TableInv'
  <1>1. UNCHANGED <<pBufHeader, nTotalBuffers, nAllocatedBuffers, life, slot>>
    BY DEF AllocateBuffer, UseRefused, UsePrepareFails, UseFails, GiveReturns, table
  <1>2. /\ pc' \in {"idle", "enter"}
        /\ pc' = "enter" => life = "running"
        /\ hdr' \in {hdr, NULL}
    BY DEF AllocateBuffer, UseRefused, UsePrepareFails, UseFails, GiveReturns, UseExits
  <1>3. TableTypes'
    BY <1>1, <1>2 DEF TableInv, TableTypes, Stages
  <1>4. CallState'
    BY <1>1, <1>2 DEF CallState, Using, Freeing
  <1> QED
    BY <1>1, <1>3, <1>4, CallMoves

\* The request goes out or the answer comes in.
LEMMA WaitTable ==
    ASSUME TableInv, UsePrepare \/ ListenerAnswer
    PROVE  TableInv'
  <1>1. UNCHANGED <<pBufHeader, nTotalBuffers, nAllocatedBuffers, life, slot, hdr>>
    BY DEF UsePrepare, ListenerAnswer, table
  <1>2. \/ pc = "param" /\ pc' = "xuse"
        \/ pc = "xuse" /\ pc' = "gotuse"
        \/ pc = "xgive" /\ pc' = "gotgive"
        \/ pc = "xfree" /\ pc' = "gotfree"
    <2>1. CASE UsePrepare
      BY <2>1 DEF UsePrepare, Send
    <2>2. CASE ListenerAnswer
      <3>1. PICK w \in Woken : pc = w[1] /\ pc' = w[2]
        BY <2>2 DEF ListenerAnswer
      <3>2. w \in {<<"xuse", "gotuse">>, <<"xgive", "gotgive">>, <<"xfree", "gotfree">>}
        BY DEF Woken
      <3> QED
        BY <3>1, <3>2
    <2> QED
      BY <2>1, <2>2
  <1>3. TableTypes'
    BY <1>1, <1>2 DEF TableInv, TableTypes, Stages
  <1>4. FirstEmpty(slot) => FirstEmpty(slot)'
    BY <1>1 DEF FirstEmpty, Empty, InTable
  <1>5. CallState'
    BY <1>1, <1>2, <1>4 DEF TableInv, CallState, Using, Freeing, InTable
  <1> QED
    BY <1>1, <1>3, <1>5, CallMoves

-----------------------------------------------------------------------------
(***************************************************************************)
(* UseStore: the slot is a hole or the next one, and in the second case    *)
(* there is no hole, so the counter of buffers and the high-water mark     *)
(* agree and both grow.                                                    *)
(***************************************************************************)
LEMMA UseStoreTable ==
    ASSUME TableInv, UseStore
    PROVE  /\ TableInv'
           /\ slot \notin Occupied /\ Occupied' = Occupied \cup {slot}
  <1>1. /\ pBufHeader' = [pBufHeader EXCEPT ![slot] = hdr]
        /\ nAllocatedBuffers' = nAllocatedBuffers + 1
        /\ nTotalBuffers' = TotalAfterUse
        /\ pc' = "idle" /\ hdr' = NULL
        /\ UNCHANGED <<slot, life>>
    BY DEF UseStore
  <1>2. /\ FirstEmpty(slot) /\ nTotalBuffers < MAX /\ hdr \in Headers
        /\ life = "running"
    BY DEF TableInv, CallState, UseStore, Using
  <1>3. /\ pBufHeader \in [Slots -> Headers \cup {NULL}]
        /\ nTotalBuffers \in Nat /\ nAllocatedBuffers \in Nat /\ slot \in Slots
        /\ nAllocatedBuffers = Cardinality(Occupied)
        /\ nAllocatedBuffers <= nTotalBuffers
        /\ IsFiniteSet(Occupied)
    BY <1>2, OccupiedFacts DEF TableInv, TableTypes, SlotTable
  <1>4. slot \notin Occupied
    BY <1>2, <1>3 DEF FirstEmpty, Empty, Occupied, InTable
  <1>5. \/ slot < nTotalBuffers /\ nAllocatedBuffers < nTotalBuffers
        \/ slot = nTotalBuffers /\ nAllocatedBuffers = nTotalBuffers
    <2>1. CASE Empty = {}
      BY <2>1, <1>2, <1>3, OccupiedFacts DEF FirstEmpty, TableInv
    <2>2. CASE Empty # {}
      <3>1. slot \in InTable
        BY <2>2, <1>2 DEF FirstEmpty, Empty
      <3>2. Occupied \in SUBSET InTable /\ Occupied # InTable
        BY <3>1, <1>4 DEF Occupied
      <3>3. IsFiniteSet(InTable) /\ Cardinality(InTable) = nTotalBuffers
        BY <1>3, InTableFacts
      <3>4. Cardinality(Occupied) # nTotalBuffers
        BY <3>2, <3>3, FS_Subset
      <3> QED
        BY <3>1, <3>4, <1>3 DEF InTable
    <2> QED
      BY <2>1, <2>2
  <1>6. /\ nTotalBuffers' \in Nat /\ nTotalBuffers' <= MAX
        /\ slot < nTotalBuffers' /\ nTotalBuffers <= nTotalBuffers'
        /\ nAllocatedBuffers' <= nTotalBuffers'
    BY <1>1, <1>2, <1>3, <1>5 DEF TotalAfterUse
  <1>7. \A s \in Slots : (pBufHeader[s] # NULL => s < nTotalBuffers)'
    <2>1. \A s \in Slots : pBufHeader[s] # NULL => s < nTotalBuffers
      BY DEF TableInv, SlotTable
    <2> QED
      BY <1>1, <1>3, <1>6, <2>1 DEF Slots
  <1>8. Occupied' = Occupied \cup {slot}
    <2>1. \A s \in Slots : pBufHeader'[s] = IF s = slot THEN hdr ELSE pBufHeader[s]
      BY <1>1, <1>3
    <2>2. hdr # NULL
      BY <1>2
    <2>3. \A s \in Slots : pBufHeader[s] # NULL => s < nTotalBuffers
      BY DEF TableInv, SlotTable
    <2> DEFINE n == nTotalBuffers'
    <2>n. InTable' = 0 .. n - 1 /\ InTable = 0 .. nTotalBuffers - 1
      BY DEF InTable
    <2>m. /\ n \in Nat /\ n <= MAX /\ slot < n /\ nTotalBuffers <= n
          /\ nTotalBuffers \in Nat /\ slot \in 0 .. MAX
      BY <1>3, <1>6 DEF Slots
    <2> HIDE DEF n
    <2>4. InTable \subseteq Slots /\ InTable' \subseteq Slots
      BY <2>n, <2>m DEF Slots
    <2>5. slot \in InTable' /\ InTable \subseteq InTable'
      BY <2>n, <2>m
    <2>6. ASSUME NEW s \in InTable', s # slot, pBufHeader[s] # NULL
          PROVE  s \in InTable
      <3>1. s < nTotalBuffers /\ s \in Nat
        BY <2>6, <2>3, <2>4 DEF Slots
      <3> QED
        BY <3>1, <1>3 DEF InTable
    <2> QED
      BY <2>1, <2>2, <2>4, <2>5, <2>6 DEF Occupied
  <1>9. nAllocatedBuffers' = Cardinality(Occupied')
    <2>1. Cardinality(Occupied \cup {slot}) = Cardinality(Occupied) + 1
      BY <1>3, <1>4, FS_AddElement
    <2> QED
      BY <2>1, <1>1, <1>3, <1>8
  <1>10. SlotTable'
    BY <1>6, <1>7, <1>9 DEF SlotTable
  <1>11. TableTypes'
    BY <1>1, <1>2, <1>3, <1>6 DEF TableInv, TableTypes, Stages
  <1>12. CallState'
    BY <1>1 DEF CallState, Using, Freeing
  <1> QED
    BY <1>4, <1>8, <1>10, <1>11, <1>12 DEF TableInv

\* FreeFinish makes a hole; the high-water mark stays.
LEMMA FreeFinishTable ==
    ASSUME TableInv, FreeFinish
    PROVE  /\ TableInv'
           /\ slot \in Occupied /\ Occupied' = Occupied \ {slot}
  <1>1. /\ pBufHeader' = [pBufHeader EXCEPT ![slot] = NULL]
        /\ nAllocatedBuffers' = nAllocatedBuffers - 1
        /\ pc' = "idle" /\ hdr' = NULL
        /\ UNCHANGED <<slot, life, nTotalBuffers>>
    BY DEF FreeFinish, ClearSlot
  <1>2. /\ slot \in InTable /\ pBufHeader[slot] # NULL
        /\ life = "running"
    BY DEF TableInv, CallState, FreeFinish, Freeing
  <1>3. /\ pBufHeader \in [Slots -> Headers \cup {NULL}]
        /\ nTotalBuffers \in Nat /\ nAllocatedBuffers \in Nat /\ slot \in Slots
        /\ nAllocatedBuffers = Cardinality(Occupied)
        /\ nAllocatedBuffers <= nTotalBuffers /\ nTotalBuffers <= MAX
        /\ IsFiniteSet(Occupied)
    BY <1>2, OccupiedFacts DEF TableInv, TableTypes, SlotTable
  <1>4. slot \in Occupied
    BY <1>2 DEF Occupied
  <1>5. Occupied' = Occupied \ {slot}
    <2>1. InTable' = InTable /\ InTable \subseteq Slots
      BY <1>1, <1>3 DEF InTable, Slots
    <2>2. \A s \in Slots : pBufHeader'[s] = IF s = slot THEN NULL ELSE pBufHeader[s]
      BY <1>1, <1>3
    <2> QED
      BY <2>1, <2>2 DEF Occupied
  <1>6. /\ Cardinality(Occupied') = nAllocatedBuffers - 1
        /\ Cardinality(Occupied') \in Nat
    <2>1. /\ IsFiniteSet(Occupied \ {slot})
          /\ Cardinality(Occupied \ {slot}) = Cardinality(Occupied) - 1
      BY <1>3, <1>4, FS_RemoveElement
    <2>2. Cardinality(Occupied \ {slot}) \in Nat
      BY <2>1, FS_CardinalityType
    <2> QED
      BY <2>1, <2>2, <1>3, <1>5
  <1>7. \A s \in Slots : (pBufHeader[s] # NULL => s < nTotalBuffers)'
    BY <1>1, <1>3 DEF TableInv, SlotTable
  <1>8. SlotTable'
    BY <1>1, <1>3, <1>6, <1>7 DEF SlotTable
  <1>9. TableTypes'
    BY <1>1, <1>3, <1>6 DEF TableInv, TableTypes, Stages
  <1>10. CallState'
    BY <1>1 DEF CallState, Using, Freeing
  <1> QED
    BY <1>4, <1>5, <1>8, <1>9, <1>10 DEF TableInv

\* Tearing down empties slots, and then only life changes.
LEMMA DeInitTable ==
    ASSUME TableInv, ComponentDeInit \/ InstanceDeInit
    PROVE  TableInv'
  <1>1. CASE ComponentDeInit
    <2>1. /\ pBufHeader' = [s \in Slots |-> IF s \in Occupied THEN NULL
                                            ELSE pBufHeader[s]]
          /\ UNCHANGED <<nTotalBuffers, nAllocatedBuffers, pc, slot, hdr>>
          /\ life' = "deinit" /\ pc = "idle"
      BY <1>1 DEF ComponentDeInit
    <2>2. TableTypes'
      BY <2>1 DEF TableInv, TableTypes, Slots
    <2>3. SlotTable'
      BY <2>1 DEF TableInv, TableTypes, SlotTable
    <2>4. CallState'
      BY <2>1 DEF CallState, Using, Freeing
    <2> QED
      BY <2>2, <2>3, <2>4 DEF TableInv
  <1>2. CASE InstanceDeInit
    <2>1. /\ UNCHANGED <<pBufHeader, nTotalBuffers, nAllocatedBuffers, pc, slot, hdr>>
          /\ life' = "gone" /\ life = "deinit"
      BY <1>2 DEF InstanceDeInit, table
    <2>2. pc = "idle"
      BY <2>1 DEF TableInv, CallState
    <2>3. TableTypes' /\ SlotTable' /\ CallState'
      BY <2>1, <2>2 DEF TableInv, TableTypes, SlotTable, CallState, Using, Freeing
    <2> QED
      BY <2>3 DEF TableInv
  <1> QED
    BY <1>1, <1>2

\* The remote's steps, the listener's upcalls and stuttering.
LEMMA OtherTable ==
    ASSUME TableInv, UNCHANGED tableVars
    PROVE  TableInv'
  <1>1. FirstEmpty(slot) => FirstEmpty(slot)'
    BY DEF tableVars, FirstEmpty, Empty, InTable
  <1>2. TableTypes' /\ CallState'
    BY <1>1 DEF tableVars, TableInv, TableTypes, CallState, InTable
  <1> QED
    BY <1>2, CallMoves DEF tableVars

\* Every step keeps the table and its counters consistent.
LEMMA NextTable == TableInv /\ [Next]_vars => TableInv'
  <1> SUFFICES ASSUME TableInv, [Next]_vars PROVE TableInv'
    OBVIOUS
  <1>1. CASE AllocateBuffer \/ UseRefused \/ UsePrepareFails \/ UseFails \/ GiveReturns
    BY <1>1, IdleTable
  <1>2. CASE UseBuffer
    BY <1>2, UseBufferTable
  <1>3. CASE UsePrepare \/ ListenerAnswer
    BY <1>3, WaitTable
  <1>4. CASE \E h \in Headers : GiveBuffer(h) \/ FreeBuffer(h)
    BY <1>4, LookupTable
  <1>5. CASE UseStore
    BY <1>5, UseStoreTable
  <1>6. CASE FreeFinish
    BY <1>6, FreeFinishTable
  <1>7. CASE ComponentDeInit \/ InstanceDeInit
    BY <1>7, DeInitTable
  <1>8. CASE \/ RemoteUses \/ RemoteTakes \/ RemoteFrees \/ RemoteAnswers
             \/ \E r \in Remotes : RemoteDone(r)
             \/ BufferDone \/ BufferDoneUnknown
    <2>1. UNCHANGED tableVars
      BY <1>8 DEF tableVars, table, RemoteUses, RemoteTakes, RemoteFrees,
                  RemoteAnswers, RemoteDone, BufferDone, BufferDoneUnknown
    <2> QED
      BY <2>1, OtherTable
  <1>9. CASE Gone \/ UNCHANGED vars
    BY <1>9, OtherTable DEF Gone, vars, table, tableVars
  <1> QED
    BY <1>1, <1>2, <1>3, <1>4, <1>5, <1>6, <1>7, <1>8, <1>9 DEF Next

(***************************************************************************)
(* For every MAX_NUM_PROXY_BUFFERS, whatever calls fail half-way: the two  *)
(* counters agree with the slots, so the loops of PROXY_FreeBuffer,        *)
(* PROXY_FillThisBuffer and PROXY_FillBufferDone look at every buffer, and *)
(* PROXY_UseBuffer stores none outside tBufList.                           *)
(***************************************************************************)
THEOREM TableConsistent == Spec => []SlotTable
  <1>1. Init => TableInv
    BY InitTable
  <1>2. TableInv /\ [Next]_vars => TableInv'
    BY NextTable
  <1>3. TableInv => SlotTable
    BY DEF TableInv
  <1> QED
    BY <1>1, <1>2, <1>3, PTL DEF Spec

-----------------------------------------------------------------------------
(***************************************************************************)
(* The headers: no slot shares one with another, and the header of a call  *)
(* is in the table unless PROXY_UseBuffer has just made it.                *)
(***************************************************************************)
Stored == {pBufHeader[s] : s \in Occupied}

Distinct == \A s, t \in Occupied : pBufHeader[s] = pBufHeader[t] => s = t

CallHeader ==
    /\ pc \in {"idle", "enter"} => hdr = NULL
    /\ pc \in Using => hdr \notin Stored
    /\ pc \in {"xgive", "gotgive"} => hdr \in Stored

HeadersInv == Distinct /\ CallHeader /\ HeadersOwned

\* No header is allocated at the start.
LEMMA InitHeaders == Init => HeadersInv
  <1> SUFFICES ASSUME Init PROVE HeadersInv
    OBVIOUS
  <1>1. Occupied = {}
    BY DEF Init, Occupied, InTable
  <1> QED
    BY <1>1 DEF Init, HeadersInv, Distinct, CallHeader, HeadersOwned, Stored, Using

\* What is stored is never NULL, and does not change while the table does not.
LEMMA StoredNotNull == NULL \notin Stored
  BY DEF Stored, Occupied

\* The stored headers depend on the slots and the total alone.
LEMMA StoredFrame ==
    ASSUME UNCHANGED <<pBufHeader, nTotalBuffers>>
    PROVE  UNCHANGED <<Stored, Distinct>>
  BY DEF Stored, Distinct, Occupied, InTable

\* The call moves on and the slots stay.
LEMMA HeadersMove ==
    ASSUME TableInv, HeadersInv,
           \/ AllocateBuffer \/ UseRefused \/ UseBuffer \/ UsePrepare
           \/ UsePrepareFails \/ UseFails \/ GiveReturns \/ ListenerAnswer
           \/ \E h \in Headers : GiveBuffer(h) \/ FreeBuffer(h)
    PROVE  HeadersInv'
  <1>1. UNCHANGED <<pBufHeader, nTotalBuffers>>
    BY DEF AllocateBuffer, UseRefused, UseBuffer, UsePrepare, UsePrepareFails,
           UseFails, GiveReturns, ListenerAnswer, GiveBuffer, FreeBuffer, table
  <1>2. Stored' = Stored /\ Distinct'
    BY <1>1, StoredFrame DEF HeadersInv
  <1>3. hdrs = Stored \cup ({hdr} \ {NULL})
    BY DEF HeadersInv, HeadersOwned, Stored
  <1>4. SUFFICES CallHeader' /\ hdrs' = Stored \cup ({hdr'} \ {NULL})
    BY <1>2 DEF HeadersInv, HeadersOwned, Stored
  <1>5. CASE UseRefused \/ UsePrepareFails \/ UseFails
    <2>1. hdr = NULL \/ hdr \notin Stored
      BY <1>5 DEF UseRefused, UseStarts, UsePrepareFails, UseFails, HeadersInv,
                  CallHeader, Using
    <2>2. hdrs' = hdrs \ {hdr} /\ hdr' = NULL /\ pc' = "idle"
      BY <1>5 DEF UseRefused, UsePrepareFails, UseFails, UseExits
    <2> QED
      BY <1>3, <2>1, <2>2, StoredNotNull DEF CallHeader, Using
  <1>6. CASE UseBuffer
    <2>1. PICK h \in Headers \ hdrs : hdr' = h /\ hdrs' = hdrs \cup {h}
      BY <1>6 DEF UseBuffer
    <2>2. hdr = NULL /\ pc' = "param"
      BY <1>6 DEF UseBuffer, UseStarts, HeadersInv, CallHeader
    <2> QED
      BY <1>2, <1>3, <2>1, <2>2 DEF CallHeader, Using
  <1>7. CASE AllocateBuffer
    BY <1>2, <1>3, <1>7 DEF AllocateBuffer, HeadersInv, CallHeader, Using
  <1>8. CASE UsePrepare \/ ListenerAnswer
    <2>1. UNCHANGED <<hdr, hdrs>>
      BY <1>8 DEF UsePrepare, ListenerAnswer, resources
    <2>2. \/ pc \in Using /\ pc' \in Using
          \/ pc = "xgive" /\ pc' = "gotgive"
          \/ pc = "xfree" /\ pc' = "gotfree"
      <3>1. CASE UsePrepare
        BY <3>1 DEF UsePrepare, Send, Using
      <3>2. CASE ListenerAnswer
        <4>1. PICK w \in Woken : pc = w[1] /\ pc' = w[2]
          BY <3>2 DEF ListenerAnswer
        <4> QED
          BY <4>1 DEF Woken, Using
      <3> QED
        BY <1>8, <3>1, <3>2
    <2> QED
      BY <1>2, <1>3, <2>1, <2>2 DEF HeadersInv, CallHeader, Using
  <1>9. CASE GiveReturns
    <2>1. hdr \in Stored
      BY <1>9 DEF GiveReturns, HeadersInv, CallHeader
    <2> QED
      BY <1>2, <1>3, <1>9, <2>1, StoredNotNull
      DEF GiveReturns, resources, CallHeader, Using
  <1>10. CASE \E h \in Headers : GiveBuffer(h) \/ FreeBuffer(h)
    <2>1. PICK h \in Headers : GiveBuffer(h) \/ FreeBuffer(h)
      BY <1>10
    <2>2. /\ UNCHANGED hdrs /\ hdr' = h
          /\ pc = "idle" /\ pc' \in {"xgive", "xfree"}
      BY <2>1 DEF GiveBuffer, FreeBuffer, Send, resources
    <2>3. PICK s \in Slots : Find(h, s)
      BY <2>1 DEF GiveBuffer, FreeBuffer
    <2>4. h \in Stored
      BY <2>3 DEF Find, Stored, Occupied
    <2>5. hdr = NULL
      BY <2>2 DEF HeadersInv, CallHeader
    <2> QED
      BY <1>2, <1>3, <2>2, <2>4, <2>5, StoredNotNull DEF CallHeader, Using
  <1> QED
    BY <1>5, <1>6, <1>7, <1>8, <1>9, <1>10

\* The new header goes into the table and leaves the call.
LEMMA UseStoreHeaders ==
    ASSUME TableInv, HeadersInv, UseStore
    PROVE  HeadersInv'
  <1>1. /\ pBufHeader' = [pBufHeader EXCEPT ![slot] = hdr]
        /\ hdrs' = hdrs /\ hdr' = NULL /\ pc' = "idle"
        /\ pc = "gotuse"
    BY DEF UseStore, resources
  <1>2. slot \notin Occupied /\ Occupied' = Occupied \cup {slot}
    BY UseStoreTable
  <1>3. /\ hdr \in Headers /\ hdr \notin Stored
        /\ hdrs = Stored \cup {hdr}
    <2>1. hdr \in Headers /\ hdr \notin Stored
      BY <1>1 DEF TableInv, CallState, Using, HeadersInv, CallHeader
    <2> QED
      BY <2>1 DEF HeadersInv, HeadersOwned, Stored
  <1>4. /\ pBufHeader'[slot] = hdr
        /\ \A s \in Occupied : pBufHeader'[s] = pBufHeader[s]
    <2>1. slot \in Slots /\ Occupied \subseteq Slots
      BY DEF TableInv, TableTypes, SlotTable, Occupied, InTable, Slots
    <2> QED
      BY <1>1, <1>2, <2>1 DEF TableInv, TableTypes
  <1>5. Stored' = Stored \cup {hdr}
    BY <1>2, <1>4 DEF Stored
  <1>6. Distinct'
    BY <1>2, <1>3, <1>4 DEF HeadersInv, Distinct, Stored
  <1>7. HeadersOwned'
    BY <1>1, <1>3, <1>5 DEF HeadersOwned, Stored
  <1> QED
    BY <1>1, <1>6, <1>7 DEF HeadersInv, CallHeader, Using

\* The header leaves both the heap and the table; no other slot has it.
LEMMA FreeFinishHeaders ==
    ASSUME TableInv, HeadersInv, FreeFinish
    PROVE  HeadersInv'
  <1>1. /\ pBufHeader' = [pBufHeader EXCEPT ![slot] = NULL]
        /\ hdrs' = hdrs \ {hdr} /\ hdr' = NULL /\ pc' = "idle"
        /\ pc = "gotfree"
    BY DEF FreeFinish, ClearSlot
  <1>2. slot \in Occupied /\ Occupied' = Occupied \ {slot}
    BY FreeFinishTable
  <1>3. pBufHeader[slot] = hdr
    BY <1>1 DEF TableInv, CallState, Freeing
  <1>4. \A s \in Occupied' : pBufHeader'[s] = pBufHeader[s]
    <2>1. slot \in Slots /\ Occupied \subseteq Slots
      BY DEF TableInv, TableTypes, SlotTable, Occupied, InTable, Slots
    <2> QED
      BY <1>1, <1>2, <2>1 DEF TableInv, TableTypes
  <1>5. Stored' = Stored \ {hdr}
    BY <1>2, <1>3, <1>4 DEF HeadersInv, Distinct, Stored
  <1>6. Distinct'
    BY <1>2, <1>4 DEF HeadersInv, Distinct
  <1>7. hdr \in Stored /\ hdrs = Stored
    <2>1. hdr \in Stored
      BY <1>2, <1>3 DEF Stored
    <2> QED
      BY <2>1 DEF HeadersInv, HeadersOwned, Stored
  <1>8. HeadersOwned'
    BY <1>1, <1>5, <1>7 DEF HeadersOwned, Stored
  <1> QED
    BY <1>1, <1>6, <1>8 DEF HeadersInv, CallHeader, Using

\* PROXY_ComponentDeInit frees every header of the table, which is all of them.
LEMMA DeInitHeaders ==
    ASSUME TableInv, HeadersInv, ComponentDeInit
    PROVE  HeadersInv'
  <1>1. /\ pc = "idle" /\ hdr = NULL
        /\ UNCHANGED <<pc, hdr, nTotalBuffers>>
        /\ hdrs' = hdrs \ Stored
    BY DEF ComponentDeInit, HeadersInv, CallHeader, Stored
  <1>2. pBufHeader' = [s \in Slots |-> IF s \in Occupied THEN NULL ELSE pBufHeader[s]]
    BY DEF ComponentDeInit
  <1>3. InTable \subseteq Slots
    BY DEF TableInv, TableTypes, SlotTable, InTable, Slots
  <1>4. Occupied' = {}
    BY <1>1, <1>2, <1>3 DEF Occupied, InTable
  <1>5. hdrs' = {}
    BY <1>1 DEF HeadersInv, HeadersOwned, Stored
  <1> QED
    BY <1>1, <1>4, <1>5
    DEF HeadersInv, Distinct, CallHeader, HeadersOwned, Stored, Using

\* Every step keeps the headers accounted for.
LEMMA NextHeaders == TableInv /\ HeadersInv /\ [Next]_vars => HeadersInv'
  <1> SUFFICES ASSUME TableInv, HeadersInv, [Next]_vars PROVE HeadersInv'
    OBVIOUS
  <1>1. CASE \/ AllocateBuffer \/ UseRefused \/ UseBuffer \/ UsePrepare
             \/ UsePrepareFails \/ UseFails \/ GiveReturns \/ ListenerAnswer
             \/ \E h \in Headers : GiveBuffer(h) \/ FreeBuffer(h)
    BY <1>1, HeadersMove
  <1>2. CASE UseStore
    BY <1>2, UseStoreHeaders
  <1>3. CASE FreeFinish
    BY <1>3, FreeFinishHeaders
  <1>4. CASE ComponentDeInit
    BY <1>4, DeInitHeaders
  <1>5. CASE \/ RemoteUses \/ RemoteTakes \/ RemoteFrees \/ RemoteAnswers
             \/ \E r \in Remotes : RemoteDone(r)
             \/ BufferDone \/ BufferDoneUnknown
             \/ InstanceDeInit \/ Gone \/ UNCHANGED vars
    <2>1. UNCHANGED <<pBufHeader, nTotalBuffers, hdr, pc, hdrs>>
      BY <1>5 DEF table, resources, vars, RemoteUses, RemoteTakes, RemoteFrees,
                  RemoteAnswers, RemoteDone, BufferDone, BufferDoneUnknown,
                  InstanceDeInit, Gone
    <2>2. Stored' = Stored /\ Distinct'
      BY <2>1, StoredFrame DEF HeadersInv
    <2>3. HeadersOwned'
      BY <2>1, <2>2 DEF HeadersInv, HeadersOwned, Stored
    <2> QED
      BY <2>1, <2>2, <2>3 DEF HeadersInv, CallHeader
  <1> QED
    BY <1>1, <1>2, <1>3, <1>4, <1>5 DEF Next

(***************************************************************************)
(* Whatever calls fail half-way, no buffer header is leaked or freed while *)
(* the table still has it: the error exit of PROXY_UseBuffer,              *)
(* PROXY_FreeBuffer and PROXY_ComponentDeInit together account for each.   *)
(***************************************************************************)
THEOREM HeadersAccounted == Spec => []HeadersOwned
  <1>1. Init => TableInv /\ HeadersInv
    BY InitTable, InitHeaders
  <1>2. TableInv /\ HeadersInv /\ [Next]_vars => (TableInv /\ HeadersInv)'
    BY NextTable, NextHeaders
  <1>3. HeadersInv => HeadersOwned
    BY DEF HeadersInv
  <1> QED
    BY <1>1, <1>2, <1>3, PTL DEF Spec

-----------------------------------------------------------------------------
(***************************************************************************)
(* The remote's buffers: what is on the way in the queue, who has a buffer *)
(* and how far a call has got.                                             *)
(***************************************************************************)
Answer == [kind |-> "answer", buf |-> NULL]

Done(r) == [kind |-> "done", buf |-> r]

\* What the remote sends.
Sent == {Answer} \cup {Done(r) : r \in Remotes}

Has(q, m) == \E i \in 1 .. Len(q) : q[i] = m

\* The remote has the buffer, or it is on its way back.
Out(r) == r \in remoteOwned \/ Has(inbox, Done(r))

\* The remote has executed the call.
Executed == call \in {"executed", "answered"} \/ pc \in {"gotuse", "gotgive", "gotfree"}

Giving == {"xgive", "gotgive"}

\* The call, not the client or the remote, has the buffer of slot.
Held == pc \in Freeing \/ (pc \in Giving /\ res = NULL)

LinkTypes ==
    /\ pBufHeaderRemote \in [Slots -> Remotes \cup {NULL}]
    /\ res \in Remotes \cup {NULL}
    /\ remoteOwned \subseteq remoteBufs /\ remoteBufs \subseteq Remotes
    /\ call \in {"none", "sent", "executed", "answered"}
    /\ inbox \in Seq(Sent)
    /\ localOf \in [Remotes -> Headers \cup {NULL}]
    /\ nFaults \in 0 .. MaxFaults

\* A call has one answer, and a result once it was executed.
Protocol ==
    /\ call # "none" <=> pc \in {"xuse", "xgive", "xfree"}
    /\ Has(inbox, Answer) <=> call = "answered"
    /\ ~Executed \/ pc \in Freeing => res = NULL
    /\ nFaults = 0 /\ Executed /\ pc \in Using => res # NULL
    /\ pc \in Giving => slot \in Occupied /\ pBufHeader[slot] = hdr

\* The messages on the way are different, and so are those still to be sent.
QueueOnce ==
    /\ \A i, j \in 1 .. Len(inbox) : inbox[i] = inbox[j] => i = j
    /\ \A r \in remoteOwned : ~Has(inbox, Done(r))

\* Slots and remote buffers belong together.
Linked ==
    /\ \A s \in Slots : pBufHeaderRemote[s] # NULL <=> s \in Occupied
    /\ \A s, t \in Occupied : pBufHeaderRemote[s] = pBufHeaderRemote[t] => s = t
    /\ \A s \in Occupied : localOf[pBufHeaderRemote[s]] = pBufHeader[s]
    /\ \A s \in Occupied : \/ pBufHeaderRemote[s] \in remoteBufs
                           \/ pc \in Freeing /\ Executed /\ s = slot
    /\ pc \in Using /\ res # NULL =>
         /\ res \in remoteBufs /\ localOf[res] = hdr
         /\ \A s \in Occupied : pBufHeaderRemote[s] # res

\* One of client, call and remote has a buffer.
Custody ==
    /\ clientHas \subseteq Stored
    /\ Held => hdr \notin clientHas
    /\ life = "running" =>
         \A r \in Remotes : Out(r) =>
            \E s \in Occupied : /\ pBufHeaderRemote[s] = r
                                /\ pBufHeader[s] \notin clientHas
                                /\ ~(Held /\ s = slot)

LinkInv == LinkTypes /\ Protocol /\ QueueOnce /\ Linked /\ Custody

\* A message is added to the end of the queue.
LEMMA QueuePush ==
    ASSUME NEW S, NEW q \in Seq(S), NEW m \in S
    PROVE  /\ Append(q, m) \in Seq(S)
           /\ \A x : Has(Append(q, m), x) <=> Has(q, x) \/ x = m
           /\ ~Has(q, m) /\ (\A i, j \in 1 .. Len(q) : q[i] = q[j] => i = j) =>
                \A i, j \in 1 .. Len(Append(q, m)) :
                    Append(q, m)[i] = Append(q, m)[j] => i = j
  <1> DEFINE p == Append(q, m)
  <1>1. /\ Len(p) = Len(q) + 1 /\ p[Len(q) + 1] = m /\ \A i \in 1 .. Len(q) : p[i] = q[i]
        /\ Len(q) \in Nat /\ p \in Seq(S)
    OBVIOUS
  <1> HIDE DEF p
  <1>2. \A i \in 1 .. Len(p) : i \in 1 .. Len(q) \/ i = Len(q) + 1
    BY <1>1
  <1>3. 1 .. Len(q) \subseteq 1 .. Len(p) /\ Len(q) + 1 \in 1 .. Len(p)
    BY <1>1
  <1>4. ASSUME NEW x PROVE Has(p, x) <=> Has(q, x) \/ x = m
    BY <1>1, <1>2, <1>3 DEF Has
  <1>5. ASSUME ~Has(q, m), \A i, j \in 1 .. Len(q) : q[i] = q[j] => i = j,
               NEW i \in 1 .. Len(p), NEW j \in 1 .. Len(p), p[i] = p[j]
        PROVE  i = j
    BY <1>1, <1>2, <1>5 DEF Has
  <1> QED
    BY <1>1, <1>4, <1>5 DEF p

\* The first message is taken from the queue.
LEMMA QueuePop ==
    ASSUME NEW S, NEW q \in Seq(S), q # <<>>,
           \A i, j \in 1 .. Len(q) : q[i] = q[j] => i = j
    PROVE  /\ Tail(q) \in Seq(S) /\ Head(q) \in S /\ Has(q, Head(q))
           /\ \A x : Has(Tail(q), x) <=> Has(q, x) /\ x # Head(q)
           /\ \A i, j \in 1 .. Len(Tail(q)) : Tail(q)[i] = Tail(q)[j] => i = j
  <1> DEFINE p == Tail(q)
  <1>1. /\ Len(p) = Len(q) - 1 /\ \A i \in 1 .. Len(q) - 1 : p[i] = q[i + 1]
        /\ Len(q) \in Nat /\ p \in Seq(S) /\ Head(q) = q[1] /\ 1 \in 1 .. Len(q)
        /\ Head(q) \in S
    OBVIOUS
  <1> HIDE DEF p
  <1>2. \A i \in 1 .. Len(p) : i + 1 \in 1 .. Len(q) /\ p[i] = q[i + 1] /\ i + 1 # 1
    BY <1>1
  <1>3. \A i \in 1 .. Len(q) : i # 1 => i - 1 \in 1 .. Len(p) /\ p[i - 1] = q[i]
    BY <1>1
  <1>4. ASSUME NEW x PROVE Has(p, x) <=> Has(q, x) /\ x # Head(q)
    <2>1. ASSUME Has(p, x) PROVE Has(q, x) /\ x # Head(q)
      <3>1. PICK i \in 1 .. Len(p) : p[i] = x
        BY <2>1 DEF Has
      <3>2. i + 1 \in 1 .. Len(q) /\ q[i + 1] = x /\ i + 1 # 1
        BY <1>2, <3>1
      <3> QED
        BY <1>1, <3>2 DEF Has
    <2>2. ASSUME Has(q, x), x # Head(q) PROVE Has(p, x)
      <3>1. PICK i \in 1 .. Len(q) : q[i] = x
        BY <2>2 DEF Has
      <3>2. i - 1 \in 1 .. Len(p) /\ p[i - 1] = x
        BY <1>1, <1>3, <2>2, <3>1
      <3> QED
        BY <3>2 DEF Has
    <2> QED
      BY <2>1, <2>2
  <1>5. ASSUME NEW i \in 1 .. Len(p), NEW j \in 1 .. Len(p), p[i] = p[j]
        PROVE  i = j
    <2>1. i + 1 = j + 1
      BY <1>2, <1>5
    <2> QED
      BY <2>1
  <1>6. Has(q, Head(q))
    BY <1>1 DEF Has
  <1> QED
    BY <1>1, <1>4, <1>5, <1>6 DEF p

\* The occupied slots depend on the headers in them and the total alone.
LEMMA OccupiedFrame ==
    ASSUME UNCHANGED <<pBufHeader, nTotalBuffers>>
    PROVE  Occupied' = Occupied /\ Stored' = Stored
  BY DEF Stored, Occupied, InTable

\* Messages of the two kinds differ, and so do those of different buffers.
LEMMA MessageFacts ==
    /\ Sent \subseteq Messages
    /\ Answer \in Sent /\ Answer.kind = "answer"
    /\ \A r \in Remotes : Done(r) \in Sent /\ Done(r) # Answer
    /\ \A r \in Remotes : Done(r).kind = "done" /\ Done(r).buf = r
    /\ \A r, t \in Remotes : Done(r) = Done(t) => r = t
    /\ \A m \in Sent :
         m = Answer \/ (m.kind = "done" /\ m.buf \in Remotes /\ m = Done(m.buf))
  <1>1. /\ Answer.kind = "answer" /\ Answer \in Messages
        /\ \A r \in Remotes : /\ Done(r).kind = "done" /\ Done(r).buf = r
                              /\ Done(r) \in Messages
    BY DEF Answer, Done, Messages
  <1>2. \A m \in Sent : m = Answer \/ \E r \in Remotes : m = Done(r)
    BY DEF Sent
  <1>3. Answer \in Sent /\ \A r \in Remotes : Done(r) \in Sent
    BY DEF Sent
  <1>4. \A r \in Remotes : Done(r) # Answer
    BY <1>1
  <1>5. \A r, t \in Remotes : Done(r) = Done(t) => r = t
    BY <1>1
  <1>6. ASSUME NEW m \in Sent
        PROVE  m = Answer \/ (m.kind = "done" /\ m.buf \in Remotes /\ m = Done(m.buf))
    BY <1>1, <1>2
  <1>7. Sent \subseteq Messages
    BY <1>1, <1>2
  <1> QED
    BY <1>1, <1>3, <1>4, <1>5, <1>6, <1>7

\* The remote has nothing at the start.
LEMMA InitLink == Init => LinkInv
  <1> SUFFICES ASSUME Init PROVE LinkInv
    OBVIOUS
  <1>1. Occupied = {}
    BY DEF Init, Occupied, InTable
  <1>2. LinkTypes
    BY FaultsAssumption DEF Init, LinkTypes, Slots
  <1>3. \A m : ~Has(inbox, m)
    BY DEF Init, Has
  <1>4. ~Executed /\ ~Held
    BY DEF Init, Executed, Held, Freeing, Giving
  <1>5. Protocol
    BY <1>3, <1>4 DEF Init, Protocol, Giving, Freeing, Using
  <1>6. QueueOnce
    BY DEF Init, QueueOnce
  <1>7. Linked
    BY <1>1 DEF Init, Linked, Using
  <1>8. Custody
    BY <1>3, <1>4 DEF Init, Custody, Out
  <1> QED
    BY <1>2, <1>5, <1>6, <1>7, <1>8 DEF LinkInv

-----------------------------------------------------------------------------
\* The steps of PROXY_UseBuffer that do not speak to the remote.
LEMMA LinkLocal ==
    ASSUME LinkInv, UNCHANGED <<table, res, remoteVars, clientHas, life, localOf>>,
           \/ pc \in {"idle", "enter", "param"}
           \/ pc = "gotuse" /\ res = NULL,
           pc' \in {"idle", "enter", "param"}, nFaults' \in 0 .. MaxFaults
    PROVE  LinkInv'
  <1>1. Occupied' = Occupied /\ Stored' = Stored
    BY OccupiedFrame DEF table
  <1>2. call = "none" /\ call' = "none" /\ res = NULL /\ res' = NULL
    BY DEF LinkInv, LinkTypes, Protocol, Executed, remoteVars
  <1>3. ~Executed' /\ ~Held /\ ~Held'
    BY <1>2 DEF Executed, Held, Freeing, Giving
  <1>4. LinkTypes'
    BY DEF LinkInv, LinkTypes, table, remoteVars
  <1>5. Protocol'
    BY <1>2, <1>3 DEF LinkInv, Protocol, Freeing, Giving, Using, remoteVars
  <1>6. QueueOnce'
    BY DEF LinkInv, QueueOnce, remoteVars
  <1>7. Linked'
    <2>1. pc \notin Freeing
      BY DEF Freeing
    <2> QED
      BY <1>1, <1>2, <2>1 DEF LinkInv, Linked, table, remoteVars
  <1>8. Custody'
    BY <1>1, <1>3 DEF LinkInv, Custody, Out, table, remoteVars
  <1> QED
    BY <1>4, <1>5, <1>6, <1>7, <1>8 DEF LinkInv

\* The steps of PROXY_UseBuffer before its call change nothing remote.
LEMMA UseStepsLink ==
    ASSUME LinkInv,
           AllocateBuffer \/ UseRefused \/ UseBuffer \/ UsePrepareFails \/ UseFails
    PROVE  LinkInv'
  <1>1. UNCHANGED <<table, res, remoteVars, clientHas, life, localOf>>
    BY DEF AllocateBuffer, UseRefused, UseBuffer, UsePrepareFails, UseFails, history
  <1>2. /\ pc' \in {"idle", "enter", "param"}
        /\ \/ pc \in {"idle", "enter", "param"}
           \/ pc = "gotuse" /\ res = NULL
    BY DEF AllocateBuffer, UseRefused, UseBuffer, UsePrepareFails, UseFails, UseStarts,
           UseExits
  <1>3. nFaults' = nFaults \/ (nFaults < MaxFaults /\ nFaults' = nFaults + 1)
    BY DEF AllocateBuffer, UseRefused, UseBuffer, UsePrepareFails, UseFails, Fault
  <1>4. nFaults' \in 0 .. MaxFaults
    BY <1>3, FaultsAssumption DEF LinkInv, LinkTypes
  <1> QED
    BY <1>1, <1>2, <1>4, LinkLocal

\* The call goes out, for a new buffer or one the client has.
LEMMA UsePrepareLink ==
    ASSUME LinkInv, UsePrepare
    PROVE  LinkInv'
  <1>1. /\ UNCHANGED <<table, slot, hdr, res, remoteBufs, remoteOwned, inbox, clientHas,
                       life, nFaults, localOf>>
        /\ pc = "param" /\ pc' = "xuse" /\ call' = "sent"
    BY DEF UsePrepare, Send, history
  <1>2. Occupied' = Occupied /\ Stored' = Stored
    BY <1>1, OccupiedFrame DEF table
  <1>3. call = "none" /\ res = NULL /\ res' = NULL
    BY <1>1 DEF LinkInv, LinkTypes, Protocol, Executed
  <1>4. ~Executed' /\ ~Held /\ ~Held'
    BY <1>1, <1>3 DEF Executed, Held, Freeing, Giving
  <1>5. LinkTypes'
    BY <1>1 DEF LinkInv, LinkTypes, table
  <1>6. Protocol'
    BY <1>1, <1>3, <1>4 DEF LinkInv, Protocol, Freeing, Giving, Using
  <1>7. QueueOnce'
    BY <1>1 DEF LinkInv, QueueOnce
  <1>8. Linked'
    <2>1. pc \notin Freeing
      BY <1>1 DEF Freeing
    <2> QED
      BY <1>1, <1>2, <1>3, <2>1 DEF LinkInv, Linked, table
  <1>9. Custody'
    BY <1>1, <1>2, <1>4 DEF LinkInv, Custody, Out, table
  <1> QED
    BY <1>5, <1>6, <1>7, <1>8, <1>9 DEF LinkInv

\* The client gives or frees a buffer it has, which is in the table.
LEMMA LookupLink ==
    ASSUME TableInv, LinkInv, NEW h \in Headers, GiveBuffer(h) \/ FreeBuffer(h)
    PROVE  LinkInv'
  <1>1. /\ UNCHANGED <<table, res, remoteBufs, remoteOwned, inbox, life, nFaults, localOf>>
        /\ pc = "idle" /\ pc' \in {"xgive", "xfree"} /\ call' = "sent"
        /\ hdr' = h /\ h \in clientHas /\ clientHas' = clientHas \ {h}
    BY DEF GiveBuffer, FreeBuffer, Send, history
  <1>2. Occupied' = Occupied /\ Stored' = Stored
    BY <1>1, OccupiedFrame DEF table
  <1>3. call = "none" /\ res = NULL /\ res' = NULL
    BY <1>1 DEF LinkInv, LinkTypes, Protocol, Executed
  <1>4. ~Executed' /\ ~Held /\ Held'
    BY <1>1, <1>3 DEF Executed, Held, Freeing, Giving
  <1>5. slot' \in Occupied /\ pBufHeader[slot'] = h
    <2>1. PICK s \in Slots : Find(h, s) /\ slot' = s
      BY DEF GiveBuffer, FreeBuffer
    <2> QED
      BY <2>1 DEF Find, Occupied
  <1>6. LinkTypes'
    BY <1>1 DEF LinkInv, LinkTypes, table
  <1>7. Protocol'
    BY <1>1, <1>2, <1>3, <1>4, <1>5 DEF LinkInv, Protocol, Freeing, Giving, Using, table
  <1>8. QueueOnce'
    BY <1>1 DEF LinkInv, QueueOnce
  <1>9. Linked'
    <2>1. pc \notin Freeing
      BY <1>1 DEF Freeing
    <2> QED
      BY <1>1, <1>2, <1>3, <2>1 DEF LinkInv, Linked, table
  <1>10. Custody'
    BY <1>1, <1>2, <1>4, <1>5 DEF LinkInv, Custody, Out, table
  <1> QED
    BY <1>6, <1>7, <1>8, <1>9, <1>10 DEF LinkInv

\* The remote did not take the buffer: the client has it again.
LEMMA GiveReturnsLink ==
    ASSUME TableInv, HeadersInv, LinkInv, GiveReturns
    PROVE  LinkInv'
  <1>1. /\ UNCHANGED <<table, remoteVars, life, nFaults, localOf>>
        /\ pc = "gotgive" /\ pc' = "idle" /\ res' = NULL
        /\ clientHas' = IF res = NULL THEN clientHas \cup {hdr} ELSE clientHas
    BY DEF GiveReturns, history
  <1>2. Occupied' = Occupied /\ Stored' = Stored
    BY <1>1, OccupiedFrame DEF table
  <1>3. call = "none" /\ call' = "none"
    BY <1>1 DEF LinkInv, LinkTypes, Protocol, remoteVars
  <1>4. ~Executed' /\ ~Held' /\ (Held <=> res = NULL)
    BY <1>1, <1>3 DEF Executed, Held, Freeing, Giving
  <1>5. slot \in Occupied /\ pBufHeader[slot] = hdr /\ hdr \in Stored
    BY <1>1 DEF LinkInv, Protocol, Giving, Stored
  <1>6. LinkTypes'
    BY <1>1 DEF LinkInv, LinkTypes, table, remoteVars
  <1>7. Protocol'
    BY <1>1, <1>3, <1>4 DEF LinkInv, Protocol, Freeing, Giving, Using, remoteVars
  <1>8. QueueOnce'
    BY <1>1 DEF LinkInv, QueueOnce, remoteVars
  <1>9. Linked'
    <2>1. pc \notin Freeing
      BY <1>1 DEF Freeing
    <2> QED
      BY <1>1, <1>2, <2>1 DEF LinkInv, Linked, table, remoteVars
  <1>10. Custody'
    BY <1>1, <1>2, <1>4, <1>5 DEF LinkInv, Custody, Out, table, remoteVars, HeadersInv,
                                  Distinct
  <1> QED
    BY <1>6, <1>7, <1>8, <1>9, <1>10 DEF LinkInv

\* The new buffer enters the table; the client has it.
LEMMA UseStoreLink ==
    ASSUME TableInv, HeadersInv, LinkInv, UseStore
    PROVE  LinkInv'
  <1>1. /\ pc = "gotuse" /\ pc' = "idle" /\ res # NULL /\ res' = NULL
        /\ pBufHeader' = [pBufHeader EXCEPT ![slot] = hdr]
        /\ pBufHeaderRemote' = [pBufHeaderRemote EXCEPT ![slot] = res]
        /\ clientHas' = clientHas \cup {hdr}
        /\ UNCHANGED <<remoteVars, life, nFaults, localOf>>
    BY DEF UseStore
  <1>2. /\ slot \notin Occupied /\ Occupied' = Occupied \cup {slot}
        /\ slot \in Slots /\ Occupied \subseteq Slots
    BY UseStoreTable DEF TableInv, TableTypes, SlotTable, Occupied, InTable, Slots
  <1>3. /\ pBufHeader'[slot] = hdr /\ pBufHeaderRemote'[slot] = res
        /\ \A s \in Slots \ {slot} : /\ pBufHeader'[s] = pBufHeader[s]
                                     /\ pBufHeaderRemote'[s] = pBufHeaderRemote[s]
    BY <1>1, <1>2 DEF TableInv, TableTypes, LinkInv, LinkTypes
  <1>4. Stored' = Stored \cup {hdr} /\ hdr \notin Stored
    <2>1. hdr \notin Stored
      BY <1>1 DEF HeadersInv, CallHeader, Using
    <2> QED
      BY <1>2, <1>3, <2>1 DEF Stored
  <1>5. call = "none" /\ call' = "none"
    BY <1>1 DEF LinkInv, LinkTypes, Protocol, remoteVars
  <1>6. ~Executed' /\ ~Held' /\ ~Held
    BY <1>1, <1>5 DEF Executed, Held, Freeing, Giving
  <1>7. /\ res \in remoteBufs /\ localOf[res] = hdr
        /\ \A s \in Occupied : pBufHeaderRemote[s] # res
    BY <1>1 DEF LinkInv, Linked, Using
  <1>8. LinkTypes'
    BY <1>1 DEF LinkInv, LinkTypes, remoteVars
  <1>9. Protocol'
    BY <1>1, <1>5, <1>6 DEF LinkInv, Protocol, Freeing, Giving, Using, remoteVars
  <1>10. QueueOnce'
    BY <1>1 DEF LinkInv, QueueOnce, remoteVars
  <1>11. Linked'
    <2>1. pc \notin Freeing /\ pc' \notin Using /\ remoteBufs' = remoteBufs
      BY <1>1 DEF Freeing, Using, remoteVars
    <2> QED
      BY <1>1, <1>2, <1>3, <1>7, <2>1 DEF LinkInv, Linked
  <1>12. Custody'
    <2>1. clientHas' \subseteq Stored'
      BY <1>1, <1>4 DEF LinkInv, Custody
    <2>2. ASSUME life' = "running", NEW r \in Remotes, Out(r)'
          PROVE  \E s \in Occupied' : pBufHeaderRemote'[s] = r /\ pBufHeader'[s] \notin clientHas'
      <3>1. Out(r) /\ life = "running"
        BY <1>1, <2>2 DEF Out, remoteVars
      <3>2. PICK s \in Occupied : pBufHeaderRemote[s] = r /\ pBufHeader[s] \notin clientHas
        BY <3>1 DEF LinkInv, Custody
      <3>3. pBufHeader[s] \in Stored
        BY DEF Stored
      <3>4. s \in Slots \ {slot} /\ s \in Occupied'
        BY <1>2
      <3> QED
        BY <1>1, <1>3, <1>4, <3>2, <3>3, <3>4
    <2> QED
      BY <1>6, <2>1, <2>2 DEF Custody
  <1> QED
    BY <1>8, <1>9, <1>10, <1>11, <1>12 DEF LinkInv

\* The buffer leaves the table; nobody has it.
LEMMA FreeFinishLink ==
    ASSUME TableInv, HeadersInv, LinkInv, FreeFinish
    PROVE  LinkInv'
  <1>1. /\ pc = "gotfree" /\ pc' = "idle" /\ res' = NULL
        /\ pBufHeader' = [pBufHeader EXCEPT ![slot] = NULL]
        /\ pBufHeaderRemote' = [pBufHeaderRemote EXCEPT ![slot] = NULL]
        /\ UNCHANGED <<remoteVars, life, nFaults, localOf, clientHas>>
    BY DEF FreeFinish, ClearSlot, history
  <1>2. /\ slot \in Occupied /\ Occupied' = Occupied \ {slot}
        /\ slot \in Slots /\ Occupied \subseteq Slots
    BY FreeFinishTable DEF TableInv, TableTypes, SlotTable, Occupied, InTable, Slots
  <1>3. /\ pBufHeaderRemote'[slot] = NULL
        /\ \A s \in Slots \ {slot} : /\ pBufHeader'[s] = pBufHeader[s]
                                     /\ pBufHeaderRemote'[s] = pBufHeaderRemote[s]
    BY <1>1, <1>2 DEF TableInv, TableTypes, LinkInv, LinkTypes
  <1>4. pBufHeader[slot] = hdr
    BY <1>1 DEF TableInv, CallState, Freeing
  <1>5. call = "none" /\ call' = "none"
    BY <1>1 DEF LinkInv, LinkTypes, Protocol, remoteVars
  <1>6. ~Executed' /\ ~Held' /\ Held
    BY <1>1, <1>5 DEF Executed, Held, Freeing, Giving
  <1>7. LinkTypes'
    BY <1>1 DEF LinkInv, LinkTypes, remoteVars
  <1>8. Protocol'
    BY <1>1, <1>5, <1>6 DEF LinkInv, Protocol, Freeing, Giving, Using, remoteVars
  <1>9. QueueOnce'
    BY <1>1 DEF LinkInv, QueueOnce, remoteVars
  <1>10. Linked'
    <2>1. pc' \notin Freeing /\ pc' \notin Using /\ remoteBufs' = remoteBufs
      BY <1>1 DEF Freeing, Using, remoteVars
    <2> QED
      BY <1>1, <1>2, <1>3, <2>1 DEF LinkInv, Linked
  <1>11. Custody'
    <2>1. clientHas' \subseteq Stored'
      <3>1. ASSUME NEW h \in clientHas PROVE h \in Stored'
        <4>1. PICK s \in Occupied : pBufHeader[s] = h
          BY DEF LinkInv, Custody, Stored
        <4>2. s # slot
          BY <1>4, <1>6, <4>1 DEF LinkInv, Custody
        <4> QED
          BY <1>2, <1>3, <4>1, <4>2 DEF Stored
      <3> QED
        BY <1>1, <3>1
    <2>2. ASSUME life' = "running", NEW r \in Remotes, Out(r)'
          PROVE  \E s \in Occupied' : pBufHeaderRemote'[s] = r /\ pBufHeader'[s] \notin clientHas'
      <3>1. Out(r) /\ life = "running"
        BY <1>1, <2>2 DEF Out, remoteVars
      <3>2. PICK s \in Occupied : /\ pBufHeaderRemote[s] = r /\ pBufHeader[s] \notin clientHas
                                  /\ s # slot
        BY <1>6, <3>1 DEF LinkInv, Custody
      <3> QED
        BY <1>1, <1>2, <1>3, <3>2
    <2> QED
      BY <1>6, <2>1, <2>2 DEF Custody
  <1> QED
    BY <1>7, <1>8, <1>9, <1>10, <1>11 DEF LinkInv

-----------------------------------------------------------------------------
(***************************************************************************)
(* The remote executes a call.                                             *)
(***************************************************************************)
LEMMA RemoteUsesLink ==
    ASSUME TableInv, LinkInv, RemoteUses
    PROVE  LinkInv'
  <1>1. /\ pc = "xuse" /\ call = "sent" /\ call' = "executed"
        /\ UNCHANGED <<table, pc, slot, hdr, remoteOwned, inbox, clientHas, life>>
    BY DEF RemoteUses, Execute
  <1>2. Occupied' = Occupied /\ Stored' = Stored
    BY <1>1, OccupiedFrame DEF table
  <1>3. Executed' /\ ~Held' /\ ~Held
    BY <1>1 DEF Executed, Held, Freeing, Giving
  <1>4. \/ /\ nFaults' = nFaults
           /\ \E r \in Remotes \ remoteBufs :
                /\ remoteBufs' = remoteBufs \cup {r}
                /\ localOf' = [localOf EXCEPT ![r] = hdr]
                /\ res' = r
        \/ /\ nFaults < MaxFaults /\ nFaults' = nFaults + 1 /\ res' = NULL
           /\ UNCHANGED <<remoteBufs, localOf>>
    BY DEF RemoteUses, Fault
  <1>5. LinkTypes'
    <2>1. nFaults' \in 0 .. MaxFaults
      BY <1>4, FaultsAssumption DEF LinkInv, LinkTypes
    <2>2. hdr \in Headers
      BY <1>1 DEF TableInv, CallState, Using
    <2> QED
      BY <1>1, <1>4, <2>1, <2>2 DEF LinkInv, LinkTypes, table
  <1>6. Protocol'
    <2>1. nFaults' = 0 => res' # NULL
      BY <1>4 DEF LinkInv, LinkTypes
    <2> QED
      BY <1>1, <1>3, <2>1 DEF LinkInv, Protocol, Freeing, Giving, Using
  <1>7. QueueOnce'
    BY <1>1 DEF LinkInv, QueueOnce
  <1>8. Linked'
    <2>1. pc \notin Freeing
      BY <1>1 DEF Freeing
    <2>2. \A s \in Occupied : pBufHeaderRemote[s] \in remoteBufs
      BY <2>1 DEF LinkInv, Linked
    <2>3. CASE nFaults' = nFaults
      <3>1. PICK r \in Remotes \ remoteBufs :
                /\ remoteBufs' = remoteBufs \cup {r}
                /\ localOf' = [localOf EXCEPT ![r] = hdr]
                /\ res' = r
        BY <1>4, <2>3 DEF LinkInv, LinkTypes
      <3>2. localOf'[r] = hdr /\ \A q \in remoteBufs : localOf'[q] = localOf[q]
        BY <3>1 DEF LinkInv, LinkTypes
      <3> QED
        BY <1>1, <1>2, <2>2, <3>1, <3>2 DEF LinkInv, Linked, table
    <2>4. CASE nFaults' # nFaults
      BY <1>1, <1>2, <1>4, <2>2, <2>4 DEF LinkInv, Linked, table
    <2> QED
      BY <2>3, <2>4
  <1>9. Custody'
    BY <1>1, <1>2, <1>3 DEF LinkInv, Custody, Out, table
  <1> QED
    BY <1>5, <1>6, <1>7, <1>8, <1>9 DEF LinkInv

\* It takes the buffer from the call, or leaves it there.
LEMMA RemoteTakesLink ==
    ASSUME TableInv, LinkInv, RemoteTakes
    PROVE  LinkInv'
  <1> DEFINE r == pBufHeaderRemote[slot]
  <1>1. /\ pc = "xgive" /\ call = "sent" /\ call' = "executed"
        /\ UNCHANGED <<table, pc, slot, hdr, remoteBufs, inbox, clientHas, life, localOf>>
    BY DEF RemoteTakes, Execute, history
  <1>2. Occupied' = Occupied /\ Stored' = Stored
    BY <1>1, OccupiedFrame DEF table
  <1>3. /\ slot \in Occupied /\ pBufHeader[slot] = hdr
        /\ Occupied \subseteq Slots
    BY <1>1 DEF LinkInv, Protocol, Giving, TableInv, TableTypes, SlotTable, Occupied,
                InTable, Slots
  <1>4. \/ /\ nFaults' = nFaults
           /\ remoteOwned' = remoteOwned \cup {r}
           /\ res' = r
        \/ /\ nFaults < MaxFaults /\ nFaults' = nFaults + 1 /\ res' = NULL
           /\ remoteOwned' = remoteOwned
    BY DEF RemoteTakes, Fault
  <1>5. r \in remoteBufs /\ r \in Remotes /\ r # NULL
    <2>1. pc \notin Freeing
      BY <1>1 DEF Freeing
    <2> QED
      BY <1>3, <2>1 DEF LinkInv, Linked, LinkTypes
  <1>6. /\ res = NULL /\ Held /\ Executed'
        /\ Held' <=> res' = NULL
    BY <1>1 DEF LinkInv, Protocol, Executed, Held, Freeing, Giving
  <1>7. life = "running"
    BY <1>1 DEF TableInv, CallState
  <1>8. ~Out(r)
    <2>1. ASSUME Out(r) PROVE FALSE
      <3>1. PICK s \in Occupied : pBufHeaderRemote[s] = r /\ s # slot
        BY <1>5, <1>6, <1>7, <2>1 DEF LinkInv, Custody
      <3> QED
        BY <1>3, <3>1 DEF LinkInv, Linked
    <2> QED
      BY <2>1
  <1> HIDE DEF r
  <1>9. LinkTypes'
    <2>1. nFaults' \in 0 .. MaxFaults
      BY <1>4, FaultsAssumption DEF LinkInv, LinkTypes
    <2> QED
      BY <1>1, <1>4, <1>5, <2>1 DEF LinkInv, LinkTypes, table
  <1>10. Protocol'
    BY <1>1, <1>2, <1>3, <1>6 DEF LinkInv, Protocol, Freeing, Giving, Using, table
  <1>11. QueueOnce'
    BY <1>1, <1>4, <1>8 DEF LinkInv, QueueOnce, Out
  <1>12. Linked'
    <2>1. pc \notin Freeing /\ pc' \notin Using
      BY <1>1 DEF Freeing, Using
    <2> QED
      BY <1>1, <1>2, <2>1 DEF LinkInv, Linked, table
  <1>13. Custody'
    <2>1. hdr' = hdr /\ hdr \notin clientHas /\ clientHas' = clientHas
      BY <1>1, <1>6 DEF LinkInv, Custody
    <2>2. ASSUME NEW q \in Remotes, Out(q)'
          PROVE  \E s \in Occupied' : /\ pBufHeaderRemote'[s] = q
                                      /\ pBufHeader'[s] \notin clientHas'
                                      /\ ~(Held' /\ s = slot')
      <3>1. Out(q) \/ (q = r /\ ~Held')
        BY <1>1, <1>4, <1>5, <1>6, <2>2 DEF Out
      <3>2. CASE Out(q)
        BY <1>1, <1>2, <1>6, <1>7, <2>1, <3>2 DEF LinkInv, Custody, table
      <3>3. CASE q = r /\ ~Held'
        BY <1>1, <1>2, <1>3, <2>1, <3>3 DEF table, r
      <3> QED
        BY <3>1, <3>2, <3>3
    <2> QED
      BY <1>2, <2>1, <2>2 DEF LinkInv, Custody
  <1> QED
    BY <1>9, <1>10, <1>11, <1>12, <1>13 DEF LinkInv

\* It frees the buffer the call has.
LEMMA RemoteFreesLink ==
    ASSUME TableInv, LinkInv, RemoteFrees
    PROVE  LinkInv'
  <1>1. /\ pc = "xfree" /\ call = "sent" /\ call' = "executed"
        /\ remoteBufs' = remoteBufs \ {pBufHeaderRemote[slot]}
        /\ UNCHANGED <<table, pc, slot, hdr, res, remoteOwned, inbox, clientHas, life,
                       nFaults, localOf>>
    BY DEF RemoteFrees, Execute, history
  <1>2. Occupied' = Occupied /\ Stored' = Stored
    BY <1>1, OccupiedFrame DEF table
  <1>3. slot \in Occupied
    BY <1>1 DEF TableInv, CallState, Freeing, Occupied
  <1>4. Held /\ Held' /\ Executed' /\ ~Executed
    BY <1>1 DEF Held, Freeing, Executed
  <1>5. life = "running"
    BY <1>1 DEF TableInv, CallState
  <1>6. pBufHeaderRemote[slot] \notin remoteOwned
    <2>1. ASSUME pBufHeaderRemote[slot] \in remoteOwned PROVE FALSE
      <3>1. PICK s \in Occupied : pBufHeaderRemote[s] = pBufHeaderRemote[slot] /\ s # slot
        BY <1>4, <1>5, <2>1 DEF LinkInv, LinkTypes, Custody, Out
      <3> QED
        BY <1>3, <3>1 DEF LinkInv, Linked
    <2> QED
      BY <2>1
  <1>7. LinkTypes'
    BY <1>1, <1>6 DEF LinkInv, LinkTypes, table
  <1>8. Protocol'
    BY <1>1, <1>4 DEF LinkInv, Protocol, Freeing, Giving, Using
  <1>9. QueueOnce'
    BY <1>1 DEF LinkInv, QueueOnce
  <1>10. Linked'
    <2>1. pc' \in Freeing /\ pc' \notin Using /\ slot' = slot
      BY <1>1 DEF Freeing, Using
    <2>2. \A s \in Occupied : pBufHeaderRemote[s] \in remoteBufs
      BY <1>4 DEF LinkInv, Linked
    <2>3. \A s \in Occupied : s # slot => pBufHeaderRemote[s] \in remoteBufs'
      BY <1>1, <1>3, <2>2 DEF LinkInv, Linked
    <2> QED
      BY <1>1, <1>2, <1>4, <2>1, <2>3 DEF LinkInv, Linked, table
  <1>11. Custody'
    BY <1>1, <1>2, <1>4 DEF LinkInv, Custody, Out, table
  <1> QED
    BY <1>7, <1>8, <1>9, <1>10, <1>11 DEF LinkInv

-----------------------------------------------------------------------------
(***************************************************************************)
(* Messages are sent and received.                                         *)
(***************************************************************************)
LEMMA RemoteAnswersLink ==
    ASSUME LinkInv, RemoteAnswers
    PROVE  LinkInv'
  <1>1. /\ call = "executed" /\ call' = "answered" /\ inbox' = Append(inbox, Answer)
        /\ UNCHANGED <<table, pc, slot, hdr, res, remoteBufs, remoteOwned, clientHas,
                       life, nFaults, localOf>>
    BY DEF RemoteAnswers, Answer, history
  <1>2. Occupied' = Occupied /\ Stored' = Stored
    BY <1>1, OccupiedFrame DEF table
  <1>3. (Executed' <=> Executed) /\ (Held' <=> Held)
    BY <1>1 DEF Executed, Held
  <1>4. ~Has(inbox, Answer) /\ inbox \in Seq(Sent)
    BY <1>1 DEF LinkInv, LinkTypes, Protocol
  <1>5. /\ inbox' \in Seq(Sent)
        /\ \A x : Has(inbox', x) <=> Has(inbox, x) \/ x = Answer
        /\ \A i, j \in 1 .. Len(inbox') : inbox'[i] = inbox'[j] => i = j
    BY <1>1, <1>4, QueuePush, MessageFacts DEF LinkInv, QueueOnce
  <1>6. \A r \in Remotes : Has(inbox', Done(r)) <=> Has(inbox, Done(r))
    BY <1>5, MessageFacts
  <1>7. LinkTypes'
    BY <1>1, <1>5 DEF LinkInv, LinkTypes, table
  <1>8. Protocol'
    <2>1. Has(inbox', Answer)
      BY <1>5
    <2> QED
      BY <1>1, <1>2, <1>3, <2>1 DEF LinkInv, Protocol, table
  <1>9. QueueOnce'
    BY <1>1, <1>5, <1>6 DEF LinkInv, LinkTypes, QueueOnce
  <1>10. Linked'
    BY <1>1, <1>2, <1>3 DEF LinkInv, Linked, table
  <1>11. Custody'
    BY <1>1, <1>2, <1>3, <1>6 DEF LinkInv, Custody, Out, table
  <1> QED
    BY <1>7, <1>8, <1>9, <1>10, <1>11 DEF LinkInv

\* The remote returns a buffer: one message for it.
LEMMA RemoteDoneLink ==
    ASSUME LinkInv, NEW r \in Remotes, RemoteDone(r)
    PROVE  LinkInv'
  <1>1. /\ r \in remoteOwned /\ remoteOwned' = remoteOwned \ {r}
        /\ inbox' = Append(inbox, Done(r))
        /\ UNCHANGED <<table, pc, slot, hdr, res, remoteBufs, call, clientHas,
                       life, nFaults, localOf>>
    BY DEF RemoteDone, Done, history
  <1>2. Occupied' = Occupied /\ Stored' = Stored
    BY <1>1, OccupiedFrame DEF table
  <1>3. (Executed' <=> Executed) /\ (Held' <=> Held)
    BY <1>1 DEF Executed, Held
  <1>4. ~Has(inbox, Done(r)) /\ inbox \in Seq(Sent)
    BY <1>1 DEF LinkInv, LinkTypes, QueueOnce
  <1>5. /\ inbox' \in Seq(Sent)
        /\ \A x : Has(inbox', x) <=> Has(inbox, x) \/ x = Done(r)
        /\ \A i, j \in 1 .. Len(inbox') : inbox'[i] = inbox'[j] => i = j
    BY <1>1, <1>4, QueuePush, MessageFacts DEF LinkInv, QueueOnce
  <1>6. /\ \A q \in Remotes : Has(inbox', Done(q)) <=> Has(inbox, Done(q)) \/ q = r
        /\ Has(inbox', Answer) <=> Has(inbox, Answer)
    BY <1>5, MessageFacts
  <1>7. LinkTypes'
    BY <1>1, <1>5 DEF LinkInv, LinkTypes, table
  <1>8. Protocol'
    BY <1>1, <1>2, <1>3, <1>6 DEF LinkInv, Protocol, table
  <1>9. QueueOnce'
    BY <1>1, <1>5, <1>6 DEF LinkInv, LinkTypes, QueueOnce
  <1>10. Linked'
    BY <1>1, <1>2, <1>3 DEF LinkInv, Linked, table
  <1>11. Custody'
    <2>1. \A q \in Remotes : Out(q)' => Out(q)
      BY <1>1, <1>6 DEF Out
    <2> QED
      BY <1>1, <1>2, <1>3, <2>1 DEF LinkInv, Custody, table
  <1> QED
    BY <1>7, <1>8, <1>9, <1>10, <1>11 DEF LinkInv

\* The head of the queue is taken.
LEMMA ReceiveFacts ==
    ASSUME LinkInv, NEW kind, Receive(kind)
    PROVE  /\ inbox' \in Seq(Sent) /\ Head(inbox) \in Sent
           /\ Head(inbox).kind = kind /\ Has(inbox, Head(inbox))
           /\ \A x : Has(inbox', x) <=> Has(inbox, x) /\ x # Head(inbox)
           /\ \A i, j \in 1 .. Len(inbox') : inbox'[i] = inbox'[j] => i = j
  BY QueuePop DEF Receive, LinkInv, LinkTypes, QueueOnce

\* The answer of the call reaches its stub.
LEMMA ListenerAnswerLink ==
    ASSUME LinkInv, ListenerAnswer
    PROVE  LinkInv'
  <1>1. /\ call' = "none"
        /\ UNCHANGED <<table, slot, hdr, res, remoteBufs, remoteOwned, clientHas,
                       life, nFaults, localOf>>
        /\ Receive("answer")
    BY DEF ListenerAnswer, history
  <1>2. \/ pc = "xuse" /\ pc' = "gotuse"
        \/ pc = "xgive" /\ pc' = "gotgive"
        \/ pc = "xfree" /\ pc' = "gotfree"
    <2>1. PICK w \in Woken : pc = w[1] /\ pc' = w[2]
      BY DEF ListenerAnswer
    <2> QED
      BY <2>1 DEF Woken
  <1>3. Occupied' = Occupied /\ Stored' = Stored
    BY <1>1, OccupiedFrame DEF table
  <1>4. /\ inbox' \in Seq(Sent) /\ Head(inbox) \in Sent
        /\ Head(inbox).kind = "answer" /\ Has(inbox, Head(inbox))
        /\ \A x : Has(inbox', x) <=> Has(inbox, x) /\ x # Head(inbox)
        /\ \A i, j \in 1 .. Len(inbox') : inbox'[i] = inbox'[j] => i = j
    BY <1>1, ReceiveFacts
  <1>5. Head(inbox) = Answer
    BY <1>4, MessageFacts
  <1>6. call = "answered" /\ ~Has(inbox', Answer)
    BY <1>4, <1>5 DEF LinkInv, Protocol
  <1>7. \A q \in Remotes : Has(inbox', Done(q)) <=> Has(inbox, Done(q))
    BY <1>4, <1>5, MessageFacts
  <1>8. Executed /\ Executed' /\ (Held' <=> Held)
    BY <1>1, <1>2, <1>6 DEF Executed, Held, Freeing, Giving
  <1>9. LinkTypes'
    BY <1>1, <1>4 DEF LinkInv, LinkTypes, table
  <1>10. Protocol'
    BY <1>1, <1>2, <1>3, <1>6, <1>8
    DEF LinkInv, Protocol, table, Freeing, Using, Giving
  <1>11. QueueOnce'
    BY <1>1, <1>4, <1>7 DEF LinkInv, LinkTypes, QueueOnce
  <1>12. Linked'
    BY <1>1, <1>2, <1>3, <1>8 DEF LinkInv, Linked, table, Freeing, Using
  <1>13. Custody'
    BY <1>1, <1>3, <1>7, <1>8 DEF LinkInv, Custody, Out, table
  <1> QED
    BY <1>9, <1>10, <1>11, <1>12, <1>13 DEF LinkInv

\* A buffer comes back: the slot it is found in is the one it was given from.
LEMMA BufferDoneLink ==
    ASSUME TableInv, HeadersInv, LinkInv, BufferDone
    PROVE  LinkInv'
  <1>1. /\ UNCHANGED <<table, pc, slot, hdr, res, remoteBufs, remoteOwned, call,
                       life, nFaults, localOf>>
        /\ Receive("done")
    BY DEF BufferDone, history
  <1>2. PICK s \in Slots : /\ FindRemote(Head(inbox).buf, s)
                           /\ clientHas' = clientHas \cup {pBufHeader[s]}
    BY DEF BufferDone, HandBack
  <1>3. Occupied' = Occupied /\ Stored' = Stored
    BY <1>1, OccupiedFrame DEF table
  <1>4. /\ inbox' \in Seq(Sent) /\ Head(inbox) \in Sent
        /\ Head(inbox).kind = "done" /\ Has(inbox, Head(inbox))
        /\ \A x : Has(inbox', x) <=> Has(inbox, x) /\ x # Head(inbox)
        /\ \A i, j \in 1 .. Len(inbox') : inbox'[i] = inbox'[j] => i = j
    BY <1>1, ReceiveFacts
  <1>5. PICK r \in Remotes : Head(inbox).buf = r /\ Head(inbox) = Done(r)
    BY <1>4, MessageFacts
  <1>6. /\ Has(inbox', Answer) <=> Has(inbox, Answer)
        /\ \A q \in Remotes : Has(inbox', Done(q)) <=> Has(inbox, Done(q)) /\ q # r
    BY <1>4, <1>5, MessageFacts
  <1>7. (Executed' <=> Executed) /\ (Held' <=> Held)
    BY <1>1 DEF Executed, Held
  <1>8. s \in Occupied /\ pBufHeaderRemote[s] = r
    <2>1. pBufHeaderRemote[s] = r
      BY <1>2, <1>5 DEF FindRemote
    <2> QED
      BY <1>2, <1>5, <2>1 DEF LinkInv, Linked
  <1>9. Out(r) /\ ~Out(r)'
    <2>1. Has(inbox, Done(r))
      BY <1>4, <1>5
    <2> QED
      BY <1>1, <1>5, <1>6, <2>1 DEF Out, LinkInv, QueueOnce
  <1>10. LinkTypes'
    BY <1>1, <1>4 DEF LinkInv, LinkTypes, table
  <1>11. Protocol'
    BY <1>1, <1>3, <1>6, <1>7 DEF LinkInv, Protocol, table
  <1>12. QueueOnce'
    BY <1>1, <1>4, <1>6 DEF LinkInv, LinkTypes, QueueOnce
  <1>13. Linked'
    BY <1>1, <1>3, <1>7 DEF LinkInv, Linked, table
  <1>14. Custody'
    <2>1. clientHas' \subseteq Stored
      BY <1>2, <1>8 DEF LinkInv, Custody, Stored
    <2>2. ASSUME Held PROVE hdr \notin clientHas'
      <3>1. life = "running" /\ slot \in Occupied /\ pBufHeader[slot] = hdr
        BY <2>2 DEF Held, Freeing, Giving, TableInv, CallState, LinkInv, Protocol, Occupied
      <3>2. PICK t \in Occupied : pBufHeaderRemote[t] = r /\ t # slot
        BY <1>5, <1>9, <2>2, <3>1 DEF LinkInv, Custody
      <3>3. t = s
        BY <1>8, <3>2 DEF LinkInv, Linked
      <3>4. pBufHeader[s] # hdr
        BY <1>8, <3>1, <3>2, <3>3 DEF HeadersInv, Distinct
      <3> QED
        BY <1>2, <2>2, <3>4 DEF LinkInv, Custody
    <2>3. ASSUME life = "running", NEW q \in Remotes, Out(q)'
          PROVE  \E t \in Occupied : /\ pBufHeaderRemote[t] = q
                                     /\ pBufHeader[t] \notin clientHas'
                                     /\ ~(Held /\ t = slot)
      <3>1. Out(q) /\ q # r
        BY <1>1, <1>6, <1>9, <2>3 DEF Out
      <3>2. PICK t \in Occupied : /\ pBufHeaderRemote[t] = q
                                  /\ pBufHeader[t] \notin clientHas
                                  /\ ~(Held /\ t = slot)
        BY <2>3, <3>1 DEF LinkInv, Custody
      <3>3. t # s
        BY <1>8, <3>1, <3>2
      <3>4. pBufHeader[t] # pBufHeader[s]
        BY <1>8, <3>3 DEF HeadersInv, Distinct
      <3> QED
        BY <1>2, <3>2, <3>4
    <2> QED
      BY <1>1, <1>3, <1>7, <2>1, <2>2, <2>3 DEF Custody, table
  <1> QED
    BY <1>10, <1>11, <1>12, <1>13, <1>14 DEF LinkInv

\* A message for no slot is dropped.
LEMMA UnknownLink ==
    ASSUME LinkInv, BufferDoneUnknown
    PROVE  LinkInv'
  <1>1. /\ UNCHANGED <<table, pc, slot, hdr, res, remoteBufs, remoteOwned, call,
                       clientHas, life, nFaults, localOf>>
        /\ Receive("done")
    BY DEF BufferDoneUnknown, history
  <1>2. Occupied' = Occupied /\ Stored' = Stored
    BY <1>1, OccupiedFrame DEF table
  <1>3. /\ inbox' \in Seq(Sent) /\ Head(inbox) \in Sent
        /\ Head(inbox).kind = "done"
        /\ \A x : Has(inbox', x) <=> Has(inbox, x) /\ x # Head(inbox)
        /\ \A i, j \in 1 .. Len(inbox') : inbox'[i] = inbox'[j] => i = j
    BY <1>1, ReceiveFacts
  <1>4. /\ Has(inbox', Answer) <=> Has(inbox, Answer)
        /\ \A q \in Remotes : Has(inbox', Done(q)) => Has(inbox, Done(q))
    BY <1>3, MessageFacts
  <1>5. (Executed' <=> Executed) /\ (Held' <=> Held)
    BY <1>1 DEF Executed, Held
  <1>6. LinkTypes'
    BY <1>1, <1>3 DEF LinkInv, LinkTypes, table
  <1>7. Protocol'
    BY <1>1, <1>2, <1>4, <1>5 DEF LinkInv, Protocol, table
  <1>8. QueueOnce'
    BY <1>1, <1>3, <1>4 DEF LinkInv, LinkTypes, QueueOnce
  <1>9. Linked'
    BY <1>1, <1>2, <1>5 DEF LinkInv, Linked, table
  <1>10. Custody'
    <2>1. \A q \in Remotes : Out(q)' => Out(q)
      BY <1>1, <1>4 DEF Out
    <2> QED
      BY <1>1, <1>2, <1>5, <2>1 DEF LinkInv, Custody, table
  <1> QED
    BY <1>6, <1>7, <1>8, <1>9, <1>10 DEF LinkInv

\* The table is emptied between calls.
LEMMA DeInitLink ==
    ASSUME TableInv, LinkInv, ComponentDeInit
    PROVE  LinkInv'
  <1>1. /\ pc = "idle" /\ clientHas' = {} /\ life' = "deinit"
        /\ pBufHeaderRemote' =
             [s \in Slots |-> IF s \in Occupied THEN NULL ELSE pBufHeaderRemote[s]]
        /\ pBufHeader' = [s \in Slots |-> IF s \in Occupied THEN NULL ELSE pBufHeader[s]]
        /\ UNCHANGED <<nTotalBuffers, pc, slot, hdr, res, remoteVars, nFaults, localOf>>
    BY DEF ComponentDeInit, history
  <1>2. Occupied' = {} /\ Occupied \subseteq Slots
    <2>1. InTable \subseteq Slots /\ InTable' = InTable
      BY <1>1 DEF TableInv, TableTypes, SlotTable, InTable, Slots
    <2> QED
      BY <1>1, <2>1 DEF Occupied
  <1>3. \A s \in Slots : pBufHeaderRemote'[s] = NULL
    BY <1>1 DEF LinkInv, Linked
  <1>4. (Executed' <=> Executed) /\ ~Held'
    BY <1>1 DEF Executed, Held, remoteVars, Freeing, Giving
  <1>5. LinkTypes'
    BY <1>1 DEF LinkInv, LinkTypes, remoteVars
  <1>6. Protocol'
    BY <1>1, <1>4 DEF LinkInv, Protocol, Giving, Using, Freeing, remoteVars
  <1>7. QueueOnce'
    BY <1>1 DEF LinkInv, QueueOnce, remoteVars
  <1>8. Linked'
    BY <1>1, <1>2, <1>3 DEF Linked, Using
  <1>9. Custody'
    BY <1>1, <1>4 DEF Custody
  <1> QED
    BY <1>5, <1>6, <1>7, <1>8, <1>9 DEF LinkInv

\* Nothing here changes, but the component may go.
LEMMA RestLink ==
    ASSUME LinkInv, InstanceDeInit \/ Gone \/ UNCHANGED vars
    PROVE  LinkInv'
  <1>1. /\ UNCHANGED <<table, pc, slot, hdr, res, remoteVars, clientHas, nFaults, localOf>>
        /\ life' = "running" => life = "running"
    BY DEF InstanceDeInit, Gone, vars, history
  <1>2. Occupied' = Occupied /\ Stored' = Stored
    BY <1>1, OccupiedFrame DEF table
  <1>3. (Executed' <=> Executed) /\ (Held' <=> Held)
    BY <1>1 DEF Executed, Held, remoteVars
  <1>4. LinkTypes' /\ QueueOnce'
    BY <1>1 DEF LinkInv, LinkTypes, QueueOnce, table, remoteVars
  <1>5. Protocol'
    BY <1>1, <1>2, <1>3 DEF LinkInv, Protocol, table, remoteVars
  <1>6. Linked'
    BY <1>1, <1>2, <1>3 DEF LinkInv, Linked, table, remoteVars
  <1>7. Custody'
    BY <1>1, <1>2, <1>3 DEF LinkInv, Custody, Out, table, remoteVars
  <1> QED
    BY <1>4, <1>5, <1>6, <1>7 DEF LinkInv

\* Every step keeps slots, remote buffers and messages together.
LEMMA NextLink == TableInv /\ HeadersInv /\ LinkInv /\ [Next]_vars => LinkInv'
  <1> SUFFICES ASSUME TableInv, HeadersInv, LinkInv, [Next]_vars PROVE LinkInv'
    OBVIOUS
  <1>1. CASE AllocateBuffer \/ UseRefused \/ UseBuffer \/ UsePrepareFails \/ UseFails
    BY <1>1, UseStepsLink
  <1>2. CASE UsePrepare \/ UseStore \/ GiveReturns \/ FreeFinish
    BY <1>2, UsePrepareLink, UseStoreLink, GiveReturnsLink, FreeFinishLink
  <1>3. CASE \E h \in Headers : GiveBuffer(h) \/ FreeBuffer(h)
    BY <1>3, LookupLink
  <1>4. CASE RemoteUses \/ RemoteTakes \/ RemoteFrees
    BY <1>4, RemoteUsesLink, RemoteTakesLink, RemoteFreesLink
  <1>5. CASE RemoteAnswers \/ \E r \in Remotes : RemoteDone(r)
    BY <1>5, RemoteAnswersLink, RemoteDoneLink
  <1>6. CASE ListenerAnswer \/ BufferDone \/ BufferDoneUnknown
    BY <1>6, ListenerAnswerLink, BufferDoneLink, UnknownLink
  <1>7. CASE ComponentDeInit
    BY <1>7, DeInitLink
  <1>8. CASE InstanceDeInit \/ Gone \/ UNCHANGED vars
    BY <1>8, RestLink
  <1> QED
    BY <1>1, <1>2, <1>3, <1>4, <1>5, <1>6, <1>7, <1>8 DEF Next

(***************************************************************************)
(* For tables of any size, whatever calls fail half-way: as long as the    *)
(* component is up, PROXY_EmptyBufferDone and PROXY_FillBufferDone find    *)
(* the buffer the remote returns, first match, under the header it was     *)
(* made for, which is still allocated.                                     *)
(***************************************************************************)
THEOREM DoneAlwaysFinds == Spec => []DoneFindsHeader
  <1>1. Init => TableInv /\ HeadersInv /\ LinkInv
    BY InitTable, InitHeaders, InitLink
  <1>2. TableInv /\ HeadersInv /\ LinkInv /\ [Next]_vars => (TableInv /\ HeadersInv /\ LinkInv)'
    BY NextTable, NextHeaders, NextLink
  <1>3. TableInv /\ HeadersInv /\ LinkInv => DoneFindsHeader
    <2> SUFFICES ASSUME TableInv, HeadersInv, LinkInv, life = "running",
                        NEW i \in DOMAIN inbox, inbox[i].kind = "done"
                 PROVE  \E s \in Slots : /\ FindRemote(inbox[i].buf, s)
                                         /\ pBufHeader[s] = localOf[inbox[i].buf]
                                         /\ pBufHeader[s] \in hdrs
      BY DEF DoneFindsHeader
    <2> DEFINE r == inbox[i].buf
    <2>1. i \in 1 .. Len(inbox) /\ inbox[i] \in Sent
      BY DEF LinkInv, LinkTypes
    <2>2. r \in Remotes /\ inbox[i] = Done(r)
      BY <2>1, MessageFacts
    <2> HIDE DEF r
    <2>3. Out(r)
      BY <2>1, <2>2 DEF Out, Has
    <2>4. PICK s \in Occupied : pBufHeaderRemote[s] = r
      BY <2>2, <2>3 DEF LinkInv, Custody
    <2>5. s \in Slots /\ s \in InTable /\ s \in Nat /\ InTable \subseteq Slots
      BY DEF TableInv, TableTypes, SlotTable, Occupied, InTable, Slots
    <2>6. \A e \in InTable : pBufHeaderRemote[e] = r => e = s
      BY <2>2, <2>4, <2>5 DEF LinkInv, Linked
    <2>7. FindRemote(r, s)
      BY <2>4, <2>5, <2>6 DEF FindRemote
    <2>8. pBufHeader[s] = localOf[r] /\ pBufHeader[s] \in hdrs
      BY <2>4 DEF LinkInv, Linked, HeadersInv, HeadersOwned
    <2> QED
      BY <2>5, <2>7, <2>8 DEF r
  <1> QED
    BY <1>1, <1>2, <1>3, PTL DEF Spec

-----------------------------------------------------------------------------
(***************************************************************************)
(* The memory of the slots.                                                *)
(***************************************************************************)
MemTypes ==
    /\ handle0 \in [Slots -> Memory \cup {NULL}]
    /\ newbuf \in Memory \cup {NULL}
    /\ open \subseteq Memory
    /\ memOf \in [Headers -> Memory \cup {NULL}]
    /\ pc \notin Using \cup {"enter"} => newbuf = NULL

Mem == {handle0[s] : s \in Occupied}

\* Memory lies outside the used slots only where the call will look for it, or for good.
Spare ==
    \A s \in Slots : s \notin Occupied /\ handle0[s] # NULL =>
        /\ handle0[s] = newbuf
        /\ pc = "enter" => FirstEmpty(s)
        /\ pc \in Using => s = slot

\* Until a call fails, memory is in one place.
MemRight ==
    /\ open = (Mem \cup {newbuf}) \ {NULL}
    /\ \A s, t \in Occupied : handle0[s] = handle0[t] => s = t \/ handle0[s] = NULL
    /\ newbuf # NULL => newbuf \notin Mem
    /\ \A s \in Occupied : handle0[s] = memOf[pBufHeader[s]]
    /\ pc \in Using => handle0[slot] = newbuf
    /\ pc = "enter" => \E s \in Slots : FirstEmpty(s) /\ handle0[s] = newbuf
    /\ nTotalBuffers < MAX => Spare

MemInv == MemTypes /\ (nFaults = 0 => MemRight)

\* There is one first empty slot, and it is not occupied.
LEMMA FirstEmptyFacts ==
    ASSUME TableInv, NEW s \in Slots, FirstEmpty(s)
    PROVE  /\ s \notin Occupied
           /\ \A t \in Slots : FirstEmpty(t) => t = s
  <1>1. nTotalBuffers \in Nat /\ InTable \subseteq Nat
    BY DEF TableInv, TableTypes, InTable
  <1>2. CASE Empty = {}
    BY <1>1, <1>2 DEF FirstEmpty, Occupied, InTable
  <1>3. CASE Empty # {}
    <2>1. Empty \subseteq Nat
      BY <1>1 DEF Empty
    <2>2. s \in Empty /\ \A e \in Empty : s <= e
      BY <1>3 DEF FirstEmpty
    <2>3. ASSUME NEW t \in Slots, FirstEmpty(t) PROVE t = s
      <3>1. t \in Empty /\ \A e \in Empty : t <= e
        BY <1>3, <2>3 DEF FirstEmpty
      <3>2. t <= s /\ s <= t /\ s \in Nat /\ t \in Nat
        BY <2>1, <2>2, <3>1
      <3> QED
        BY <3>2
    <2> QED
      BY <2>2, <2>3 DEF Empty, Occupied
  <1> QED
    BY <1>2, <1>3

\* Which slot is the first empty one depends on the slots alone.
LEMMA EmptyFrame ==
    ASSUME UNCHANGED <<pBufHeader, nTotalBuffers>>, NEW s
    PROVE  FirstEmpty(s)' <=> FirstEmpty(s)
  BY DEF FirstEmpty, Empty, InTable

\* No memory is allocated at the start.
LEMMA InitMem == Init => MemInv
  <1> SUFFICES ASSUME Init PROVE MemInv
    OBVIOUS
  <1>1. Occupied = {}
    BY DEF Init, Occupied, InTable
  <1>2. MemTypes
    BY DEF Init, MemTypes, Slots
  <1>3. MemRight
    BY <1>1 DEF Init, MemRight, Mem, Spare, Using
  <1> QED
    BY <1>2, <1>3 DEF MemInv

\* The call moves on and the memory stays.
LEMMA MemFrame ==
    ASSUME MemInv, UNCHANGED <<pBufHeader, nTotalBuffers, handle0, newbuf, open, memOf>>,
           nFaults' = 0 => nFaults = 0,
           \/ UNCHANGED <<pc, slot>>
           \/ pc \in Using /\ pc' \in Using /\ UNCHANGED slot
           \/ pc \notin Using \cup {"enter"} /\ pc' \notin Using \cup {"enter"}
    PROVE  MemInv'
  <1>1. Occupied' = Occupied /\ Mem' = Mem
    BY OccupiedFrame DEF Mem
  <1>2. \A s : FirstEmpty(s)' <=> FirstEmpty(s)
    BY EmptyFrame
  <1>3. MemTypes'
    BY DEF MemInv, MemTypes
  <1>4. pc' = "enter" => pc = "enter"
    BY DEF Using
  <1>5. pc' \in Using => pc \in Using /\ slot' = slot
    OBVIOUS
  <1>6. Spare => Spare'
    BY <1>1, <1>2, <1>4, <1>5 DEF Spare
  <1>7. MemRight => MemRight'
    BY <1>1, <1>2, <1>4, <1>5, <1>6 DEF MemRight
  <1> QED
    BY <1>3, <1>7 DEF MemInv

\* PROXY_AllocateBuffer puts new memory where PROXY_UseBuffer will look.
LEMMA AllocateMem ==
    ASSUME TableInv, MemInv, AllocateBuffer
    PROVE  MemInv'
  <1>1. PICK s \in Slots, m \in Memory \ open :
            /\ FirstEmpty(s) /\ handle0' = [handle0 EXCEPT ![s] = m]
            /\ open' = open \cup {m} /\ newbuf' = m
    BY DEF AllocateBuffer
  <1>2. /\ pc = "idle" /\ pc' = "enter"
        /\ UNCHANGED <<pBufHeader, nTotalBuffers, slot, memOf, nFaults>>
    BY DEF AllocateBuffer, table, history
  <1>3. Occupied' = Occupied /\ Occupied \subseteq Slots
    BY <1>2, OccupiedFrame DEF TableInv, TableTypes, SlotTable, Occupied, InTable, Slots
  <1>4. s \notin Occupied /\ m # NULL /\ newbuf = NULL
    BY <1>1, <1>2, FirstEmptyFacts DEF MemInv, MemTypes, Using
  <1>5. handle0'[s] = m /\ \A t \in Slots \ {s} : handle0'[t] = handle0[t]
    BY <1>1 DEF MemInv, MemTypes
  <1>6. Mem' = Mem
    BY <1>3, <1>4, <1>5 DEF Mem
  <1>7. FirstEmpty(s)'
    BY <1>1, <1>2, EmptyFrame
  <1>8. MemTypes'
    BY <1>1, <1>2 DEF MemInv, MemTypes
  <1>9. ASSUME MemRight PROVE MemRight'
    <2>1. m \notin Mem
      BY <1>1, <1>4, <1>9 DEF MemRight
    <2>2. open' = (Mem \cup {m}) \ {NULL}
      BY <1>1, <1>4, <1>9 DEF MemRight
    <2>3. \A t \in Occupied : handle0'[t] = handle0[t]
      BY <1>3, <1>4, <1>5
    <2>4. nTotalBuffers < MAX => Spare'
      <3>1. ASSUME nTotalBuffers < MAX, NEW t \in Slots, t \notin Occupied, handle0'[t] # NULL
            PROVE  t = s
        BY <1>4, <1>5, <1>9, <3>1 DEF MemRight, Spare
      <3>2. pc' \notin Using
        BY <1>2 DEF Using
      <3> QED
        BY <1>1, <1>3, <1>5, <1>7, <3>1, <3>2 DEF Spare
    <2>5. pc' \notin Using
      BY <1>2 DEF Using
    <2> QED
      BY <1>1, <1>2, <1>3, <1>5, <1>6, <1>7, <1>9, <2>1, <2>2, <2>3, <2>4, <2>5 DEF MemRight
  <1> QED
    BY <1>2, <1>8, <1>9 DEF MemInv

\* PROXY_UseBuffer finds the slot PROXY_AllocateBuffer has used.
LEMMA UseBufferMem ==
    ASSUME TableInv, MemInv, UseBuffer
    PROVE  MemInv'
  <1>1. PICK s \in Slots : FirstEmpty(s) /\ slot' = s
    BY DEF UseBuffer
  <1>2. /\ pc \in {"idle", "enter"} /\ pc' = "param"
        /\ UNCHANGED <<pBufHeader, nTotalBuffers, handle0, newbuf, open, memOf, nFaults>>
    BY DEF UseBuffer, UseStarts, table, accessors, history
  <1>3. Occupied' = Occupied /\ Mem' = Mem
    BY <1>2, OccupiedFrame DEF Mem
  <1>4. nTotalBuffers < MAX
    BY DEF UseBuffer, TableFull, TableInv, TableTypes
  <1>5. MemTypes'
    BY <1>2 DEF MemInv, MemTypes, Using
  <1>6. s \notin Occupied /\ \A t \in Slots : FirstEmpty(t) => t = s
    BY <1>1, FirstEmptyFacts
  <1>7. ASSUME MemRight PROVE MemRight'
    <2>1. CASE pc = "idle"
      <3>1. newbuf = NULL
        BY <2>1 DEF MemInv, MemTypes, Using
      <3>2. \A t \in Slots : t \notin Occupied => handle0[t] = NULL
        BY <1>4, <1>7, <3>1 DEF MemRight, Spare
      <3>3. Spare'
        BY <1>2, <1>3, <3>2 DEF Spare
      <3> QED
        BY <1>1, <1>2, <1>3, <1>6, <1>7, <3>1, <3>2, <3>3 DEF MemRight
    <2>2. CASE pc = "enter"
      <3>1. handle0[s] = newbuf
        BY <1>6, <1>7, <2>2 DEF MemRight
      <3>2. Spare'
        BY <1>1, <1>2, <1>3, <1>4, <1>6, <1>7, <2>2 DEF MemRight, Spare
      <3> QED
        BY <1>1, <1>2, <1>3, <1>7, <3>1, <3>2 DEF MemRight
    <2> QED
      BY <1>2, <2>1, <2>2
  <1> QED
    BY <1>2, <1>5, <1>7 DEF MemInv

\* The error exits: the memory is freed; the slot keeps it when the table is full.
LEMMA ExitMem ==
    ASSUME TableInv, LinkInv, MemInv, UseRefused \/ UsePrepareFails \/ UseFails
    PROVE  MemInv'
  <1>1. /\ UNCHANGED <<pBufHeader, nTotalBuffers, handle0, memOf>>
        /\ pc' = "idle" /\ newbuf' = NULL /\ open' = open \ {newbuf}
    BY DEF UseRefused, UsePrepareFails, UseFails, UseExits, table, accessors, history
  <1>2. Occupied' = Occupied /\ Mem' = Mem
    BY <1>1, OccupiedFrame DEF Mem
  <1>3. MemTypes'
    BY <1>1 DEF MemInv, MemTypes, Using
  <1>4. CASE UseRefused
    <2>1. nTotalBuffers >= MAX /\ nTotalBuffers \in Nat /\ nFaults' = nFaults
      BY <1>4 DEF UseRefused, TableFull, TableInv, TableTypes
    <2>2. ~(nTotalBuffers < MAX)
      BY <2>1
    <2>3. ASSUME MemRight PROVE MemRight'
      <3>1. open' = (Mem' \cup {newbuf'}) \ {NULL}
        BY <1>1, <1>2, <2>3 DEF MemRight
      <3>2. pc' \notin Using /\ pc' # "enter"
        BY <1>1 DEF Using
      <3> QED
        BY <1>1, <1>2, <2>2, <2>3, <3>1, <3>2 DEF MemRight
    <2> QED
      BY <1>3, <2>1, <2>3 DEF MemInv
  <1>5. CASE UsePrepareFails
    <2>1. nFaults' # 0
      BY <1>5 DEF UsePrepareFails, Fault, LinkInv, LinkTypes
    <2> QED
      BY <1>3, <2>1 DEF MemInv
  <1>6. CASE UseFails
    <2>1. nFaults # 0 /\ nFaults' = nFaults
      BY <1>6 DEF UseFails, LinkInv, Protocol, Executed, Using
    <2> QED
      BY <1>3, <2>1 DEF MemInv
  <1> QED
    BY <1>4, <1>5, <1>6

\* The header and the memory of the call meet in the slot.
LEMMA UseStoreMem ==
    ASSUME TableInv, HeadersInv, MemInv, UseStore
    PROVE  MemInv'
  <1>1. /\ pc = "gotuse" /\ pc' = "idle" /\ newbuf' = NULL
        /\ pBufHeader' = [pBufHeader EXCEPT ![slot] = hdr]
        /\ memOf' = [memOf EXCEPT ![hdr] = newbuf]
        /\ UNCHANGED <<handle0, open, nFaults, slot>>
    BY DEF UseStore, accessors, resources
  <1>2. /\ slot \notin Occupied /\ Occupied' = Occupied \cup {slot}
        /\ slot \in Slots /\ Occupied \subseteq Slots
    BY UseStoreTable DEF TableInv, TableTypes, SlotTable, Occupied, InTable, Slots
  <1>3. /\ pBufHeader'[slot] = hdr
        /\ \A s \in Occupied : pBufHeader'[s] = pBufHeader[s]
    BY <1>1, <1>2 DEF TableInv, TableTypes
  <1>4. /\ hdr \in Headers /\ nTotalBuffers < MAX
        /\ \A s \in Occupied : pBufHeader[s] # hdr
        /\ \A s \in Occupied : pBufHeader[s] \in Headers
    BY <1>1, <1>2 DEF TableInv, TableTypes, CallState, Using, HeadersInv, CallHeader, Stored,
                Occupied
  <1>5. /\ memOf'[hdr] = newbuf
        /\ \A h \in Headers \ {hdr} : memOf'[h] = memOf[h]
    BY <1>1, <1>4 DEF MemInv, MemTypes
  <1>6. MemTypes'
    BY <1>1 DEF MemInv, MemTypes
  <1>7. ASSUME MemRight PROVE MemRight'
    <2>1. handle0[slot] = newbuf
      BY <1>1, <1>7 DEF MemRight, Using
    <2>2. Mem' = Mem \cup {newbuf}
      BY <1>1, <1>2, <2>1 DEF Mem
    <2>3. \A s \in Occupied' : handle0'[s] = memOf'[pBufHeader'[s]]
      BY <1>1, <1>2, <1>3, <1>4, <1>5, <1>7, <2>1 DEF MemRight
    <2>4. \A s, t \in Occupied' : handle0'[s] = handle0'[t] => s = t \/ handle0'[s] = NULL
      BY <1>1, <1>2, <1>7, <2>1 DEF MemRight, Mem
    <2>5. Spare'
      <3>1. \A t \in Slots : t \notin Occupied' => handle0[t] = NULL
        BY <1>1, <1>2, <1>4, <1>7 DEF MemRight, Spare, Using
      <3> QED
        BY <1>1, <3>1 DEF Spare
    <2>6. open' = (Mem' \cup {newbuf'}) \ {NULL}
      BY <1>1, <1>7, <2>2 DEF MemRight
    <2>7. pc' \notin Using /\ pc' # "enter"
      BY <1>1 DEF Using
    <2> QED
      BY <1>1, <2>3, <2>4, <2>5, <2>6, <2>7 DEF MemRight
  <1> QED
    BY <1>1, <1>6, <1>7 DEF MemInv

\* The slot's memory is freed with it; no other slot has it.
LEMMA FreeFinishMem ==
    ASSUME TableInv, MemInv, FreeFinish
    PROVE  MemInv'
  <1>1. /\ pc = "gotfree" /\ pc' = "idle" /\ open' = open \ {handle0[slot]}
        /\ pBufHeader' = [pBufHeader EXCEPT ![slot] = NULL]
        /\ handle0' = [handle0 EXCEPT ![slot] = NULL]
        /\ UNCHANGED <<nTotalBuffers, newbuf, nFaults, memOf>>
    BY DEF FreeFinish, ClearSlot, history
  <1>2. /\ slot \in Occupied /\ Occupied' = Occupied \ {slot}
        /\ slot \in Slots /\ Occupied \subseteq Slots
    BY FreeFinishTable DEF TableInv, TableTypes, SlotTable, Occupied, InTable, Slots
  <1>3. /\ handle0'[slot] = NULL
        /\ \A s \in Slots \ {slot} : /\ handle0'[s] = handle0[s]
                                     /\ pBufHeader'[s] = pBufHeader[s]
    BY <1>1, <1>2 DEF TableInv, TableTypes, MemInv, MemTypes
  <1>4. newbuf = NULL
    BY <1>1 DEF MemInv, MemTypes, Using
  <1>5. MemTypes'
    BY <1>1, <1>4 DEF MemInv, MemTypes
  <1>6. ASSUME MemRight PROVE MemRight'
    <2>1. open' = (Mem' \cup {newbuf'}) \ {NULL}
      <3>1. \A s \in Occupied' : handle0'[s] = handle0[s] /\ s # slot /\ s \in Occupied
        BY <1>2, <1>3
      <3>2. Mem' \subseteq Mem /\ \A m \in Mem : m = handle0[slot] \/ m \in Mem'
        BY <1>2, <3>1 DEF Mem
      <3>3. handle0[slot] # NULL => handle0[slot] \notin Mem'
        BY <1>2, <1>6, <3>1 DEF MemRight, Mem
      <3> QED
        BY <1>1, <1>4, <1>6, <3>2, <3>3 DEF MemRight
    <2>2. nTotalBuffers < MAX => Spare'
      <3>1. ASSUME nTotalBuffers < MAX, NEW t \in Slots, t \notin Occupied'
            PROVE  handle0'[t] = NULL
        BY <1>2, <1>3, <1>4, <1>6, <3>1 DEF MemRight, Spare
      <3> QED
        BY <3>1 DEF Spare
    <2>3. pc' \notin Using /\ pc' # "enter"
      BY <1>1 DEF Using
    <2> QED
      BY <1>1, <1>2, <1>3, <1>4, <1>6, <2>1, <2>2, <2>3 DEF MemRight
  <1> QED
    BY <1>1, <1>5, <1>6 DEF MemInv

\* PROXY_ComponentDeInit frees the memory of the slots in use.
LEMMA DeInitMem ==
    ASSUME TableInv, MemInv, ComponentDeInit
    PROVE  MemInv'
  <1>1. /\ pc = "idle" /\ pc' = "idle" /\ open' = open \ Mem
        /\ pBufHeader' = [s \in Slots |-> IF s \in Occupied THEN NULL ELSE pBufHeader[s]]
        /\ handle0' = [s \in Slots |-> IF s \in Occupied THEN NULL ELSE handle0[s]]
        /\ UNCHANGED <<nTotalBuffers, newbuf, nFaults, memOf>>
    BY DEF ComponentDeInit, history, Mem
  <1>2. Occupied' = {} /\ Occupied \subseteq Slots
    <2>1. InTable \subseteq Slots /\ InTable' = InTable
      BY <1>1 DEF TableInv, TableTypes, SlotTable, InTable, Slots
    <2> QED
      BY <1>1, <2>1 DEF Occupied
  <1>3. newbuf = NULL
    BY <1>1 DEF MemInv, MemTypes, Using
  <1>4. MemTypes'
    BY <1>1, <1>3 DEF MemInv, MemTypes
  <1>5. ASSUME MemRight PROVE MemRight'
    <2>1. Mem' = {} /\ open' = {}
      BY <1>1, <1>2, <1>3, <1>5 DEF MemRight, Mem
    <2>2. nTotalBuffers < MAX => Spare'
      BY <1>1, <1>3, <1>5 DEF MemRight, Spare, Using
    <2> QED
      BY <1>1, <1>2, <1>3, <2>1, <2>2 DEF MemRight, Using
  <1> QED
    BY <1>1, <1>4, <1>5 DEF MemInv

\* Every step keeps the memory where its header is.
LEMMA NextMem ==
    TableInv /\ HeadersInv /\ LinkInv /\ MemInv /\ [Next]_vars => MemInv'
  <1> SUFFICES ASSUME TableInv, HeadersInv, LinkInv, MemInv, [Next]_vars PROVE MemInv'
    OBVIOUS
  <1>1. CASE AllocateBuffer \/ UseBuffer
    BY <1>1, AllocateMem, UseBufferMem
  <1>2. CASE UseRefused \/ UsePrepareFails \/ UseFails
    BY <1>2, ExitMem
  <1>3. CASE UseStore \/ FreeFinish \/ ComponentDeInit
    BY <1>3, UseStoreMem, FreeFinishMem, DeInitMem
  <1>4. CASE UsePrepare
    <2>1. /\ UNCHANGED <<pBufHeader, nTotalBuffers, handle0, newbuf, open, memOf, nFaults, slot>>
          /\ pc \in Using /\ pc' \in Using
      BY <1>4 DEF UsePrepare, Send, table, history, Using
    <2> QED
      BY <2>1, MemFrame
  <1>5. CASE GiveReturns \/ \E h \in Headers : GiveBuffer(h) \/ FreeBuffer(h)
    <2>1. /\ UNCHANGED <<pBufHeader, nTotalBuffers, handle0, newbuf, open, memOf, nFaults>>
          /\ pc \notin Using \cup {"enter"} /\ pc' \notin Using \cup {"enter"}
      BY <1>5 DEF GiveReturns, GiveBuffer, FreeBuffer, Send, table, accessors, resources,
                  history, Using
    <2> QED
      BY <2>1, MemFrame
  <1>6. CASE ListenerAnswer
    <2>1. UNCHANGED <<pBufHeader, nTotalBuffers, handle0, newbuf, open, memOf, nFaults, slot>>
      BY <1>6 DEF ListenerAnswer, table, accessors, resources, history
    <2>2. PICK w \in Woken : pc = w[1] /\ pc' = w[2]
      BY <1>6 DEF ListenerAnswer
    <2>3. \/ pc \in Using /\ pc' \in Using
          \/ pc \notin Using \cup {"enter"} /\ pc' \notin Using \cup {"enter"}
      BY <2>2 DEF Woken, Using
    <2> QED
      BY <2>1, <2>3, MemFrame
  <1>7. CASE \/ RemoteUses \/ RemoteTakes \/ RemoteFrees \/ RemoteAnswers
             \/ \E r \in Remotes : RemoteDone(r)
             \/ BufferDone \/ BufferDoneUnknown
             \/ InstanceDeInit \/ Gone \/ UNCHANGED vars
    <2>1. UNCHANGED <<pBufHeader, nTotalBuffers, handle0, newbuf, open, memOf, pc, slot>>
      BY <1>7 DEF table, accessors, resources, history, vars, RemoteUses, RemoteTakes,
                  RemoteFrees, RemoteAnswers, RemoteDone, BufferDone, BufferDoneUnknown,
                  InstanceDeInit, Gone
    <2>2. nFaults' \in {nFaults, nFaults + 1}
      BY <1>7 DEF vars, RemoteUses, RemoteTakes, Fault,
                  RemoteFrees, RemoteAnswers, RemoteDone, BufferDone, BufferDoneUnknown,
                  InstanceDeInit, Gone
    <2>3. nFaults' = 0 => nFaults = 0
      BY <2>2 DEF LinkInv, LinkTypes
    <2> QED
      BY <2>1, <2>3, MemFrame
  <1> QED
    BY <1>1, <1>2, <1>3, <1>4, <1>5, <1>6, <1>7 DEF Next

(***************************************************************************)
(* For tables of any size, until a call fails half-way: the memory in a    *)
(* slot is the memory PROXY_AllocateBuffer got for the header in the slot, *)
(* although two functions look for the slot, one after the other.          *)
(***************************************************************************)
THEOREM MemoryStaysInSpot == Spec => []SpotHoldsOwnMemory
  <1> DEFINE Inv == TableInv /\ HeadersInv /\ LinkInv /\ MemInv
  <1>1. Init => Inv
    BY InitTable, InitHeaders, InitLink, InitMem
  <1>2. Inv /\ [Next]_vars => Inv'
    BY NextTable, NextHeaders, NextLink, NextMem
  <1>3. Inv => SpotHoldsOwnMemory
    BY DEF MemInv, MemRight, SpotHoldsOwnMemory
  <1> QED
    BY <1>1, <1>2, <1>3, PTL DEF Spec

-----------------------------------------------------------------------------
(***************************************************************************)
(* Metadata and registrations: what the counters say exists is at least    *)
(* what headers and slots remember, and as much until a call fails.        *)
(***************************************************************************)
RegSlots == {s \in Slots : reg[s]}

Prepared == {"xuse", "gotuse"}

CountTypes ==
    /\ handle2 \in [Slots -> BOOLEAN] /\ reg \in [Slots -> BOOLEAN]
    /\ hdrMeta \subseteq hdrs
    /\ nMeta \in Nat /\ nReg \in Nat
    /\ nMeta >= Cardinality(hdrMeta) /\ nReg >= Cardinality(RegSlots)

CountRight ==
    /\ nMeta = Cardinality(hdrMeta) /\ nReg = Cardinality(RegSlots)
    /\ \A s \in Slots : s \notin Occupied /\ (reg[s] \/ handle2[s]) =>
            s = slot /\ pc \in Prepared
    /\ \A s \in Occupied : handle2[s] <=> pBufHeader[s] \in hdrMeta
    /\ pc \in Prepared => (handle2[slot] <=> hdr \in hdrMeta)
    /\ pc = "param" => hdr \notin hdrMeta

CountInv == CountTypes /\ (nFaults = 0 => CountRight)

\* The sets that are counted are finite.
LEMMA CountFinite ==
    ASSUME TableInv, HeadersInv, hdrMeta \subseteq hdrs
    PROVE  /\ IsFiniteSet(hdrMeta) /\ Cardinality(hdrMeta) \in Nat
           /\ IsFiniteSet(RegSlots) /\ Cardinality(RegSlots) \in Nat
  <1>1. IsFiniteSet(Slots)
    BY FS_Interval DEF Slots
  <1>2. IsFiniteSet(RegSlots)
    BY <1>1, FS_Subset DEF RegSlots
  <1>3. IsFiniteSet(Stored)
    <2> DEFINE f == [s \in Occupied |-> pBufHeader[s]]
    <2>1. IsFiniteSet(Occupied)
      BY OccupiedFacts DEF TableInv
    <2>2. f \in Surjection(Occupied, Stored)
      BY DEF Surjection, Stored
    <2> QED
      BY <2>1, <2>2, FS_Surjection
  <1>4. IsFiniteSet(hdrs)
    <2>1. hdrs = Stored \/ hdrs = Stored \cup {hdr}
      BY DEF HeadersInv, HeadersOwned, Stored
    <2> QED
      BY <1>3, <2>1, FS_AddElement
  <1>5. IsFiniteSet(hdrMeta)
    BY <1>4, FS_Subset
  <1> QED
    BY <1>2, <1>5, FS_CardinalityType

\* When all headers are in the table, slots may be counted for headers.
LEMMA SlotsForHeaders ==
    ASSUME TableInv, HeadersInv, hdrMeta \subseteq Stored
    PROVE  Cardinality({s \in Occupied : pBufHeader[s] \in hdrMeta}) = Cardinality(hdrMeta)
  <1> DEFINE S == {s \in Occupied : pBufHeader[s] \in hdrMeta}
             f == [s \in S |-> pBufHeader[s]]
  <1>1. IsFiniteSet(S)
    <2>1. IsFiniteSet(Occupied) /\ S \in SUBSET Occupied
      BY OccupiedFacts DEF TableInv
    <2> QED
      BY <2>1, FS_Subset
  <1>2. f \in Bijection(S, hdrMeta)
    <2>1. f \in [S -> hdrMeta]
      OBVIOUS
    <2>2. \A s, t \in S : f[s] = f[t] => s = t
      BY DEF HeadersInv, Distinct
    <2>3. \A h \in hdrMeta : \E s \in S : f[s] = h
      BY DEF Stored
    <2> HIDE DEF f, S
    <2>4. f \in Injection(S, hdrMeta)
      BY <2>1, <2>2 DEF Injection, IsInjective
    <2>5. f \in Surjection(S, hdrMeta)
      BY <2>1, <2>3 DEF Surjection
    <2> QED
      BY <2>4, <2>5 DEF Bijection
  <1>3. ExistsBijection(S, hdrMeta)
    BY <1>2 DEF ExistsBijection
  <1> QED
    BY <1>1, <1>3, FS_Bijection

\* Nothing is registered at the start.
LEMMA InitCount == Init => CountInv
  <1> SUFFICES ASSUME Init PROVE CountInv
    OBVIOUS
  <1>1. RegSlots = {} /\ hdrMeta = {} /\ Occupied = {}
    BY DEF Init, RegSlots, Occupied, InTable
  <1>2. Cardinality(RegSlots) = 0 /\ Cardinality(hdrMeta) = 0
    BY <1>1, FS_EmptySet
  <1>3. CountTypes
    BY <1>2 DEF Init, CountTypes, Slots
  <1>4. CountRight
    BY <1>1, <1>2 DEF Init, CountRight, Prepared
  <1> QED
    BY <1>3, <1>4 DEF CountInv

\* The call moves on; nothing that is counted changes.
LEMMA CountFrame ==
    ASSUME CountInv,
           UNCHANGED <<pBufHeader, nTotalBuffers, handle2, reg, hdrMeta, nMeta, nReg>>,
           hdrMeta \subseteq hdrs', nFaults' = 0 => nFaults = 0,
           \/ UNCHANGED <<pc, slot, hdr>>
           \/ pc \in Prepared /\ pc' \in Prepared /\ UNCHANGED <<slot, hdr>>
           \/ pc \notin Prepared /\ pc' \notin Prepared /\ (pc' = "param" => hdr' \notin hdrMeta)
    PROVE  CountInv'
  <1>1. Occupied' = Occupied /\ RegSlots' = RegSlots
    BY OccupiedFrame DEF RegSlots
  <1>2. CountTypes'
    BY <1>1 DEF CountInv, CountTypes
  <1>3. ASSUME CountRight PROVE CountRight'
    <2>1. \A s \in Slots : s \notin Occupied /\ (reg[s] \/ handle2[s]) =>
             s = slot' /\ pc' \in Prepared
      BY <1>3 DEF CountRight
    <2>2. pc' \in Prepared => (handle2[slot'] <=> hdr' \in hdrMeta)
      BY <1>3 DEF CountRight
    <2>3. pc' = "param" => hdr' \notin hdrMeta
      BY <1>3 DEF CountRight, Prepared
    <2> QED
      BY <1>1, <1>3, <2>1, <2>2, <2>3 DEF CountRight
  <1> QED
    BY <1>2, <1>3 DEF CountInv

\* What SetAccessors records and counts.
LEMMA AccessorsCount ==
    ASSUME TableInv, HeadersInv, CountTypes, NEW meta \in BOOLEAN, NEW registered \in BOOLEAN,
           SetAccessors(meta, registered)
    PROVE  /\ handle2' \in [Slots -> BOOLEAN] /\ reg' \in [Slots -> BOOLEAN]
           /\ nMeta' = nMeta + (IF meta THEN 1 ELSE 0) /\ nMeta' \in Nat
           /\ nReg' \in Nat
           /\ RegSlots' = IF registered THEN RegSlots \cup {slot} ELSE RegSlots
           /\ nReg' >= Cardinality(RegSlots')
           /\ nReg' = nReg + (IF registered THEN 1 ELSE 0)
           /\ \A s \in Slots \ {slot} : (reg'[s] <=> reg[s]) /\ (handle2'[s] <=> handle2[s])
           /\ handle2'[slot] <=> handle2[slot] \/ meta
  <1>1. /\ handle2' = [handle2 EXCEPT ![slot] = handle2[slot] \/ meta]
        /\ nMeta' = nMeta + (IF meta THEN 1 ELSE 0)
        /\ reg' = [reg EXCEPT ![slot] = reg[slot] \/ registered]
        /\ nReg' = nReg + (IF registered THEN 1 ELSE 0)
    BY DEF SetAccessors
  <1>2. /\ handle2 \in [Slots -> BOOLEAN] /\ reg \in [Slots -> BOOLEAN]
        /\ slot \in Slots
    BY DEF CountTypes, TableInv, TableTypes
  <1>3. handle2' \in [Slots -> BOOLEAN] /\ reg' \in [Slots -> BOOLEAN]
    BY <1>1, <1>2, Zenon
  <1>4. /\ \A s \in Slots \ {slot} : (reg'[s] <=> reg[s]) /\ (handle2'[s] <=> handle2[s])
        /\ handle2'[slot] <=> handle2[slot] \/ meta
        /\ reg'[slot] <=> reg[slot] \/ registered
    BY <1>1, <1>2, Zenon
  <1>5. RegSlots' = IF registered THEN RegSlots \cup {slot} ELSE RegSlots
    BY <1>2, <1>4 DEF RegSlots
  <1>6. nMeta' \in Nat /\ nReg' \in Nat
    BY <1>1 DEF CountTypes
  <1>7. nReg' >= Cardinality(RegSlots')
    <2>1. /\ IsFiniteSet(RegSlots) /\ Cardinality(RegSlots) \in Nat
          /\ nReg \in Nat /\ nReg >= Cardinality(RegSlots)
      BY CountFinite DEF CountTypes
    <2>2. CASE registered
      <3>1. Cardinality(RegSlots \cup {slot}) =
               IF slot \in RegSlots THEN Cardinality(RegSlots) ELSE Cardinality(RegSlots) + 1
        BY <2>1, FS_AddElement
      <3>2. RegSlots' = RegSlots \cup {slot}
        BY <1>5, <2>2
      <3> QED
        BY <1>1, <2>1, <2>2, <3>1, <3>2
    <2>3. CASE ~registered
      BY <1>1, <1>5, <2>1, <2>3
    <2> QED
      BY <2>2, <2>3
  <1> QED
    BY <1>1, <1>3, <1>4, <1>5, <1>6, <1>7

\* Metadata and registration are recorded in the slot being filled.
LEMMA UsePrepareCount ==
    ASSUME TableInv, HeadersInv, CountInv, UsePrepare
    PROVE  CountInv'
  <1>1. /\ pc = "param" /\ pc' = "xuse"
        /\ UNCHANGED <<pBufHeader, nTotalBuffers, slot, hdr, hdrs, nFaults>>
    BY DEF UsePrepare, Send, table
  <1>2. PICK meta \in BOOLEAN :
            /\ SetAccessors(meta, TRUE)
            /\ hdrMeta' = IF meta THEN hdrMeta \cup {hdr} ELSE hdrMeta
    BY FaultsAssumption DEF UsePrepare
  <1>3. /\ handle2' \in [Slots -> BOOLEAN] /\ reg' \in [Slots -> BOOLEAN]
        /\ nMeta' = nMeta + (IF meta THEN 1 ELSE 0) /\ nMeta' \in Nat
        /\ nReg' \in Nat
        /\ RegSlots' = RegSlots \cup {slot}
        /\ nReg' >= Cardinality(RegSlots')
        /\ nReg' = nReg + 1
        /\ \A s \in Slots \ {slot} : (reg'[s] <=> reg[s]) /\ (handle2'[s] <=> handle2[s])
        /\ handle2'[slot] <=> handle2[slot] \/ meta
    BY <1>2, AccessorsCount DEF CountInv
  <1>4. Occupied' = Occupied
    BY <1>1, OccupiedFrame
  <1>5. /\ hdr \in Headers /\ hdr \in hdrs /\ slot \notin Occupied
        /\ slot \in Slots /\ Occupied \subseteq Slots
        /\ \A s \in Occupied : pBufHeader[s] # hdr
    <2>1. hdr \in Headers /\ FirstEmpty(slot) /\ slot \in Slots
      BY <1>1 DEF TableInv, TableTypes, CallState, Using
    <2>2. hdr \in hdrs
      BY <2>1 DEF HeadersInv, HeadersOwned
    <2>3. Occupied \subseteq Slots
      BY DEF TableInv, TableTypes, SlotTable, Occupied, InTable, Slots
    <2>4. \A s \in Occupied : pBufHeader[s] # hdr
      BY <1>1 DEF HeadersInv, CallHeader, Using, Stored
    <2> QED
      BY <2>1, <2>2, <2>3, <2>4, FirstEmptyFacts
  <1>6. /\ IsFiniteSet(hdrMeta) /\ Cardinality(hdrMeta) \in Nat
        /\ IsFiniteSet(RegSlots) /\ Cardinality(RegSlots) \in Nat
        /\ nMeta \in Nat /\ nMeta >= Cardinality(hdrMeta)
    BY CountFinite DEF CountInv, CountTypes
  <1>7. /\ Cardinality(hdrMeta') \in Nat
        /\ Cardinality(hdrMeta') =
             IF meta /\ hdr \notin hdrMeta THEN Cardinality(hdrMeta) + 1 ELSE Cardinality(hdrMeta)
    <2>1. CASE meta
      <3>1. Cardinality(hdrMeta \cup {hdr}) =
               IF hdr \in hdrMeta THEN Cardinality(hdrMeta) ELSE Cardinality(hdrMeta) + 1
        BY <1>6, FS_AddElement
      <3> QED
        BY <1>2, <1>6, <2>1, <3>1
    <2>2. CASE ~meta
      BY <1>2, <1>6, <2>2
    <2> QED
      BY <2>1, <2>2
  <1>8. CountTypes'
    <2>1. nMeta' >= Cardinality(hdrMeta')
      BY <1>3, <1>6, <1>7
    <2>2. hdrMeta' \subseteq hdrs'
      BY <1>1, <1>2, <1>5 DEF CountInv, CountTypes
    <2> QED
      BY <1>3, <2>1, <2>2 DEF CountTypes
  <1>9. ASSUME CountRight PROVE CountRight'
    <2>1. /\ hdr \notin hdrMeta /\ ~reg[slot] /\ ~handle2[slot]
          /\ slot \notin RegSlots
      BY <1>1, <1>5, <1>9 DEF CountRight, Prepared, RegSlots
    <2>2. nMeta' = Cardinality(hdrMeta')
      BY <1>3, <1>7, <1>9, <2>1 DEF CountRight
    <2>3. nReg' = Cardinality(RegSlots')
      <3>1. Cardinality(RegSlots \cup {slot}) = Cardinality(RegSlots) + 1
        BY <1>6, <2>1, FS_AddElement
      <3> QED
        BY <1>3, <1>9, <3>1 DEF CountRight
    <2>4. \A s \in Slots : s \notin Occupied /\ (reg'[s] \/ handle2'[s]) => s = slot
      BY <1>1, <1>3, <1>9 DEF CountRight, Prepared
    <2>5. \A s \in Occupied : handle2'[s] <=> pBufHeader[s] \in hdrMeta'
      BY <1>2, <1>3, <1>5, <1>9 DEF CountRight
    <2>6. handle2'[slot] <=> hdr \in hdrMeta'
      BY <1>2, <1>3, <2>1
    <2> QED
      BY <1>1, <1>4, <2>2, <2>3, <2>4, <2>5, <2>6 DEF CountRight, Prepared
  <1> QED
    BY <1>1, <1>8, <1>9 DEF CountInv

\* The error exits drop the call's header.
LEMMA ExitCount ==
    ASSUME TableInv, HeadersInv, LinkInv, CountInv, UseRefused \/ UsePrepareFails \/ UseFails
    PROVE  CountInv'
  <1>1. /\ UNCHANGED <<pBufHeader, nTotalBuffers>>
        /\ hdrs' = hdrs \ {hdr} /\ hdrMeta' = hdrMeta \ {hdr} /\ pc' = "idle"
    BY DEF UseRefused, UsePrepareFails, UseFails, UseExits, table
  <1>2. hdrMeta' \subseteq hdrs'
    BY <1>1 DEF CountInv, CountTypes
  <1>3. /\ IsFiniteSet(hdrMeta) /\ Cardinality(hdrMeta) \in Nat
        /\ nMeta \in Nat /\ nMeta >= Cardinality(hdrMeta)
    BY CountFinite DEF CountInv, CountTypes
  <1>4. Cardinality(hdrMeta') <= Cardinality(hdrMeta) /\ Cardinality(hdrMeta') \in Nat
    <2>1. IsFiniteSet(hdrMeta') /\ Cardinality(hdrMeta') <= Cardinality(hdrMeta)
      BY <1>1, <1>3, FS_Subset
    <2> QED
      BY <2>1, FS_CardinalityType
  <1>5. CASE UseRefused
    <2>1. /\ UNCHANGED <<handle2, reg, nMeta, nReg, nFaults>> /\ pc \in {"idle", "enter"}
      BY <1>5 DEF UseRefused, UseStarts, accessors
    <2>2. hdr = NULL
      BY <2>1 DEF HeadersInv, CallHeader
    <2>3. NULL \notin hdrs
      BY StoredNotNull DEF HeadersInv, HeadersOwned, Stored
    <2>4. hdrMeta' = hdrMeta
      BY <1>1, <2>2, <2>3 DEF CountInv, CountTypes
    <2>5. pc \notin Prepared /\ pc' \notin Prepared /\ pc' # "param"
      BY <1>1, <2>1 DEF Prepared
    <2> QED
      BY <1>1, <1>2, <2>1, <2>4, <2>5, CountFrame
  <1>6. CASE UsePrepareFails
    <2>1. nFaults' # 0
      BY <1>6 DEF UsePrepareFails, Fault, LinkInv, LinkTypes
    <2>2. PICK meta \in BOOLEAN, registered \in BOOLEAN : SetAccessors(meta, registered)
      BY <1>6, FaultsAssumption DEF UsePrepareFails
    <2>3. /\ handle2' \in [Slots -> BOOLEAN] /\ reg' \in [Slots -> BOOLEAN]
          /\ nMeta' = nMeta + (IF meta THEN 1 ELSE 0) /\ nMeta' \in Nat
          /\ nReg' \in Nat /\ nReg' >= Cardinality(RegSlots')
      BY <2>2, AccessorsCount DEF CountInv
    <2>4. nMeta' >= Cardinality(hdrMeta')
      BY <1>3, <1>4, <2>3
    <2> QED
      BY <1>2, <2>1, <2>3, <2>4 DEF CountInv, CountTypes
  <1>7. CASE UseFails
    <2>1. nFaults # 0 /\ nFaults' = nFaults
      BY <1>7 DEF UseFails, LinkInv, Protocol, Executed, Using
    <2>2. UNCHANGED <<handle2, reg, nMeta, nReg>>
      BY <1>7 DEF UseFails, accessors
    <2>3. RegSlots' = RegSlots
      BY <2>2 DEF RegSlots
    <2>4. nMeta' >= Cardinality(hdrMeta')
      BY <1>3, <1>4, <2>2
    <2> QED
      BY <1>2, <2>1, <2>2, <2>3, <2>4 DEF CountInv, CountTypes
  <1> QED
    BY <1>5, <1>6, <1>7

\* The slot that was prepared is the one that is filled.
LEMMA UseStoreCount ==
    ASSUME TableInv, HeadersInv, CountInv, UseStore
    PROVE  CountInv'
  <1>1. /\ pc = "gotuse" /\ pc' = "idle"
        /\ pBufHeader' = [pBufHeader EXCEPT ![slot] = hdr]
        /\ UNCHANGED <<handle2, reg, hdrs, hdrMeta, nMeta, nReg, slot, nFaults>>
    BY DEF UseStore, accessors, resources
  <1>2. /\ slot \notin Occupied /\ Occupied' = Occupied \cup {slot}
        /\ slot \in Slots /\ Occupied \subseteq Slots
    BY UseStoreTable DEF TableInv, TableTypes, SlotTable, Occupied, InTable, Slots
  <1>3. /\ pBufHeader'[slot] = hdr
        /\ \A s \in Occupied : pBufHeader'[s] = pBufHeader[s]
    BY <1>1, <1>2 DEF TableInv, TableTypes
  <1>4. RegSlots' = RegSlots
    BY <1>1 DEF RegSlots
  <1>5. CountTypes'
    BY <1>1, <1>4 DEF CountInv, CountTypes
  <1>6. ASSUME CountRight PROVE CountRight'
    <2>1. \A s \in Slots : s \notin Occupied' => ~(reg[s] \/ handle2[s])
      BY <1>2, <1>6 DEF CountRight
    <2>2. \A s \in Occupied' : handle2[s] <=> pBufHeader'[s] \in hdrMeta
      BY <1>1, <1>2, <1>3, <1>6 DEF CountRight, Prepared
    <2> QED
      BY <1>1, <1>4, <1>6, <2>1, <2>2 DEF CountRight, Prepared
  <1> QED
    BY <1>1, <1>5, <1>6 DEF CountInv

\* PROXY_FreeBuffer releases what the slot records.
LEMMA FreeFinishCount ==
    ASSUME TableInv, HeadersInv, CountInv, FreeFinish
    PROVE  CountInv'
  <1>1. /\ pc = "gotfree" /\ pc' = "idle"
        /\ pBufHeader' = [pBufHeader EXCEPT ![slot] = NULL]
        /\ handle2' = [handle2 EXCEPT ![slot] = FALSE]
        /\ reg' = [reg EXCEPT ![slot] = FALSE]
        /\ hdrs' = hdrs \ {hdr} /\ hdrMeta' = hdrMeta \ {hdr}
        /\ nMeta' = nMeta - (IF hdr \in hdrMeta THEN 1 ELSE 0)
        /\ nReg' = nReg - (IF reg[slot] THEN 1 ELSE 0)
        /\ UNCHANGED nFaults
    BY DEF FreeFinish, ClearSlot, Unregister
  <1>2. /\ slot \in Occupied /\ Occupied' = Occupied \ {slot}
        /\ slot \in Slots /\ Occupied \subseteq Slots /\ pBufHeader[slot] = hdr
    BY <1>1, FreeFinishTable DEF TableInv, TableTypes, SlotTable, Occupied, InTable, Slots,
       CallState, Freeing
  <1>3. handle2 \in [Slots -> BOOLEAN] /\ reg \in [Slots -> BOOLEAN]
    BY DEF CountInv, CountTypes
  <1>4. handle2' \in [Slots -> BOOLEAN] /\ reg' \in [Slots -> BOOLEAN]
    BY <1>1, <1>3, Zenon
  <1>5. /\ ~reg'[slot] /\ ~handle2'[slot]
        /\ \A s \in Slots \ {slot} : (reg'[s] <=> reg[s]) /\ (handle2'[s] <=> handle2[s])
    BY <1>1, <1>2, <1>3, Zenon
  <1>6. \A s \in Slots \ {slot} : pBufHeader'[s] = pBufHeader[s]
    BY <1>1 DEF TableInv, TableTypes
  <1>7. RegSlots' = RegSlots \ {slot} /\ (slot \in RegSlots <=> reg[slot])
    BY <1>2, <1>5 DEF RegSlots
  <1>8. /\ IsFiniteSet(hdrMeta) /\ Cardinality(hdrMeta) \in Nat
        /\ IsFiniteSet(RegSlots) /\ Cardinality(RegSlots) \in Nat
        /\ nMeta \in Nat /\ nMeta >= Cardinality(hdrMeta)
        /\ nReg \in Nat /\ nReg >= Cardinality(RegSlots)
    BY CountFinite DEF CountInv, CountTypes
  <1>9. /\ Cardinality(hdrMeta') =
             Cardinality(hdrMeta) - (IF hdr \in hdrMeta THEN 1 ELSE 0)
        /\ Cardinality(hdrMeta') \in Nat
    <2>1. /\ IsFiniteSet(hdrMeta \ {hdr})
          /\ Cardinality(hdrMeta \ {hdr}) =
               IF hdr \in hdrMeta THEN Cardinality(hdrMeta) - 1 ELSE Cardinality(hdrMeta)
      BY <1>8, FS_RemoveElement
    <2>2. Cardinality(hdrMeta \ {hdr}) \in Nat
      BY <2>1, FS_CardinalityType
    <2> QED
      BY <1>1, <1>8, <2>1, <2>2
  <1>10. /\ Cardinality(RegSlots') =
              Cardinality(RegSlots) - (IF reg[slot] THEN 1 ELSE 0)
         /\ Cardinality(RegSlots') \in Nat
    <2>1. /\ IsFiniteSet(RegSlots \ {slot})
          /\ Cardinality(RegSlots \ {slot}) =
               IF slot \in RegSlots THEN Cardinality(RegSlots) - 1 ELSE Cardinality(RegSlots)
      BY <1>8, FS_RemoveElement
    <2>2. Cardinality(RegSlots \ {slot}) \in Nat
      BY <2>1, FS_CardinalityType
    <2> QED
      BY <1>7, <1>8, <2>1, <2>2
  <1>11. CountTypes'
    <2>1. hdrMeta' \subseteq hdrs'
      BY <1>1 DEF CountInv, CountTypes
    <2>2. nMeta' \in Nat /\ nMeta' >= Cardinality(hdrMeta')
      BY <1>1, <1>8, <1>9
    <2>3. nReg' \in Nat /\ nReg' >= Cardinality(RegSlots')
      BY <1>1, <1>8, <1>10
    <2> QED
      BY <1>4, <2>1, <2>2, <2>3 DEF CountTypes
  <1>12. ASSUME CountRight PROVE CountRight'
    <2>1. nMeta' = Cardinality(hdrMeta') /\ nReg' = Cardinality(RegSlots')
      BY <1>1, <1>9, <1>10, <1>12 DEF CountRight
    <2>2. \A s \in Slots : s \notin Occupied' => ~(reg'[s] \/ handle2'[s])
      BY <1>1, <1>2, <1>5, <1>12 DEF CountRight, Prepared
    <2>3. \A s \in Occupied' : handle2'[s] <=> pBufHeader'[s] \in hdrMeta'
      <3> SUFFICES ASSUME NEW s \in Occupied'
                   PROVE  handle2'[s] <=> pBufHeader'[s] \in hdrMeta'
        OBVIOUS
      <3>1. s \in Occupied /\ s # slot /\ s \in Slots
        BY <1>2
      <3>2. pBufHeader[s] # hdr
        BY <1>2, <3>1 DEF HeadersInv, Distinct
      <3> QED
        BY <1>1, <1>5, <1>6, <1>12, <3>1, <3>2 DEF CountRight
    <2> QED
      BY <1>1, <2>1, <2>2, <2>3 DEF CountRight, Prepared
  <1> QED
    BY <1>1, <1>11, <1>12 DEF CountInv

\* A finite set and one of its parts: the sizes of the part and of the rest add up.
LEMMA SplitCardinality ==
    ASSUME NEW S, IsFiniteSet(S), NEW P \in SUBSET S
    PROVE  /\ Cardinality(S) = Cardinality(P) + Cardinality(S \ P)
           /\ Cardinality(P) \in Nat /\ Cardinality(S \ P) \in Nat
  <1> DEFINE Q == S \ P
  <1>1. P \cup Q = S /\ P \cap Q = {} /\ Q \subseteq S
    OBVIOUS
  <1> HIDE DEF Q
  <1>2. IsFiniteSet(P) /\ IsFiniteSet(Q)
    BY <1>1, FS_Subset
  <1>3. Cardinality(P) \in Nat /\ Cardinality(Q) \in Nat
    BY <1>2, FS_CardinalityType
  <1>4. Cardinality(P \cup Q) = Cardinality(P) + Cardinality(Q) - Cardinality(P \cap Q)
    BY <1>2, FS_Union
  <1>5. Cardinality(P \cap Q) = 0
    BY <1>1, FS_EmptySet
  <1>6. Cardinality(P \cup Q) = Cardinality(P) + Cardinality(Q)
    BY <1>3, <1>4, <1>5
  <1>7. Cardinality(S) = Cardinality(P) + Cardinality(Q)
    BY <1>1, <1>6
  <1> QED
    BY <1>3, <1>7 DEF Q

\* PROXY_ComponentDeInit takes from the counters what the table still has.
LEMMA DeInitCount ==
    ASSUME TableInv, HeadersInv, CountInv, ComponentDeInit
    PROVE  CountInv'
  <1>1. /\ pc = "idle" /\ pc' = "idle"
        /\ pBufHeader' = [s \in Slots |-> IF s \in Occupied THEN NULL ELSE pBufHeader[s]]
        /\ handle2' = [s \in Slots |-> s \notin Occupied /\ handle2[s]]
        /\ reg' = [s \in Slots |-> s \notin Occupied /\ reg[s]]
        /\ hdrMeta' = hdrMeta \ Stored
        /\ nMeta' = nMeta - Cardinality({s \in Occupied : pBufHeader[s] \in hdrMeta})
        /\ nReg' = nReg - Cardinality({s \in Occupied : reg[s]})
        /\ UNCHANGED <<nFaults, nTotalBuffers>>
    BY DEF ComponentDeInit, Stored
  <1>2. Occupied' = {} /\ Occupied \subseteq Slots
    <2>1. InTable \subseteq Slots /\ InTable' = InTable
      BY <1>1 DEF TableInv, TableTypes, SlotTable, InTable, Slots
    <2> QED
      BY <1>1, <2>1 DEF Occupied
  <1>3. hdrMeta \subseteq Stored
    <2>1. hdr = NULL
      BY <1>1 DEF HeadersInv, CallHeader
    <2> QED
      BY <2>1 DEF HeadersInv, HeadersOwned, Stored, CountInv, CountTypes
  <1>4. hdrMeta' = {} /\ Cardinality(hdrMeta') = 0
    BY <1>1, <1>3, FS_EmptySet
  <1>5. nMeta' = nMeta - Cardinality(hdrMeta)
    BY <1>1, <1>3, SlotsForHeaders
  <1>6. /\ Cardinality(hdrMeta) \in Nat
        /\ IsFiniteSet(RegSlots) /\ Cardinality(RegSlots) \in Nat
        /\ nMeta \in Nat /\ nMeta >= Cardinality(hdrMeta)
        /\ nReg \in Nat /\ nReg >= Cardinality(RegSlots)
    BY CountFinite DEF CountInv, CountTypes
  <1> DEFINE R == {s \in Occupied : reg[s]}
  <1>7. R \subseteq RegSlots /\ RegSlots' = RegSlots \ R
    <2>1. \A s \in Slots : reg'[s] <=> s \notin Occupied /\ reg[s]
      BY <1>1
    <2> QED
      BY <1>2, <2>1 DEF RegSlots
  <1> HIDE DEF R
  <1>8. /\ Cardinality(RegSlots) = Cardinality(R) + Cardinality(RegSlots')
        /\ Cardinality(R) \in Nat /\ Cardinality(RegSlots') \in Nat
    <2>1. R \in SUBSET RegSlots /\ IsFiniteSet(RegSlots)
      BY <1>6, <1>7
    <2>2. /\ Cardinality(RegSlots) = Cardinality(R) + Cardinality(RegSlots \ R)
          /\ Cardinality(R) \in Nat /\ Cardinality(RegSlots \ R) \in Nat
      BY <2>1, SplitCardinality
    <2> QED
      BY <1>7, <2>2
  <1>9. CountTypes'
    <2>1. nMeta' \in Nat /\ nMeta' >= Cardinality(hdrMeta')
      BY <1>4, <1>5, <1>6
    <2>2. nReg' = nReg - Cardinality(R)
      BY <1>1 DEF R
    <2>3. nReg' \in Nat /\ nReg' >= Cardinality(RegSlots')
      BY <1>6, <1>8, <2>2
    <2>4. handle2' \in [Slots -> BOOLEAN] /\ reg' \in [Slots -> BOOLEAN]
      BY <1>1, Zenon
    <2> QED
      BY <1>4, <2>1, <2>3, <2>4 DEF CountTypes
  <1>10. ASSUME CountRight PROVE CountRight'
    <2>1. nMeta' = Cardinality(hdrMeta')
      BY <1>4, <1>5, <1>6, <1>10 DEF CountRight
    <2>2. nReg' = nReg - Cardinality(R)
      BY <1>1 DEF R
    <2>3. nReg' = Cardinality(RegSlots')
      BY <1>6, <1>8, <1>10, <2>2 DEF CountRight
    <2>4. \A s \in Slots : ~reg'[s] /\ ~handle2'[s]
      <3>1. \A s \in Slots : s \notin Occupied => ~reg[s] /\ ~handle2[s]
        BY <1>1, <1>10 DEF CountRight, Prepared
      <3> QED
        BY <1>1, <3>1
    <2> QED
      BY <1>1, <1>2, <2>1, <2>3, <2>4 DEF CountRight, Prepared
  <1> QED
    BY <1>1, <1>9, <1>10 DEF CountInv

\* Every step keeps metadata buffers and registrations counted.
LEMMA NextCount ==
    TableInv /\ HeadersInv /\ LinkInv /\ CountInv /\ [Next]_vars => CountInv'
  <1> SUFFICES ASSUME TableInv, HeadersInv, LinkInv, CountInv, [Next]_vars PROVE CountInv'
    OBVIOUS
  <1>0. hdrMeta \subseteq hdrs
    BY DEF CountInv, CountTypes
  <1>1. CASE UsePrepare \/ UseStore
    BY <1>1, UsePrepareCount, UseStoreCount
  <1>2. CASE UseRefused \/ UsePrepareFails \/ UseFails
    BY <1>2, ExitCount
  <1>3. CASE FreeFinish \/ ComponentDeInit
    BY <1>3, FreeFinishCount, DeInitCount
  <1>4. CASE UseBuffer
    <2>1. PICK h \in Headers \ hdrs : hdr' = h /\ hdrs' = hdrs \cup {h}
      BY <1>4 DEF UseBuffer
    <2>2. /\ UNCHANGED <<pBufHeader, nTotalBuffers, handle2, reg, hdrMeta, nMeta, nReg, nFaults>>
          /\ pc \notin Prepared /\ pc' \notin Prepared
      BY <1>4 DEF UseBuffer, UseStarts, table, accessors, Prepared
    <2> QED
      BY <1>0, <2>1, <2>2, CountFrame
  <1>5. CASE \/ AllocateBuffer \/ GiveReturns
             \/ \E h \in Headers : GiveBuffer(h) \/ FreeBuffer(h)
    <2>1. /\ UNCHANGED <<pBufHeader, nTotalBuffers, handle2, reg, hdrs, hdrMeta, nMeta, nReg,
                         nFaults>>
          /\ pc \notin Prepared /\ pc' \notin Prepared /\ pc' # "param"
      BY <1>5 DEF AllocateBuffer, GiveReturns, GiveBuffer, FreeBuffer, Send, table, accessors,
                  resources, Prepared
    <2> QED
      BY <1>0, <2>1, CountFrame
  <1>6. CASE ListenerAnswer
    <2>1. UNCHANGED <<pBufHeader, nTotalBuffers, handle2, reg, hdrs, hdrMeta, nMeta, nReg,
                      nFaults, slot, hdr>>
      BY <1>6 DEF ListenerAnswer, table, accessors, resources
    <2>2. PICK w \in Woken : pc = w[1] /\ pc' = w[2]
      BY <1>6 DEF ListenerAnswer
    <2>3. \/ pc \in Prepared /\ pc' \in Prepared
          \/ pc \notin Prepared /\ pc' \notin Prepared /\ pc' # "param"
      BY <2>2 DEF Woken, Prepared
    <2> QED
      BY <1>0, <2>1, <2>3, CountFrame
  <1>7. CASE \/ RemoteUses \/ RemoteTakes \/ RemoteFrees \/ RemoteAnswers
             \/ \E r \in Remotes : RemoteDone(r)
             \/ BufferDone \/ BufferDoneUnknown
             \/ InstanceDeInit \/ Gone \/ UNCHANGED vars
    <2>1. UNCHANGED <<pBufHeader, nTotalBuffers, handle2, reg, hdrs, hdrMeta, nMeta, nReg,
                      pc, slot, hdr>>
      BY <1>7 DEF table, accessors, resources, vars, RemoteUses, RemoteTakes,
                  RemoteFrees, RemoteAnswers, RemoteDone, BufferDone, BufferDoneUnknown,
                  InstanceDeInit, Gone
    <2>2. nFaults' \in {nFaults, nFaults + 1}
      BY <1>7 DEF vars, RemoteUses, RemoteTakes, Fault,
                  RemoteFrees, RemoteAnswers, RemoteDone, BufferDone, BufferDoneUnknown,
                  InstanceDeInit, Gone
    <2>3. nFaults' = 0 => nFaults = 0
      BY <2>2 DEF LinkInv, LinkTypes
    <2> QED
      BY <1>0, <2>1, <2>3, CountFrame
  <1> QED
    BY <1>1, <1>2, <1>3, <1>4, <1>5, <1>6, <1>7 DEF Next

-----------------------------------------------------------------------------
ProxyInv == TableInv /\ HeadersInv /\ LinkInv /\ MemInv /\ CountInv

\* The parts together are inductive.
LEMMA ProxyInductive == (Init => ProxyInv) /\ (ProxyInv /\ [Next]_vars => ProxyInv')
BY InitTable, InitHeaders, InitLink, InitMem, InitCount,
   NextTable, NextHeaders, NextLink, NextMem, NextCount DEF ProxyInv

(***************************************************************************)
(* For tables of any size: until a call fails half-way, the memory, the    *)
(* metadata buffers and the registrations that exist between calls are     *)
(* exactly those the slots in use record; PROXY_FreeBuffer and             *)
(* PROXY_ComponentDeInit release each once.                                *)
(***************************************************************************)
THEOREM NoLeakWithoutFault == Spec => []NothingLeaks
  <1>1. ProxyInv => NothingLeaks
    <2> SUFFICES ASSUME ProxyInv, pc = "idle", nFaults = 0
                 PROVE  /\ open = {handle0[s] : s \in Occupied} \ {NULL}
                        /\ nMeta = Cardinality({s \in Occupied : handle2[s]})
                        /\ nReg = Cardinality({s \in Occupied : reg[s]})
      BY DEF NothingLeaks
    <2>1. MemTypes /\ MemRight /\ CountTypes /\ CountRight
      BY DEF ProxyInv, MemInv, CountInv
    <2>2. newbuf = NULL
      BY <2>1 DEF MemTypes, Using
    <2>3. open = {handle0[s] : s \in Occupied} \ {NULL}
      BY <2>1, <2>2 DEF MemRight, Mem
    <2>4. hdrMeta \subseteq Stored
      <3>1. hdr = NULL
        BY DEF ProxyInv, HeadersInv, CallHeader
      <3> QED
        BY <2>1, <3>1 DEF ProxyInv, HeadersInv, HeadersOwned, Stored, CountTypes
    <2>5. {s \in Occupied : handle2[s]} = {s \in Occupied : pBufHeader[s] \in hdrMeta}
      BY <2>1 DEF CountRight
    <2>6. nMeta = Cardinality({s \in Occupied : handle2[s]})
      BY <2>1, <2>4, <2>5, SlotsForHeaders DEF ProxyInv, CountRight
    <2>7. Occupied \subseteq Slots
      BY DEF ProxyInv, TableInv, TableTypes, SlotTable, Occupied, InTable, Slots
    <2>8. {s \in Occupied : reg[s]} = RegSlots
      BY <2>1, <2>7 DEF CountRight, Prepared, RegSlots
    <2> QED
      BY <2>1, <2>3, <2>6, <2>8 DEF CountRight
  <1> QED
    BY <1>1, ProxyInductive, PTL DEF Spec

(***************************************************************************)
(* For tables of any size and any number of calls that fail half-way, the  *)
(* proxy keeps its types: in particular no metadata buffer or registration *)
(* is released more often than it was made, and the remote is never left   *)
(* working on a buffer it has freed.                                       *)
(***************************************************************************)
THEOREM TypesCorrect == Spec => []TypeOK
  <1>1. ProxyInv => TypeOK
    <2> SUFFICES ASSUME ProxyInv PROVE TypeOK
      OBVIOUS
    <2>1. /\ pBufHeader \in [Slots -> Headers \cup {NULL}]
          /\ pc \in Stages /\ slot \in Slots /\ hdr \in Headers \cup {NULL}
          /\ life \in {"running", "deinit", "gone"}
          /\ nTotalBuffers \in 0 .. MAX /\ nAllocatedBuffers \in 0 .. MAX
      BY DEF ProxyInv, TableInv, TableTypes, SlotTable
    <2>2. Stored \subseteq Headers
      <3>1. Occupied \subseteq Slots
        BY DEF ProxyInv, TableInv, TableTypes, SlotTable, Occupied, InTable, Slots
      <3> QED
        BY <2>1, <3>1 DEF Stored, Occupied
    <2>3. hdrs \subseteq Headers
      BY <2>1, <2>2 DEF ProxyInv, HeadersInv, HeadersOwned, Stored
    <2>4. clientHas \subseteq Headers
      BY <2>2 DEF ProxyInv, LinkInv, Custody
    <2>5. inbox \in Seq(Messages)
      BY MessageFacts DEF ProxyInv, LinkInv, LinkTypes
    <2> QED
      BY <2>1, <2>3, <2>4, <2>5
      DEF ProxyInv, LinkInv, LinkTypes, MemInv, MemTypes, CountInv, CountTypes, TypeOK
  <1> QED
    BY <1>1, ProxyInductive, PTL DEF Spec

=============================================================================
