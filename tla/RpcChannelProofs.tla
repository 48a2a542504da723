-------------------------- MODULE RpcChannelProofs --------------------------
(***************************************************************************)
(* Theorems about RpcChannel, for any number of threads, functions and     *)
(* packets.                                                                *)
(***************************************************************************)
EXTENDS RpcChannel, FiniteSetTheorems, TLAPS

USE FxnsAssumption, PacketsAssumption, CallersAssumption, BoundsAssumption

\* The values the index arithmetic relies on.
LEMMA FxnsFacts ==
    /\ GET_HANDLE \in Fxns
    /\ CALLBACK \in 0 .. NFxns + 1
    /\ BADIDX \in 0 .. NFxns + 1
    /\ Fxns \subseteq 0 .. NFxns + 1
    /\ CALLBACK \notin Fxns
    /\ BADIDX \notin Fxns
  BY DEF Fxns, GET_HANDLE, CALLBACK, BADIDX

\* The packets the remote and the listener make up are well formed.
LEMMA MessageFacts ==
    /\ BlankMessage \in Message
    /\ Unasked(GET_HANDLE, "hardware") \in Message
    /\ Unasked(CALLBACK, "none") \in Message
    /\ Unasked(BADIDX, "none") \in Message
  BY FxnsFacts DEF BlankMessage, Unasked, Message, Results

\* A request is well formed, and so is any answer to it.
LEMMA RequestFacts ==
    ASSUME NEW q \in Request, NEW r \in Results
    PROVE  [idx |-> q.idx, to |-> q.to, call |-> q.call, result |-> r] \in Message
  <1>1. q.idx \in Fxns /\ q.to \in Callers /\ q.call \in 1 .. MaxCalls
    BY DEF Request
  <1>2. q.idx \in 0 .. NFxns + 1
    BY <1>1, FxnsFacts
  <1>3. \A n \in 1 .. MaxCalls : n \in 0 .. MaxCalls
    OBVIOUS
  <1> QED
    BY <1>1, <1>2, <1>3 DEF Message

\* The type invariant is inductive together with the pointers' being set.
TypeInv == TypeOK /\ PointersSet

\* The initial state is well typed and no pointer is in use.
LEMMA InitTypeInv == Init => TypeInv
  <1> SUFFICES ASSUME Init PROVE TypeInv
    OBVIOUS
  <1>1. contents \in [Packets \cup {ErrorPacket} -> Message]
    BY MessageFacts DEF Init
  <1>2. shared \in [Callers -> BOOLEAN]
    BY Zenon DEF Init
  <1>3. /\ inbox \in Seq(Message)
        /\ pipe \in [Fxns -> Seq(Packets \cup {ErrorPacket})]
        /\ live \in SUBSET (Packets \cup {ErrorPacket})
    BY DEF Init
  <1>4. /\ fxn \in [Callers -> Fxns]
        /\ pRetPacket \in [Callers -> Packets \cup {ErrorPacket, NULL}]
        /\ outcome \in [Callers -> Outcomes]
        /\ pc \in [Callers -> {"idle", "waiting", "got"}]
        /\ calls \in [Callers -> 0 .. MaxCalls]
    BY FxnsFacts DEF Init, Outcomes
  <1>5. /\ pAppData \in BOOLEAN
        /\ reported \in BOOLEAN /\ hadClient \in BOOLEAN
    BY DEF Init
  <1>6. /\ link = "up" /\ requests = {} /\ cbPc = "select" /\ pBuffer = NULL
        /\ eRPCError = "none" /\ inst = "open"
        /\ nFxnIdx = 0 /\ nSent = 0 /\ nRun = 0 /\ nBad = 0
    BY DEF Init
  <1>7. TypeOK
    BY <1>1, <1>2, <1>3, <1>4, <1>5, <1>6 DEF TypeOK
  <1>8. PointersSet
    BY <1>6 DEF Init, PointersSet
  <1> QED
    BY <1>7, <1>8 DEF TypeInv

\* Every step of RpcChannel keeps its variables in their types.
LEMMA NextTypeInv == TypeInv /\ [Next]_vars => TypeInv'
  <1> SUFFICES ASSUME TypeInv, [Next]_vars PROVE TypeInv'
    OBVIOUS
  <1> USE DEF TypeInv, TypeOK, PointersSet
  <1>1. ASSUME NEW c \in Callers, NEW f \in Fxns, SendPacket(c, f) PROVE TypeInv'
    <2>1. shared' \in [Callers -> BOOLEAN]
      BY <1>1, Zenon DEF SendPacket
    <2>2. /\ fxn' \in [Callers -> Fxns]
          /\ calls' \in [Callers -> 0 .. MaxCalls]
          /\ pc' \in [Callers -> {"idle", "waiting", "got"}]
          /\ outcome' \in [Callers -> Outcomes]
      BY <1>1 DEF SendPacket, BeginCall, Outcomes
    <2>3. \A d \in Callers : pc'[d] = "got" <=> pRetPacket'[d] # NULL
      BY <1>1 DEF SendPacket, BeginCall
    <2>4. requests' \in SUBSET Request
      <3>1. [idx |-> f, to |-> c, call |-> calls[c] + 1] \in Request
        BY <1>1 DEF SendPacket, BeginCall, Request
      <3> QED
        BY <1>1, <3>1 DEF SendPacket
    <2>5. UNCHANGED <<link, hadClient, inbox, pipe, heap, listenerVars, pRetPacket,
                      pAppData, inst, upcalls>>
      BY <1>1 DEF SendPacket
    <2> QED
      BY <2>1, <2>2, <2>3, <2>4, <2>5 DEF listenerVars, heap, upcalls
  <1>2. ASSUME NEW c \in Callers, NEW f \in Fxns, SendPacketFails(c, f)
        PROVE TypeInv'
    <2>1. fxn' \in [Callers -> Fxns] /\ calls' \in [Callers -> 0 .. MaxCalls]
      BY <1>2 DEF SendPacketFails, BeginCall
    <2>2. PICK o \in Outcomes : outcome' = [outcome EXCEPT ![c] = o]
      BY <1>2 DEF SendPacketFails, Outcomes
    <2>3. outcome' \in [Callers -> Outcomes]
      BY <2>2
    <2> QED
      BY <1>2, <2>1, <2>3 DEF SendPacketFails, listenerVars, remoteVars, heap, upcalls
  <1>3. ASSUME NEW c \in Callers, ReadFromPipe(c) PROVE TypeInv'
    <2>1. Head(pipe[fxn[c]]) \in Packets \cup {ErrorPacket}
      BY <1>3 DEF ReadFromPipe
    <2>2. pipe' \in [Fxns -> Seq(Packets \cup {ErrorPacket})]
      BY <1>3 DEF ReadFromPipe
    <2>3. /\ pc' \in [Callers -> {"idle", "waiting", "got"}]
          /\ pRetPacket' \in [Callers -> Packets \cup {ErrorPacket, NULL}]
          /\ \A d \in Callers : pc'[d] = "got" <=> pRetPacket'[d] # NULL
      BY <1>3, <2>1 DEF ReadFromPipe
    <2> QED
      BY <1>3, <2>2, <2>3 DEF ReadFromPipe, listenerVars, remoteVars, heap, upcalls
  <1>4. ASSUME NEW c \in Callers, StubReturn(c) PROVE TypeInv'
    <2>1. contents[pRetPacket[c]].result \in Results
      BY <1>4 DEF StubReturn, Message
    <2>2. outcome' \in [Callers -> Outcomes]
      BY <1>4, <2>1 DEF StubReturn, Results, Outcomes
    <2>3. live' \in SUBSET (Packets \cup {ErrorPacket})
      BY <1>4 DEF StubReturn
    <2>4. /\ pc' \in [Callers -> {"idle", "waiting", "got"}]
          /\ pRetPacket' \in [Callers -> Packets \cup {ErrorPacket, NULL}]
          /\ \A d \in Callers : pc'[d] = "got" <=> pRetPacket'[d] # NULL
      BY <1>4 DEF StubReturn
    <2>5. pAppData' \in BOOLEAN
      BY <1>4 DEF StubReturn
    <2> QED
      BY <1>4, <2>2, <2>3, <2>4, <2>5 DEF StubReturn, listenerVars, remoteVars, upcalls
  <1>5. ASSUME NEW q \in requests, NEW r \in Results, Answer(q, r) PROVE TypeInv'
    <2>1. [idx |-> q.idx, to |-> q.to, call |-> q.call, result |-> r] \in Message
      BY RequestFacts
    <2>2. inbox' \in Seq(Message)
      BY <1>5, <2>1 DEF Answer
    <2> QED
      BY <1>5, <2>2 DEF Answer, listenerVars, callerVars, heap, upcalls
  <1>6. CASE SendUpcall
    <2>1. inbox' \in Seq(Message)
      BY <1>6, MessageFacts DEF SendUpcall
    <2> QED
      BY <1>6, <2>1 DEF SendUpcall, listenerVars, callerVars, remoteVars, heap
  <1>7. CASE SendBadIndex
    <2>1. inbox' \in Seq(Message)
      BY <1>7, MessageFacts DEF SendBadIndex
    <2> QED
      BY <1>7, <2>1 DEF SendBadIndex, listenerVars, callerVars, remoteVars, heap
  <1>8. CASE LinkDies
    BY <1>8 DEF LinkDies, listenerVars, callerVars, heap, upcalls
  <1>9. CASE CbKilled \/ CbReadable \/ CbSelectFails
    BY <1>9 DEF CbKilled, CbReadable, CbSelectFails, callerVars, remoteVars, heap,
       upcalls
  <1>10. CASE CbRead
    <2>1. Head(inbox) \in Message /\ inbox' \in Seq(Message)
      BY <1>10 DEF CbRead
    <2>2. contents' \in [Packets \cup {ErrorPacket} -> Message]
      BY <1>10, <2>1 DEF CbRead
    <2> QED
      BY <1>10, <2>1, <2>2 DEF CbRead, GetPacket, callerVars, remoteVars, upcalls
  <1>11. CASE CbReadFatal
    BY <1>11 DEF CbReadFatal, GetPacket, callerVars, remoteVars, upcalls
  <1>12. CASE CbReadFails
    BY <1>12 DEF CbReadFails, GetPacket, callerVars, remoteVars, upcalls
  <1>13. CASE CbFatalWrite
    <2>1. nFxnIdx \in Fxns /\ nFxnIdx' \in 0 .. NFxns
      BY <1>13 DEF CbFatalWrite, FatalLoopEnd, Fxns
    <2>2. pipe' \in [Fxns -> Seq(Packets \cup {ErrorPacket})]
      BY <1>13, <2>1 DEF CbFatalWrite
    <2> QED
      BY <1>13, <2>1, <2>2 DEF CbFatalWrite, callerVars, remoteVars, heap, upcalls
  <1>14. CASE CbFatalDone
    BY <1>14 DEF CbFatalDone, callerVars, remoteVars, heap, upcalls
  <1>15. CASE CbUpcall \/ CbBadIndex
    BY <1>15 DEF CbUpcall, CbBadIndex, callerVars, remoteVars, heap, upcalls
  <1>16. CASE CbPost
    <2>1. pipe' \in [Fxns -> Seq(Packets \cup {ErrorPacket})]
      <3>1. PICK p \in Packets \cup {ErrorPacket} :
              pipe' = [pipe EXCEPT ![contents[pBuffer].idx] = Append(@, p)]
        BY <1>16 DEF CbPost, PipeOf
      <3> QED
        BY <1>16, <3>1 DEF CbPost
    <2> QED
      BY <1>16, <2>1 DEF CbPost, callerVars, remoteVars, upcalls
  <1>17. CASE CbExit
    BY <1>17 DEF CbExit, ExitErrors, ReportFatal, callerVars, remoteVars, upcalls
  <1>18. CASE KillListener
    BY <1>18 DEF KillListener, callerVars, listenerVars, remoteVars, heap, upcalls
  <1>19. CASE CloseInstance
    <2>1. pipe' \in [Fxns -> Seq(Packets \cup {ErrorPacket})]
      BY <1>19 DEF CloseInstance
    <2> QED
      BY <1>19, <2>1 DEF CloseInstance, callerVars, listenerVars, remoteVars, heap,
         upcalls
  <1>20. CASE UNCHANGED vars
    BY <1>20 DEF vars, callerVars, listenerVars, remoteVars, heap, upcalls
  <1> QED
    BY <1>1, <1>2, <1>3, <1>4, <1>5, <1>6, <1>7, <1>8, <1>9, <1>10, <1>11, <1>12,
       <1>13, <1>14, <1>15, <1>16, <1>17, <1>18, <1>19, <1>20
       DEF Next, CallerStep, Listener, Closed

\* Every state of the RPC instance is well typed.
THEOREM TypeCorrect == Spec => []TypeOK
  <1>1. Init => TypeInv
    BY InitTypeInv
  <1>2. TypeInv /\ [Next]_vars => TypeInv'
    BY NextTypeInv
  <1>3. TypeInv => TypeOK
    BY DEF TypeInv
  <1> QED
    BY <1>1, <1>2, <1>3, PTL DEF Spec

-----------------------------------------------------------------------------
(***************************************************************************)
(* Packet ownership, when select, read and malloc do not fail.             *)
(***************************************************************************)
\* Only the fatal error is left in eRPCError, and only on the way out.
ErrorState ==
    eRPCError # "none" => eRPCError = "hardware" /\ cbPc \in {"exit", "exited"}

\* A hardware error never travels in a packet of the heap, so stubs free all.
PostedResult ==
    \A p \in Packets : PipeHolds(p) \/ StubHolds(p) => contents[p].result # "hardware"

\* A bad index is a transient fault too: neither on its way nor at the switch.
NoBadIndex ==
    /\ \A i \in DOMAIN inbox : inbox[i].idx # BADIDX
    /\ cbPc = "dispatch" => contents[pBuffer].idx # BADIDX

OwnershipInv == TypeInv /\ PacketOwnership /\ ErrorState /\ PostedResult /\ NoBadIndex

\* What Append and Tail do to the positions of a sequence.
LEMMA AppendFacts ==
    ASSUME NEW S, NEW s \in Seq(S), NEW e \in S
    PROVE  /\ DOMAIN Append(s, e) = DOMAIN s \cup {Len(s) + 1}
           /\ Len(s) + 1 \notin DOMAIN s
           /\ \A i \in DOMAIN s : Append(s, e)[i] = s[i]
           /\ Append(s, e)[Len(s) + 1] = e
  OBVIOUS

\* And Tail, with Head.
LEMMA TailFacts ==
    ASSUME NEW S, NEW s \in Seq(S), s # <<>>
    PROVE  /\ \A i \in DOMAIN Tail(s) : i + 1 \in DOMAIN s /\ Tail(s)[i] = s[i + 1]
           /\ \A i \in DOMAIN s : i # 1 => i - 1 \in DOMAIN Tail(s)
           /\ \A i \in DOMAIN s : i \in Nat
           /\ \A i \in DOMAIN Tail(s) : i \in Nat \ {0}
           /\ 1 \in DOMAIN s
           /\ Head(s) = s[1]
  OBVIOUS

\* Who holds what is all that matters: a step that leaves it alone is harmless.
LEMMA OwnershipFrame ==
    ASSUME OwnershipInv, UNCHANGED <<live, contents, pipe, pRetPacket>>,
           inst = "closed" => inst' = "closed",
           \A p \in Packets : ListenerHolds(p)' <=> ListenerHolds(p)
    PROVE  PacketOwnership' /\ PostedResult'
  <1>1. \A p \in Packets : (StubHolds(p)' <=> StubHolds(p))
                           /\ (PipeHolds(p)' <=> PipeHolds(p))
    BY DEF StubHolds, PipeHolds
  <1>2. HeldIsLive' /\ LiveIsHeld'
    BY <1>1 DEF OwnershipInv, PacketOwnership, HeldIsLive, LiveIsHeld
  <1>3. OneHolder'
    BY <1>1 DEF OwnershipInv, PacketOwnership, OneHolder
  <1>4. PostedResult'
    BY <1>1 DEF OwnershipInv, PostedResult
  <1> QED
    BY <1>2, <1>3, <1>4 DEF PacketOwnership

\* No packet is allocated at the start.
LEMMA InitOwnership == Init => OwnershipInv
  <1> SUFFICES ASSUME Init PROVE OwnershipInv
    OBVIOUS
  <1>1. \A p \in Packets : ~ListenerHolds(p) /\ ~StubHolds(p) /\ ~PipeHolds(p)
    BY DEF Init, ListenerHolds, StubHolds, PipeHolds
  <1>2. HeldIsLive /\ LiveIsHeld
    BY <1>1 DEF Init, HeldIsLive, LiveIsHeld
  <1>3. OneHolder
    BY <1>1 DEF Init, OneHolder
  <1>4. NoBadIndex
    BY DEF Init, NoBadIndex
  <1> QED
    BY <1>1, <1>2, <1>3, <1>4, InitTypeInv
       DEF Init, OwnershipInv, PacketOwnership, ErrorState, PostedResult

\* A stub takes a packet out of a pipe: the pipe's hold becomes the stub's.
LEMMA ReadFromPipeOwnership ==
    ASSUME OwnershipInv, NEW c \in Callers, ReadFromPipe(c)
    PROVE  PacketOwnership' /\ PostedResult'
  <1> DEFINE f == fxn[c]
             h == Head(pipe[f])
  <1> USE DEF OwnershipInv, TypeInv, TypeOK, PointersSet
  <1>1. /\ f \in Fxns /\ pipe[f] \in Seq(Packets \cup {ErrorPacket}) /\ pipe[f] # <<>>
        /\ pipe' = [pipe EXCEPT ![f] = Tail(pipe[f])]
        /\ pRetPacket' = [pRetPacket EXCEPT ![c] = h]
        /\ pRetPacket[c] = NULL
        /\ UNCHANGED <<live, contents, cbPc, pBuffer, eRPCError, inst>>
    BY DEF ReadFromPipe, heap, listenerVars
  <1>2. /\ \A i \in DOMAIN pipe'[f] : i + 1 \in DOMAIN pipe[f]
                                      /\ pipe'[f][i] = pipe[f][i + 1]
        /\ \A i \in DOMAIN pipe[f] : i # 1 => i - 1 \in DOMAIN pipe'[f]
        /\ \A i \in DOMAIN pipe[f] : i \in Nat
        /\ \A i \in DOMAIN pipe'[f] : i \in Nat \ {0}
        /\ 1 \in DOMAIN pipe[f] /\ h = pipe[f][1]
    BY <1>1, TailFacts
  <1>3. \A g \in Fxns \ {f} : pipe'[g] = pipe[g]
    BY <1>1
  <1>4. \A d \in Callers \ {c} : pRetPacket'[d] = pRetPacket[d]
    BY <1>1
  <1>5. pRetPacket'[c] = h
    BY <1>1
  <1>6. \A p \in Packets : ListenerHolds(p)' <=> ListenerHolds(p)
    BY <1>1 DEF ListenerHolds
  <1>7. \A p \in Packets : StubHolds(p)' <=> (StubHolds(p) \/ p = h)
    BY <1>1, <1>4, <1>5 DEF StubHolds
  <1>8. PipeHolds(h)
    BY <1>1, <1>2 DEF PipeHolds
  <1>9. \A p \in Packets : PipeHolds(p)' => PipeHolds(p) /\ p # h
    <2> SUFFICES ASSUME NEW p \in Packets, NEW g \in Fxns, NEW i \in DOMAIN pipe'[g],
                        pipe'[g][i] = p
                 PROVE  PipeHolds(p) /\ p # h
      BY DEF PipeHolds
    <2>1. CASE g = f
      BY <2>1, <1>1, <1>2 DEF PipeHolds, PacketOwnership, OneHolder
    <2>2. CASE g # f
      BY <2>2, <1>1, <1>2, <1>3 DEF PipeHolds, PacketOwnership, OneHolder
    <2> QED
      BY <2>1, <2>2
  <1>10. \A p \in Packets : PipeHolds(p) /\ p # h => PipeHolds(p)'
    <2> SUFFICES ASSUME NEW p \in Packets, NEW g \in Fxns, NEW i \in DOMAIN pipe[g],
                        pipe[g][i] = p, p # h
                 PROVE  PipeHolds(p)'
      BY DEF PipeHolds
    <2>1. CASE g = f
      <3>1. i - 1 \in DOMAIN pipe'[f] /\ pipe'[f][i - 1] = p
        BY <2>1, <1>2
      <3> QED
        BY <1>1, <3>1 DEF PipeHolds
    <2>2. CASE g # f
      BY <2>2, <1>3 DEF PipeHolds
    <2> QED
      BY <2>1, <2>2
  <1>11. HeldIsLive' /\ LiveIsHeld'
    BY <1>1, <1>6, <1>7, <1>8, <1>9, <1>10 DEF PacketOwnership, HeldIsLive, LiveIsHeld
  <1>12. OneHolder'
    <2>1. \A p \in Packets : /\ ListenerHolds(p)' => ~StubHolds(p)' /\ ~PipeHolds(p)'
                             /\ StubHolds(p)' => ~PipeHolds(p)'
      BY <1>6, <1>7, <1>8, <1>9 DEF PacketOwnership, OneHolder
    <2>2. \A d, e \in Callers :
            pRetPacket'[d] \in Packets /\ pRetPacket'[d] = pRetPacket'[e] => d = e
      <3>1. \A d \in Callers : pRetPacket[d] = h /\ h \in Packets => FALSE
        BY <1>8 DEF PacketOwnership, OneHolder, StubHolds
      <3> SUFFICES ASSUME NEW d \in Callers, NEW e \in Callers,
                          pRetPacket'[d] \in Packets, pRetPacket'[d] = pRetPacket'[e]
                   PROVE  d = e
        OBVIOUS
      <3>2. CASE d = c \/ e = c
        BY <3>1, <3>2, <1>4, <1>5
      <3>3. CASE d # c /\ e # c
        BY <3>3, <1>4 DEF PacketOwnership, OneHolder
      <3> QED
        BY <3>2, <3>3
    <2>3. \A g, k \in Fxns : \A i \in DOMAIN pipe'[g], j \in DOMAIN pipe'[k] :
            pipe'[g][i] \in Packets /\ pipe'[g][i] = pipe'[k][j] => g = k /\ i = j
      <3> SUFFICES ASSUME NEW g \in Fxns, NEW k \in Fxns, NEW i \in DOMAIN pipe'[g],
                          NEW j \in DOMAIN pipe'[k], pipe'[g][i] \in Packets,
                          pipe'[g][i] = pipe'[k][j]
                   PROVE  g = k /\ i = j
        OBVIOUS
      <3> DEFINE i0 == IF g = f THEN i + 1 ELSE i
                 j0 == IF k = f THEN j + 1 ELSE j
      <3>1. i0 \in DOMAIN pipe[g] /\ pipe'[g][i] = pipe[g][i0]
        BY <1>2, <1>3
      <3>2. j0 \in DOMAIN pipe[k] /\ pipe'[k][j] = pipe[k][j0]
        BY <1>2, <1>3
      <3>3. g = k /\ i0 = j0
        <4>1. \A a \in DOMAIN pipe[g], b \in DOMAIN pipe[k] :
                pipe[g][a] \in Packets /\ pipe[g][a] = pipe[k][b] => g = k /\ a = b
          BY DEF PacketOwnership, OneHolder
        <4> HIDE DEF i0, j0
        <4> QED
          BY <3>1, <3>2, <4>1
      <3>4. CASE g = f
        <4>1. i \in Nat /\ j \in Nat /\ i + 1 = j + 1
          BY <3>3, <3>4, <1>2
        <4> QED
          BY <3>3, <4>1
      <3>5. CASE g # f
        BY <3>3, <3>5
      <3> QED
        BY <3>4, <3>5
    <2> QED
      BY <2>1, <2>2, <2>3 DEF OneHolder
  <1>13. PostedResult'
    BY <1>1, <1>7, <1>8, <1>9 DEF PostedResult
  <1> QED
    BY <1>11, <1>12, <1>13 DEF PacketOwnership

\* A stub returns: it frees the packet it held, and holds none.
LEMMA StubReturnOwnership ==
    ASSUME OwnershipInv, NEW c \in Callers, StubReturn(c)
    PROVE  PacketOwnership' /\ PostedResult'
  <1> DEFINE h == pRetPacket[c]
  <1> USE DEF OwnershipInv, TypeInv, TypeOK, PointersSet
  <1>1. /\ h \in Packets \cup {ErrorPacket}
        /\ pRetPacket' = [pRetPacket EXCEPT ![c] = NULL]
        /\ UNCHANGED <<pipe, contents, cbPc, pBuffer, eRPCError, inst>>
    BY DEF StubReturn, listenerVars
  <1>2. \A p \in Packets : p \in live' <=> p \in live /\ p # h
    <2>1. StubHolds(h)
      BY DEF StubHolds
    <2>2. h \in Packets => contents[h].result # "hardware"
      BY <2>1 DEF PostedResult
    <2> QED
      BY <1>1, <2>2 DEF StubReturn, StubFrees
  <1>3. \A p \in Packets : (ListenerHolds(p)' <=> ListenerHolds(p))
                           /\ (PipeHolds(p)' <=> PipeHolds(p))
    BY <1>1 DEF ListenerHolds, PipeHolds
  <1>4. \A p \in Packets : StubHolds(p)' <=> StubHolds(p) /\ p # h
    BY <1>1 DEF StubHolds, PacketOwnership, OneHolder
  <1>5. h \in Packets => StubHolds(h)
    BY DEF StubHolds
  <1>6. HeldIsLive' /\ LiveIsHeld'
    BY <1>1, <1>2, <1>3, <1>4, <1>5
       DEF PacketOwnership, HeldIsLive, LiveIsHeld, OneHolder
  <1>7. OneHolder'
    <2>1. \A p \in Packets : /\ ListenerHolds(p)' => ~StubHolds(p)' /\ ~PipeHolds(p)'
                             /\ StubHolds(p)' => ~PipeHolds(p)'
      BY <1>3, <1>4 DEF PacketOwnership, OneHolder
    <2>2. \A d, e \in Callers :
            pRetPacket'[d] \in Packets /\ pRetPacket'[d] = pRetPacket'[e] => d = e
      BY <1>1 DEF PacketOwnership, OneHolder
    <2> QED
      BY <1>1, <2>1, <2>2 DEF PacketOwnership, OneHolder
  <1>8. PostedResult'
    BY <1>1, <1>3, <1>4 DEF PostedResult
  <1> QED
    BY <1>6, <1>7, <1>8 DEF PacketOwnership

\* The listener allocates: the new packet was free, so nobody holds it yet.
LEMMA GetPacketOwnership ==
    ASSUME OwnershipInv, NEW p \in Packets, GetPacket(p), cbPc = "read",
           cbPc' \in {"fatal", "dispatch"}, UNCHANGED <<pipe, pRetPacket, inst>>,
           \A q \in Packets \ {p} : contents'[q] = contents[q]
    PROVE  PacketOwnership' /\ PostedResult'
  <1> USE DEF OwnershipInv
  <1>1. p \notin live /\ live' = live \cup {p} /\ pBuffer' = p
    BY DEF GetPacket
  <1>2. ~StubHolds(p) /\ ~PipeHolds(p)
    BY <1>1 DEF PacketOwnership, HeldIsLive
  <1>3. \A q \in Packets : (StubHolds(q)' <=> StubHolds(q))
                           /\ (PipeHolds(q)' <=> PipeHolds(q))
    BY DEF StubHolds, PipeHolds
  <1>4. \A q \in Packets : (ListenerHolds(q)' <=> q = p) /\ ~ListenerHolds(q)
    BY <1>1 DEF ListenerHolds, ErrorState
  <1>5. HeldIsLive' /\ LiveIsHeld'
    BY <1>1, <1>2, <1>3, <1>4 DEF PacketOwnership, HeldIsLive, LiveIsHeld
  <1>6. OneHolder'
    BY <1>2, <1>3, <1>4 DEF PacketOwnership, OneHolder
  <1>7. PostedResult'
    BY <1>2, <1>3 DEF PostedResult
  <1> QED
    BY <1>5, <1>6, <1>7 DEF PacketOwnership

\* The listener frees the packet it held, and posts at most the static one.
LEMMA FreePacketOwnership ==
    ASSUME OwnershipInv, ListenerHolds(pBuffer), pBuffer \in Packets,
           live' = live \ {pBuffer}, pBuffer' = NULL,
           UNCHANGED <<contents, pRetPacket, inst>>,
           \A p \in Packets : PipeHolds(p)' <=> PipeHolds(p),
           \A f, g \in Fxns : \A i \in DOMAIN pipe'[f], j \in DOMAIN pipe'[g] :
               pipe'[f][i] \in Packets /\ pipe'[f][i] = pipe'[g][j] => f = g /\ i = j
    PROVE  PacketOwnership' /\ PostedResult'
  <1> USE DEF OwnershipInv
  <1>1. \A p \in Packets : StubHolds(p)' <=> StubHolds(p)
    BY DEF StubHolds
  <1>2. \A p \in Packets : ~ListenerHolds(p)'
    BY DEF ListenerHolds
  <1>3. \A p \in Packets : ListenerHolds(p) => p = pBuffer
    BY DEF ListenerHolds
  <1>4. ~StubHolds(pBuffer) /\ ~PipeHolds(pBuffer)
    BY DEF PacketOwnership, OneHolder
  <1>5. HeldIsLive' /\ LiveIsHeld'
    BY <1>1, <1>2, <1>3, <1>4 DEF PacketOwnership, HeldIsLive, LiveIsHeld
  <1>6. OneHolder'
    BY <1>1, <1>2 DEF PacketOwnership, OneHolder
  <1>7. PostedResult'
    BY <1>1 DEF PostedResult
  <1> QED
    BY <1>5, <1>6, <1>7 DEF PacketOwnership

\* Posting the static packet changes no hold on the packets of the heap.
LEMMA ErrorPostFacts ==
    ASSUME OwnershipInv, NEW f \in Fxns,
           pipe' = [pipe EXCEPT ![f] = Append(pipe[f], ErrorPacket)]
    PROVE  /\ \A p \in Packets : PipeHolds(p)' <=> PipeHolds(p)
           /\ \A g, k \in Fxns : \A i \in DOMAIN pipe'[g], j \in DOMAIN pipe'[k] :
                pipe'[g][i] \in Packets /\ pipe'[g][i] = pipe'[k][j] => g = k /\ i = j
  <1> USE DEF OwnershipInv, TypeInv, TypeOK
  <1>1. /\ DOMAIN pipe'[f] = DOMAIN pipe[f] \cup {Len(pipe[f]) + 1}
        /\ \A i \in DOMAIN pipe[f] : pipe'[f][i] = pipe[f][i]
        /\ pipe'[f][Len(pipe[f]) + 1] = ErrorPacket
    BY AppendFacts
  <1>2. \A g \in Fxns \ {f} : pipe'[g] = pipe[g]
    OBVIOUS
  <1>3. \A g \in Fxns : \A i \in DOMAIN pipe'[g] :
          pipe'[g][i] \in Packets => i \in DOMAIN pipe[g] /\ pipe'[g][i] = pipe[g][i]
    BY <1>1, <1>2
  <1>4. \A g \in Fxns : \A i \in DOMAIN pipe[g] :
          i \in DOMAIN pipe'[g] /\ pipe'[g][i] = pipe[g][i]
    BY <1>1, <1>2
  <1>5. \A p \in Packets : PipeHolds(p)' <=> PipeHolds(p)
    BY <1>3, <1>4 DEF PipeHolds
  <1>6. \A g, k \in Fxns : \A i \in DOMAIN pipe'[g], j \in DOMAIN pipe'[k] :
          pipe'[g][i] \in Packets /\ pipe'[g][i] = pipe'[k][j] => g = k /\ i = j
    BY <1>3 DEF PacketOwnership, OneHolder
  <1> QED
    BY <1>5, <1>6

\* An answer is posted: the listener's hold becomes the pipe's.
LEMMA PostOwnership ==
    ASSUME OwnershipInv, NEW f \in Fxns, cbPc = "dispatch", cbPc' = "exit",
           contents[pBuffer].result # "hardware",
           pipe' = [pipe EXCEPT ![f] = Append(pipe[f], pBuffer)],
           UNCHANGED <<live, contents, pBuffer, eRPCError, pRetPacket, inst>>
    PROVE  PacketOwnership' /\ PostedResult'
  <1> DEFINE n == Len(pipe[f]) + 1
  <1> USE DEF OwnershipInv, TypeInv, TypeOK, PointersSet
  <1>1. pBuffer \in Packets /\ pipe[f] \in Seq(Packets \cup {ErrorPacket})
    OBVIOUS
  <1>2. /\ DOMAIN pipe'[f] = DOMAIN pipe[f] \cup {n}
        /\ n \notin DOMAIN pipe[f]
        /\ \A i \in DOMAIN pipe[f] : pipe'[f][i] = pipe[f][i]
        /\ pipe'[f][n] = pBuffer
    BY <1>1, AppendFacts
  <1>3. \A g \in Fxns \ {f} : pipe'[g] = pipe[g]
    OBVIOUS
  <1> HIDE DEF n
  <1>4. ListenerHolds(pBuffer) /\ ~StubHolds(pBuffer) /\ ~PipeHolds(pBuffer)
    BY <1>1 DEF ListenerHolds, PacketOwnership, OneHolder
  <1>5. \A p \in Packets : ~ListenerHolds(p)' /\ (ListenerHolds(p) => p = pBuffer)
    BY DEF ListenerHolds, ErrorState
  <1>6. \A p \in Packets : StubHolds(p)' <=> StubHolds(p)
    BY DEF StubHolds
  <1>7. \A g \in Fxns : \A i \in DOMAIN pipe'[g] :
          (i \in DOMAIN pipe[g] /\ pipe'[g][i] = pipe[g][i])
          \/ (g = f /\ i = n /\ pipe'[g][i] = pBuffer)
    BY <1>2, <1>3
  <1>8. \A g \in Fxns : \A i \in DOMAIN pipe[g] :
          i \in DOMAIN pipe'[g] /\ pipe'[g][i] = pipe[g][i]
    BY <1>2, <1>3
  <1>9. \A p \in Packets : PipeHolds(p)' => PipeHolds(p) \/ p = pBuffer
    <2> SUFFICES ASSUME NEW p \in Packets, PipeHolds(p)', p # pBuffer
                 PROVE  PipeHolds(p)
      OBVIOUS
    <2>1. PICK g \in Fxns : \E i \in DOMAIN pipe'[g] : pipe'[g][i] = p
      BY DEF PipeHolds
    <2>2. PICK i \in DOMAIN pipe'[g] : pipe'[g][i] = p
      BY <2>1
    <2>3. i \in DOMAIN pipe[g] /\ pipe[g][i] = p
      BY <1>7, <2>2
    <2> QED
      BY <2>3 DEF PipeHolds
  <1>10. \A p \in Packets : PipeHolds(p) => PipeHolds(p)'
    <2> SUFFICES ASSUME NEW p \in Packets, PipeHolds(p)
                 PROVE  PipeHolds(p)'
      OBVIOUS
    <2>1. PICK g \in Fxns : \E i \in DOMAIN pipe[g] : pipe[g][i] = p
      BY DEF PipeHolds
    <2>2. PICK i \in DOMAIN pipe[g] : pipe[g][i] = p
      BY <2>1
    <2>3. i \in DOMAIN pipe'[g] /\ pipe'[g][i] = p
      BY <1>8, <2>2
    <2> QED
      BY <2>3 DEF PipeHolds
  <1>11. PipeHolds(pBuffer)'
    <2>1. n \in DOMAIN pipe'[f] /\ pipe'[f][n] = pBuffer'
      BY <1>2
    <2> QED
      BY <2>1 DEF PipeHolds
  <1>12. HeldIsLive'
    BY <1>4, <1>5, <1>6, <1>9, <1>1 DEF PacketOwnership, HeldIsLive
  <1>13. LiveIsHeld'
    BY <1>5, <1>6, <1>10, <1>11 DEF PacketOwnership, LiveIsHeld
  <1>14. OneHolder'
    <2>1. \A p \in Packets : /\ ListenerHolds(p)' => ~StubHolds(p)' /\ ~PipeHolds(p)'
                             /\ StubHolds(p)' => ~PipeHolds(p)'
      BY <1>4, <1>5, <1>6, <1>9 DEF PacketOwnership, OneHolder
    <2>2. \A c, d \in Callers :
            pRetPacket'[c] \in Packets /\ pRetPacket'[c] = pRetPacket'[d] => c = d
      BY DEF PacketOwnership, OneHolder
    <2>3. \A g, k \in Fxns : \A i \in DOMAIN pipe'[g], j \in DOMAIN pipe'[k] :
            pipe'[g][i] \in Packets /\ pipe'[g][i] = pipe'[k][j] => g = k /\ i = j
      <3>1. \A g \in Fxns : \A i \in DOMAIN pipe[g] : pipe[g][i] # pBuffer
        BY <1>4 DEF PipeHolds
      <3>2. \A g, k \in Fxns : \A i \in DOMAIN pipe[g], j \in DOMAIN pipe[k] :
              pipe[g][i] \in Packets /\ pipe[g][i] = pipe[k][j] => g = k /\ i = j
        BY DEF PacketOwnership, OneHolder
      <3> QED
        BY <1>7, <3>1, <3>2
    <2> QED
      BY <2>1, <2>2, <2>3 DEF OneHolder
  <1>15. PostedResult'
    BY <1>6, <1>9 DEF PostedResult
  <1> QED
    BY <1>12, <1>13, <1>14, <1>15 DEF PacketOwnership

\* Tear-down: the pipes go away, after which nobody looks for lost packets.
LEMMA CloseOwnership ==
    ASSUME OwnershipInv, CloseInstance
    PROVE  PacketOwnership' /\ PostedResult'
  <1>1. /\ UNCHANGED <<live, contents, cbPc, pBuffer, eRPCError, pRetPacket>>
        /\ inst' = "closed"
        /\ \A f \in Fxns : pipe'[f] = <<>>
    BY DEF CloseInstance, callerVars, listenerVars, heap
  <1>2. \A p \in Packets : (ListenerHolds(p)' <=> ListenerHolds(p))
                           /\ (StubHolds(p)' <=> StubHolds(p)) /\ ~PipeHolds(p)'
    BY <1>1 DEF ListenerHolds, StubHolds, PipeHolds
  <1>3. HeldIsLive' /\ LiveIsHeld'
    BY <1>1, <1>2 DEF OwnershipInv, PacketOwnership, HeldIsLive, LiveIsHeld
  <1>4. OneHolder'
    BY <1>1, <1>2 DEF OwnershipInv, PacketOwnership, OneHolder
  <1>5. PostedResult'
    BY <1>1, <1>2 DEF OwnershipInv, PostedResult
  <1> QED
    BY <1>3, <1>4, <1>5 DEF PacketOwnership

\* A step that does not touch the listener's packet leaves ListenerHolds alone.
LEMMA ListenerFrame ==
    ASSUME OwnershipInv, UNCHANGED <<cbPc, pBuffer, eRPCError, contents>>,
           \A i \in DOMAIN inbox' : inbox'[i].idx # BADIDX
    PROVE  /\ \A p \in Packets : ListenerHolds(p)' <=> ListenerHolds(p)
           /\ ErrorState' /\ NoBadIndex'
  BY DEF ListenerHolds, OwnershipInv, ErrorState, NoBadIndex

\* Without transient faults every step keeps each packet with one owner.
LEMMA NextOwnership ==
    ASSUME TransientFaults = FALSE, OwnershipInv, [Next]_vars
    PROVE  OwnershipInv'
  <1> USE DEF OwnershipInv
  <1>t. TypeInv'
    BY NextTypeInv
  <1> DEFINE Rest == PacketOwnership /\ PostedResult /\ ErrorState /\ NoBadIndex
  <1> SUFFICES Rest'
    BY <1>t
  <1>1. ASSUME NEW c \in Callers, NEW f \in Fxns,
               SendPacket(c, f) \/ SendPacketFails(c, f)
        PROVE Rest'
    <2>1. UNCHANGED <<live, contents, pipe, pRetPacket, inst, cbPc, pBuffer,
                      eRPCError, inbox>>
      BY <1>1 DEF SendPacket, SendPacketFails, heap, listenerVars
    <2> QED
      BY <2>1, ListenerFrame, OwnershipFrame DEF NoBadIndex
  <1>2. ASSUME NEW c \in Callers, ReadFromPipe(c) PROVE Rest'
    <2>1. UNCHANGED <<contents, cbPc, pBuffer, eRPCError, inbox>>
      BY <1>2 DEF ReadFromPipe, heap, listenerVars
    <2> QED
      BY <1>2, <2>1, ListenerFrame, ReadFromPipeOwnership DEF NoBadIndex
  <1>3. ASSUME NEW c \in Callers, StubReturn(c) PROVE Rest'
    <2>1. UNCHANGED <<contents, cbPc, pBuffer, eRPCError, inbox>>
      BY <1>3 DEF StubReturn, listenerVars
    <2> QED
      BY <1>3, <2>1, ListenerFrame, StubReturnOwnership DEF NoBadIndex
  <1>4. ASSUME NEW q \in requests, NEW r \in Results, Answer(q, r) PROVE Rest'
    <2>1. UNCHANGED <<live, contents, pipe, pRetPacket, inst, cbPc, pBuffer, eRPCError>>
      BY <1>4 DEF Answer, heap, listenerVars, callerVars
    <2>2. q.idx # BADIDX
      BY FxnsFacts DEF TypeInv, TypeOK, Request
    <2>3. [idx |-> q.idx, to |-> q.to, call |-> q.call, result |-> r] \in Message
      BY RequestFacts DEF TypeInv, TypeOK
    <2>4. \A i \in DOMAIN inbox' : inbox'[i].idx # BADIDX
      <3>1. inbox' = Append(inbox, [idx |-> q.idx, to |-> q.to, call |-> q.call, result |-> r])
        BY <1>4 DEF Answer
      <3>2. inbox \in Seq(Message)
        BY DEF TypeInv, TypeOK
      <3> QED
        BY <2>2, <2>3, <3>1, <3>2, AppendFacts DEF NoBadIndex
    <2> QED
      BY <2>1, <2>4, ListenerFrame, OwnershipFrame
  <1>5. CASE SendUpcall
    <2>1. UNCHANGED <<live, contents, pipe, pRetPacket, inst, cbPc, pBuffer, eRPCError>>
      BY <1>5 DEF SendUpcall, heap, listenerVars, callerVars
    <2>2. \A i \in DOMAIN inbox' : inbox'[i].idx # BADIDX
      <3>1. inbox' = Append(inbox, Unasked(CALLBACK, "none"))
        BY <1>5 DEF SendUpcall
      <3>2. inbox \in Seq(Message)
        BY DEF TypeInv, TypeOK
      <3>3. Unasked(CALLBACK, "none").idx # BADIDX
        BY DEF Unasked, CALLBACK, BADIDX
      <3> QED
        BY <3>1, <3>2, <3>3, MessageFacts, AppendFacts DEF NoBadIndex
    <2> QED
      BY <2>1, <2>2, ListenerFrame, OwnershipFrame
  <1>6. CASE LinkDies
    <2>1. /\ UNCHANGED <<live, contents, pipe, pRetPacket, inst, cbPc, pBuffer, eRPCError>>
          /\ \A i \in DOMAIN inbox' : inbox'[i].idx # BADIDX
      BY <1>6 DEF LinkDies, heap, listenerVars, callerVars
    <2> QED
      BY <2>1, ListenerFrame, OwnershipFrame
  <1>7. CASE CbKilled \/ CbReadable
    <2>1. /\ UNCHANGED <<live, contents, pipe, pRetPacket, inst, pBuffer, eRPCError, inbox>>
          /\ cbPc = "select" /\ cbPc' \in {"exited", "read"}
      BY <1>7 DEF CbKilled, CbReadable, heap, callerVars
    <2>2. \A p \in Packets : ~ListenerHolds(p) /\ ~ListenerHolds(p)'
      BY <2>1 DEF ListenerHolds
    <2>3. ErrorState' /\ NoBadIndex'
      BY <2>1 DEF ErrorState, NoBadIndex
    <2> QED
      BY <2>1, <2>2, <2>3, OwnershipFrame
  <1>8. CASE CbRead
    <2>1. PICK p \in Packets : /\ GetPacket(p)
                               /\ contents' = [contents EXCEPT ![p] = Head(inbox)]
      BY <1>8 DEF CbRead
    <2>2. /\ UNCHANGED <<pipe, pRetPacket, inst, eRPCError>>
          /\ inbox # <<>> /\ inbox' = Tail(inbox) /\ cbPc = "read" /\ cbPc' = "dispatch"
      BY <1>8 DEF CbRead, callerVars
    <2>3. /\ \A q \in Packets \ {p} : contents'[q] = contents[q]
          /\ contents'[p] = Head(inbox) /\ pBuffer' = p
      BY <2>1 DEF TypeInv, TypeOK, GetPacket
    <2>4. Head(inbox).idx # BADIDX /\ \A i \in DOMAIN inbox' : inbox'[i].idx # BADIDX
      <3>1. inbox \in Seq(Message)
        BY DEF TypeInv, TypeOK
      <3> QED
        BY <2>2, <3>1, TailFacts DEF NoBadIndex
    <2>5. NoBadIndex'
      BY <2>3, <2>4 DEF NoBadIndex
    <2>6. ErrorState'
      BY <2>2 DEF ErrorState
    <2> QED
      BY <2>1, <2>2, <2>3, <2>5, <2>6, GetPacketOwnership
  <1>9. CASE CbReadFatal
    <2>1. PICK p \in Packets : GetPacket(p)
      BY <1>9 DEF CbReadFatal
    <2>2. /\ UNCHANGED <<contents, pipe, pRetPacket, inst, eRPCError, inbox>>
          /\ cbPc = "read" /\ cbPc' = "fatal"
      BY <1>9 DEF CbReadFatal, callerVars
    <2>3. ErrorState' /\ NoBadIndex'
      BY <2>2 DEF ErrorState, NoBadIndex
    <2> QED
      BY <2>1, <2>2, <2>3, GetPacketOwnership
  <1>10. CASE CbFatalWrite
    <2>1. /\ UNCHANGED <<live, contents, pRetPacket, inst, cbPc, pBuffer, eRPCError, inbox>>
          /\ nFxnIdx \in Fxns
          /\ pipe' = [pipe EXCEPT ![nFxnIdx] = Append(pipe[nFxnIdx], ErrorPacket)]
      BY <1>10 DEF CbFatalWrite, FatalLoopEnd, Fxns, callerVars, heap, TypeInv, TypeOK
    <2>2. \A p \in Packets : PipeHolds(p)' <=> PipeHolds(p)
      BY <2>1, ErrorPostFacts
    <2>3. \A p \in Packets : (ListenerHolds(p)' <=> ListenerHolds(p))
                             /\ (StubHolds(p)' <=> StubHolds(p))
      BY <2>1 DEF ListenerHolds, StubHolds
    <2>4. HeldIsLive' /\ LiveIsHeld'
      BY <2>1, <2>2, <2>3 DEF PacketOwnership, HeldIsLive, LiveIsHeld
    <2>5. OneHolder'
      BY <2>1, <2>2, <2>3, ErrorPostFacts DEF PacketOwnership, OneHolder
    <2>6. PostedResult'
      BY <2>1, <2>2, <2>3 DEF PostedResult
    <2>7. ErrorState' /\ NoBadIndex'
      BY <2>1, ListenerFrame DEF NoBadIndex
    <2> QED
      BY <2>4, <2>5, <2>6, <2>7 DEF PacketOwnership
  <1>11. CASE CbFatalDone
    <2>1. /\ UNCHANGED <<live, contents, pipe, pRetPacket, inst, pBuffer, inbox>>
          /\ cbPc = "fatal" /\ cbPc' = "exit" /\ eRPCError' = "hardware"
      BY <1>11 DEF CbFatalDone, heap, callerVars
    <2>2. \A p \in Packets : ListenerHolds(p)' <=> ListenerHolds(p)
      BY <2>1 DEF ListenerHolds
    <2>3. ErrorState' /\ NoBadIndex'
      BY <2>1 DEF ErrorState, NoBadIndex
    <2> QED
      BY <2>1, <2>2, <2>3, OwnershipFrame
  <1>12. CASE CbUpcall
    <2>1. /\ UNCHANGED <<contents, pipe, pRetPacket, inst, eRPCError, inbox>>
          /\ live' = live \ {pBuffer} /\ pBuffer' = NULL
          /\ cbPc = "dispatch" /\ cbPc' = "exit"
      BY <1>12 DEF CbUpcall, callerVars
    <2>2. pBuffer \in Packets /\ ListenerHolds(pBuffer)
      BY <2>1 DEF TypeInv, PointersSet, ListenerHolds
    <2>3. \A p \in Packets : PipeHolds(p)' <=> PipeHolds(p)
      BY <2>1 DEF PipeHolds
    <2>4. \A f, g \in Fxns : \A i \in DOMAIN pipe'[f], j \in DOMAIN pipe'[g] :
            pipe'[f][i] \in Packets /\ pipe'[f][i] = pipe'[g][j] => f = g /\ i = j
      BY <2>1 DEF PacketOwnership, OneHolder
    <2>5. ErrorState' /\ NoBadIndex'
      BY <2>1 DEF ErrorState, NoBadIndex
    <2> QED
      BY <2>1, <2>2, <2>3, <2>4, <2>5, FreePacketOwnership
  <1>13. CASE CbPost
    <2> DEFINE m == contents[pBuffer]
    <2>1. /\ UNCHANGED <<contents, pRetPacket, inst, eRPCError, inbox>>
          /\ cbPc = "dispatch" /\ cbPc' = "exit" /\ m.idx \in Fxns
      BY <1>13 DEF CbPost, callerVars
    <2>2. pBuffer \in Packets /\ ListenerHolds(pBuffer)
      BY <2>1 DEF TypeInv, PointersSet, ListenerHolds
    <2>3. ErrorState' /\ NoBadIndex'
      BY <2>1 DEF ErrorState, NoBadIndex
    <2>4. CASE m.result = "hardware"
      <3>1. /\ pipe' = [pipe EXCEPT ![m.idx] = Append(pipe[m.idx], ErrorPacket)]
            /\ live' = live \ {pBuffer} /\ pBuffer' = NULL
        BY <1>13, <2>4 DEF CbPost, PipeOf
      <3>2. /\ \A p \in Packets : PipeHolds(p)' <=> PipeHolds(p)
            /\ \A g, k \in Fxns : \A i \in DOMAIN pipe'[g], j \in DOMAIN pipe'[k] :
                 pipe'[g][i] \in Packets /\ pipe'[g][i] = pipe'[k][j] => g = k /\ i = j
        BY <2>1, <3>1, ErrorPostFacts
      <3> QED
        BY <2>1, <2>2, <2>3, <3>1, <3>2, FreePacketOwnership
    <2>5. CASE m.result # "hardware"
      <3>1. /\ pipe' = [pipe EXCEPT ![m.idx] = Append(pipe[m.idx], pBuffer)]
            /\ UNCHANGED <<live, pBuffer>>
        BY <1>13, <2>5 DEF CbPost, PipeOf
      <3> QED
        BY <2>1, <2>3, <2>5, <3>1, PostOwnership
    <2> QED
      BY <2>4, <2>5
  <1>14. CASE CbExit
    <2>1. UNCHANGED <<contents, pipe, pRetPacket, inst, eRPCError, inbox>> /\ cbPc = "exit"
      BY <1>14 DEF CbExit, callerVars
    <2>2. CASE eRPCError = "none"
      <3>1. UNCHANGED <<live, pBuffer>> /\ cbPc' = "select"
        BY <1>14, <2>2 DEF CbExit
      <3>2. \A p \in Packets : ~ListenerHolds(p) /\ ~ListenerHolds(p)'
        BY <2>1, <2>2, <3>1 DEF ListenerHolds
      <3>3. ErrorState' /\ NoBadIndex'
        BY <2>1, <2>2, <3>1 DEF ErrorState, NoBadIndex
      <3> QED
        BY <2>1, <3>1, <3>2, <3>3, OwnershipFrame
    <2>3. CASE eRPCError # "none"
      <3>1. live' = live \ {pBuffer} /\ pBuffer' = NULL /\ cbPc' = "exited"
        BY <1>14, <2>3 DEF CbExit, ExitErrors, ErrorState
      <3>2. ErrorState' /\ NoBadIndex'
        BY <2>1, <3>1 DEF ErrorState, NoBadIndex
      <3>3. \A p \in Packets : PipeHolds(p)' <=> PipeHolds(p)
        BY <2>1 DEF PipeHolds
      <3>4. \A f, g \in Fxns : \A i \in DOMAIN pipe'[f], j \in DOMAIN pipe'[g] :
              pipe'[f][i] \in Packets /\ pipe'[f][i] = pipe'[g][j] => f = g /\ i = j
        BY <2>1 DEF PacketOwnership, OneHolder
      <3>5. CASE pBuffer \in Packets
        <4>1. ListenerHolds(pBuffer)
          BY <2>1, <2>3 DEF ListenerHolds
        <4> QED
          BY <2>1, <3>1, <3>2, <3>3, <3>4, <3>5, <4>1, FreePacketOwnership
      <3>6. CASE pBuffer = NULL
        <4>1. NULL \notin live \/ NULL = ErrorPacket
          BY DEF TypeInv, TypeOK
        <4>2. UNCHANGED live
          BY <3>1, <3>6, <4>1
        <4>3. \A p \in Packets : ~ListenerHolds(p) /\ ~ListenerHolds(p)'
          BY <3>1, <3>6 DEF ListenerHolds
        <4> QED
          BY <2>1, <3>2, <4>2, <4>3, OwnershipFrame
      <3> QED
        BY <3>5, <3>6 DEF TypeInv, TypeOK
    <2> QED
      BY <2>2, <2>3
  <1>15. CASE KillListener
    <2>1. /\ UNCHANGED <<live, contents, pipe, pRetPacket, cbPc, pBuffer, eRPCError, inbox>>
          /\ inst = "open"
      BY <1>15 DEF KillListener, heap, listenerVars, callerVars
    <2> QED
      BY <2>1, ListenerFrame, OwnershipFrame DEF NoBadIndex
  <1>16. CASE CloseInstance
    <2>1. UNCHANGED <<contents, cbPc, pBuffer, eRPCError, inbox>>
      BY <1>16 DEF CloseInstance, heap, listenerVars
    <2> QED
      BY <1>16, <2>1, ListenerFrame, CloseOwnership DEF NoBadIndex
  <1>17. CASE UNCHANGED vars
    <2>1. UNCHANGED <<live, contents, pipe, pRetPacket, inst, cbPc, pBuffer,
                      eRPCError, inbox>>
      BY <1>17 DEF vars, heap, listenerVars, callerVars
    <2> QED
      BY <2>1, ListenerFrame, OwnershipFrame DEF NoBadIndex
  <1>18. ~SendBadIndex /\ ~CbSelectFails /\ ~CbReadFails
    BY DEF SendBadIndex, CbSelectFails, CbReadFails
  <1>19. ~CbBadIndex
    BY DEF CbBadIndex, NoBadIndex
  <1> HIDE DEF Rest
  <1> QED
    BY <1>1, <1>2, <1>3, <1>4, <1>5, <1>6, <1>7, <1>8, <1>9, <1>10, <1>11, <1>12,
       <1>13, <1>14, <1>15, <1>16, <1>17, <1>18, <1>19
       DEF Next, CallerStep, Listener, Closed

(***************************************************************************)
(* In RPC_CallbackThread and the stubs no packet is lost, freed twice or   *)
(* used after it was freed, whatever the order of answers, upcalls, the    *)
(* remote's death and the tear-down, as long as select, read and malloc    *)
(* work and the remote sends no bad index.                                 *)
(***************************************************************************)
THEOREM PacketsOwned ==
    ASSUME TransientFaults = FALSE PROVE Spec => []PacketOwnership
  <1>1. Init => OwnershipInv
    BY InitOwnership
  <1>2. OwnershipInv /\ [Next]_vars => OwnershipInv'
    BY NextOwnership
  <1>3. OwnershipInv => PacketOwnership
    BY DEF OwnershipInv
  <1> QED
    BY <1>1, <1>2, <1>3, PTL DEF Spec


-----------------------------------------------------------------------------
(***************************************************************************)
(* Whose answer is it?  Answers reach a stub by function index only, so    *)
(* what has to be shown is a count: in no function are there more answers  *)
(* due than threads waiting.                                               *)
(***************************************************************************)
Waiting(f) == {c \in Callers : pc[c] = "waiting" /\ fxn[c] = f}

\* Which call a message answers.
Ticket(m) == [idx |-> m.idx, to |-> m.to, call |-> m.call]

\* The calls to f whose answer is not in the pipe yet.
Due(f) ==
    {q \in Request :
        /\ q.idx = f
        /\ \/ q \in requests
           \/ \E i \in DOMAIN inbox : Ticket(inbox[i]) = q
           \/ cbPc = "dispatch" /\ Ticket(contents[pBuffer]) = q}

\* Is the listener's own error packet the last one pipe f will ever get?
FatalPosted(f) == eRPCError = "hardware" \/ (cbPc = "fatal" /\ f < nFxnIdx)

\* A dead link has nothing more to deliver; only a dead link is fatal.
LinkState ==
    /\ link = "dead" => requests = {} /\ inbox = <<>>
    /\ cbPc = "fatal" \/ eRPCError = "hardware" => link = "dead"

\* The answers on their way are to real calls, and no call has two.
Tickets ==
    /\ \A q \in requests : q.call <= calls[q.to]
    /\ \A i \in DOMAIN inbox : inbox[i].idx \in Fxns =>
        /\ Ticket(inbox[i]) \in Request \ requests
        /\ inbox[i].call <= calls[inbox[i].to]
        /\ \A j \in DOMAIN inbox : Ticket(inbox[j]) = Ticket(inbox[i]) => j = i
    /\ cbPc = "dispatch" /\ contents[pBuffer].idx \in Fxns =>
        /\ Ticket(contents[pBuffer]) \in Request \ requests
        /\ contents[pBuffer].call <= calls[contents[pBuffer].to]
        /\ \A i \in DOMAIN inbox : Ticket(inbox[i]) # Ticket(contents[pBuffer])

\* No more answers than waiting threads, but for the listener's error packet.
Balance(f) ==
    IF FatalPosted(f)
    THEN \/ pipe[f] = <<>>
         \/ /\ pipe[f][Len(pipe[f])] = ErrorPacket
            /\ Len(pipe[f]) <= Cardinality(Waiting(f)) + 1
    ELSE /\ IsFiniteSet(Due(f))
         /\ Cardinality(Due(f)) + Len(pipe[f]) <= Cardinality(Waiting(f))

Balanced == \A f \in Fxns : Balance(f)

\* A thread whose call is not shared is alone in its function.
Alone ==
    \A c \in Callers : pc[c] # "idle" /\ ~shared[c] =>
        \A d \in Callers \ {c} : pc[d] # "idle" => fxn[d] # fxn[c]

\* The answers due to its function, and those in its pipe, are for this call.
OwnDue(c) == \A q \in Due(fxn[c]) : q.to = c /\ q.call = calls[c]

OwnPosted(c) ==
    \A i \in DOMAIN pipe[fxn[c]] : pipe[fxn[c]][i] \in Packets =>
        Ticket(contents[pipe[fxn[c]][i]]) = [idx |-> fxn[c], to |-> c, call |-> calls[c]]

Own == \A c \in Callers : pc[c] = "waiting" /\ ~shared[c] => OwnDue(c) /\ OwnPosted(c)

AnswerInv == OwnershipInv /\ LinkState /\ Tickets /\ Balanced /\ Alone /\ Own /\ OwnAnswer

\* pBufferError is never freed, and a closed instance has nothing but it.
CloseState ==
    /\ ErrorPacket \in live /\ contents[ErrorPacket].result = "hardware"
    /\ inst # "open" => \A c \in Callers : pc[c] = "idle"
    /\ inst = "closed" => cbPc = "exited" /\ live = {ErrorPacket}

\* Nothing is due, posted or waited for at the start.
LEMMA InitAnswers == Init => AnswerInv /\ CloseState
  <1> SUFFICES ASSUME Init PROVE AnswerInv /\ CloseState
    OBVIOUS
  <1>1. OwnershipInv
    BY InitOwnership
  <1>2. LinkState /\ Tickets /\ Alone /\ Own /\ OwnAnswer
    BY DEF Init, LinkState, Tickets, Alone, Own, OwnAnswer
  <1>3. Balanced
    <2> SUFFICES ASSUME NEW f \in Fxns PROVE Balance(f)
      BY DEF Balanced
    <2>1. Due(f) = {} /\ Waiting(f) = {} /\ ~FatalPosted(f)
      BY DEF Init, Due, Waiting, FatalPosted
    <2>2. Len(pipe[f]) = 0
      BY DEF Init
    <2>3. IsFiniteSet({}) /\ Cardinality({}) = 0
      BY FS_EmptySet
    <2> QED
      BY <2>1, <2>2, <2>3 DEF Balance
  <1>4. CloseState
    BY DEF Init, CloseState, Unasked
  <1> QED
    BY <1>1, <1>2, <1>3, <1>4 DEF AnswerInv

\* The sets that are counted are finite.
LEMMA WaitingFinite ==
    ASSUME NEW f \in Fxns
    PROVE  IsFiniteSet(Waiting(f)) /\ Cardinality(Waiting(f)) \in Nat
  <1>1. Waiting(f) \subseteq Callers
    BY DEF Waiting
  <1>2. IsFiniteSet(Waiting(f))
    BY <1>1, FS_Subset
  <1> QED
    BY <1>2, FS_CardinalityType

\* A step that neither posts, takes nor begins anything keeps the balance.
LEMMA QuietStep ==
    ASSUME AnswerInv,
           UNCHANGED <<pipe, pc, fxn, calls, shared, pRetPacket>>,
           \A f \in Fxns : Due(f)' \subseteq Due(f),
           \A f \in Fxns : FatalPosted(f)' <=> FatalPosted(f),
           \A p \in Packets : PipeHolds(p) \/ StubHolds(p) => contents'[p] = contents[p]
    PROVE  Balanced' /\ Alone' /\ Own' /\ OwnAnswer'
  <1> USE DEF AnswerInv, OwnershipInv, TypeInv, TypeOK
  <1>1. Balanced'
    <2> SUFFICES ASSUME NEW f \in Fxns PROVE Balance(f)'
      BY DEF Balanced
    <2>1. Balance(f) /\ Waiting(f)' = Waiting(f) /\ pipe'[f] = pipe[f]
      BY DEF Balanced, Waiting
    <2>2. CASE FatalPosted(f)
      BY <2>1, <2>2 DEF Balance
    <2>3. CASE ~FatalPosted(f)
      <3>1. /\ IsFiniteSet(Due(f))
            /\ Cardinality(Due(f)) + Len(pipe[f]) <= Cardinality(Waiting(f))
        BY <2>1, <2>3 DEF Balance
      <3>2. IsFiniteSet(Due(f)') /\ Cardinality(Due(f)') <= Cardinality(Due(f))
        BY <3>1, FS_Subset
      <3>3. /\ Cardinality(Due(f)) \in Nat /\ Cardinality(Due(f)') \in Nat
            /\ Len(pipe[f]) \in Nat
        BY <3>1, <3>2, FS_CardinalityType
      <3>4. Cardinality(Due(f)') + Len(pipe[f]) <= Cardinality(Waiting(f))
        BY <3>1, <3>2, <3>3, WaitingFinite
      <3> QED
        BY <2>1, <2>3, <3>2, <3>4 DEF Balance
    <2> QED
      BY <2>2, <2>3
  <1>2. Alone'
    BY DEF Alone
  <1>3. Own'
    <2> SUFFICES ASSUME NEW c \in Callers, pc[c] = "waiting", ~shared[c]
                 PROVE  OwnDue(c)' /\ OwnPosted(c)'
      BY DEF Own
    <2>1. OwnDue(c) /\ OwnPosted(c) /\ fxn[c] \in Fxns
      BY DEF Own
    <2>2. OwnDue(c)'
      BY <2>1 DEF OwnDue
    <2>3. \A i \in DOMAIN pipe[fxn[c]] : pipe[fxn[c]][i] \in Packets =>
            contents'[pipe[fxn[c]][i]] = contents[pipe[fxn[c]][i]]
      BY <2>1 DEF PipeHolds
    <2>4. OwnPosted(c)'
      BY <2>1, <2>3 DEF OwnPosted
    <2> QED
      BY <2>2, <2>4
  <1>4. OwnAnswer'
    <2>1. \A c \in Callers : pc[c] = "got" /\ pRetPacket[c] # ErrorPacket =>
            contents'[pRetPacket[c]] = contents[pRetPacket[c]]
      BY DEF PointersSet, StubHolds
    <2> QED
      BY <2>1 DEF OwnAnswer
  <1> QED
    BY <1>1, <1>2, <1>3, <1>4

\* A step that moves no request and no message keeps the tickets.
LEMMA TicketsFrame ==
    ASSUME AnswerInv, TypeInv', UNCHANGED <<requests, inbox>>,
           \A c \in Callers : calls[c] <= calls'[c],
           cbPc' = "dispatch" => UNCHANGED <<cbPc, pBuffer, contents>>
    PROVE  Tickets'
  <1> USE DEF AnswerInv, OwnershipInv, TypeInv, TypeOK
  <1>1. \A c \in Callers, n \in 0 .. MaxCalls : n <= calls[c] => n <= calls'[c]
    OBVIOUS
  <1>2. ASSUME NEW q \in requests PROVE q.call <= calls'[q.to]
    <2>1. q.to \in Callers /\ q.call \in 1 .. MaxCalls
      BY DEF Request
    <2>2. q.call <= calls[q.to] /\ q.call \in 0 .. MaxCalls
      BY <2>1 DEF Tickets
    <2> QED
      BY <1>1, <2>1, <2>2
  <1>3. ASSUME NEW i \in DOMAIN inbox, inbox[i].idx \in Fxns
        PROVE  inbox[i].call <= calls'[inbox[i].to]
    <2>1. Ticket(inbox[i]) \in Request /\ inbox[i].call <= calls[inbox[i].to]
      BY <1>3 DEF Tickets
    <2>2. inbox[i] \in Message
      OBVIOUS
    <2>3. inbox[i].to \in Callers /\ inbox[i].call \in 0 .. MaxCalls
      BY <2>1, <2>2 DEF Ticket, Request, Message
    <2> QED
      BY <1>1, <2>1, <2>3
  <1>4. ASSUME cbPc' = "dispatch", contents'[pBuffer'].idx \in Fxns
        PROVE  contents'[pBuffer'].call <= calls'[contents'[pBuffer'].to]
    <2>1. /\ Ticket(contents[pBuffer]) \in Request
          /\ contents[pBuffer].call <= calls[contents[pBuffer].to]
      BY <1>4 DEF Tickets
    <2>2. contents[pBuffer] \in Message
      BY <1>4 DEF PointersSet
    <2>3. contents[pBuffer].to \in Callers /\ contents[pBuffer].call \in 0 .. MaxCalls
      BY <2>1, <2>2 DEF Ticket, Request, Message
    <2> QED
      BY <1>1, <1>4, <2>1, <2>3
  <1> QED
    BY <1>2, <1>3, <1>4 DEF Tickets

\* A step of the caller's or listener's that moves no message brings nothing due.
LEMMA DueFrame ==
    ASSUME UNCHANGED <<requests, inbox>>,
           cbPc' = "dispatch" => UNCHANGED <<cbPc, pBuffer, contents>>
    PROVE  \A f \in Fxns : Due(f)' \subseteq Due(f)
  BY DEF Due

\* The remote answers: a request becomes a message, due as before.
LEMMA AnswerKeeps ==
    ASSUME AnswerInv, NEW q \in requests, NEW r \in Results, Answer(q, r)
    PROVE  LinkState' /\ Tickets' /\ Balanced' /\ Alone' /\ Own' /\ OwnAnswer'
  <1> DEFINE m == [idx |-> q.idx, to |-> q.to, call |-> q.call, result |-> r]
             n == Len(inbox) + 1
  <1> USE DEF AnswerInv, OwnershipInv, TypeInv, TypeOK
  <1>1. /\ link = "up" /\ requests' = requests \ {q} /\ inbox' = Append(inbox, m)
        /\ UNCHANGED <<link, pipe, pc, fxn, calls, shared, pRetPacket, contents,
                       cbPc, pBuffer, eRPCError, nFxnIdx>>
    BY DEF Answer, heap, listenerVars, callerVars
  <1>2. /\ q \in Request /\ m \in Message /\ Ticket(m) = q /\ m.idx \in Fxns
        /\ m.call = q.call /\ m.to = q.to
    BY RequestFacts DEF Ticket, Request
  <1> HIDE DEF m
  <1>3. /\ DOMAIN inbox' = DOMAIN inbox \cup {n} /\ n \notin DOMAIN inbox
        /\ \A i \in DOMAIN inbox : inbox'[i] = inbox[i]
        /\ inbox'[n] = m
    BY <1>1, <1>2, AppendFacts
  <1> HIDE DEF n
  <1>4. \A f \in Fxns : Due(f)' \subseteq Due(f)
    BY <1>1, <1>2, <1>3 DEF Due
  <1>5. \A f \in Fxns : FatalPosted(f)' <=> FatalPosted(f)
    BY <1>1 DEF FatalPosted
  <1>6. Balanced' /\ Alone' /\ Own' /\ OwnAnswer'
    BY <1>1, <1>4, <1>5, QuietStep
  <1>7. LinkState'
    BY <1>1 DEF LinkState
  <1>8. Tickets'
    <2>1. \A i \in DOMAIN inbox : inbox[i].idx \in Fxns => Ticket(inbox[i]) # q
      BY DEF Tickets
    <2>2. \A i \in DOMAIN inbox : Ticket(inbox[i]) = q => inbox[i].idx \in Fxns
      BY <1>2 DEF Ticket, Request
    <2>3. \A i \in DOMAIN inbox : Ticket(inbox[i]) # q
      BY <2>1, <2>2
    <2>4. ASSUME NEW i \in DOMAIN inbox', inbox'[i].idx \in Fxns
          PROVE  /\ Ticket(inbox'[i]) \in Request \ requests'
                 /\ inbox'[i].call <= calls[inbox'[i].to]
                 /\ \A j \in DOMAIN inbox' : Ticket(inbox'[j]) = Ticket(inbox'[i]) => j = i
      <3>1. CASE i = n
        BY <1>1, <1>2, <1>3, <2>3, <3>1 DEF Tickets
      <3>2. CASE i \in DOMAIN inbox
        <4>1. inbox[i].idx \in Fxns /\ inbox'[i] = inbox[i]
          BY <1>3, <2>4, <3>2
        <4> QED
          BY <1>1, <1>2, <1>3, <2>3, <3>2, <4>1 DEF Tickets
      <3> QED
        BY <1>3, <3>1, <3>2
    <2>5. ASSUME cbPc = "dispatch", contents[pBuffer].idx \in Fxns
          PROVE  \A i \in DOMAIN inbox' : Ticket(inbox'[i]) # Ticket(contents[pBuffer])
      BY <1>2, <1>3, <2>5 DEF Tickets
    <2> QED
      BY <1>1, <2>4, <2>5 DEF Tickets
  <1> QED
    BY <1>6, <1>7, <1>8

\* An upcall is due to nobody.
LEMMA UpcallKeeps ==
    ASSUME AnswerInv, SendUpcall
    PROVE  LinkState' /\ Tickets' /\ Balanced' /\ Alone' /\ Own' /\ OwnAnswer'
  <1> DEFINE m == Unasked(CALLBACK, "none")
             n == Len(inbox) + 1
  <1> USE DEF AnswerInv, OwnershipInv, TypeInv, TypeOK
  <1>1. /\ link = "up" /\ inbox' = Append(inbox, m)
        /\ UNCHANGED <<link, requests, pipe, pc, fxn, calls, shared, pRetPacket, contents,
                       cbPc, pBuffer, eRPCError, nFxnIdx>>
    BY DEF SendUpcall, heap, listenerVars, callerVars, remoteVars
  <1>2. /\ m \in Message /\ m.idx \notin Fxns
    BY MessageFacts, FxnsFacts DEF Unasked
  <1> HIDE DEF m
  <1>3. /\ DOMAIN inbox' = DOMAIN inbox \cup {n} /\ n \notin DOMAIN inbox
        /\ \A i \in DOMAIN inbox : inbox'[i] = inbox[i]
        /\ inbox'[n] = m
    BY <1>1, <1>2, AppendFacts
  <1> HIDE DEF n
  <1>4. \A x \in Request : Ticket(m) # x
    BY <1>2 DEF Ticket, Request
  <1>5. \A f \in Fxns : Due(f)' \subseteq Due(f)
    BY <1>1, <1>3, <1>4 DEF Due
  <1>6. \A f \in Fxns : FatalPosted(f)' <=> FatalPosted(f)
    BY <1>1 DEF FatalPosted
  <1>7. Balanced' /\ Alone' /\ Own' /\ OwnAnswer'
    BY <1>1, <1>5, <1>6, QuietStep
  <1>8. LinkState'
    BY <1>1 DEF LinkState
  <1>9. Tickets'
    <2>1. ASSUME NEW i \in DOMAIN inbox', inbox'[i].idx \in Fxns
          PROVE  /\ Ticket(inbox'[i]) \in Request \ requests'
                 /\ inbox'[i].call <= calls[inbox'[i].to]
                 /\ \A j \in DOMAIN inbox' : Ticket(inbox'[j]) = Ticket(inbox'[i]) => j = i
      <3>1. i \in DOMAIN inbox /\ inbox'[i] = inbox[i] /\ inbox[i].idx \in Fxns
        BY <1>2, <1>3, <2>1
      <3> QED
        BY <1>1, <1>3, <1>4, <3>1 DEF Tickets
    <2>2. ASSUME cbPc = "dispatch", contents[pBuffer].idx \in Fxns
          PROVE  \A i \in DOMAIN inbox' : Ticket(inbox'[i]) # Ticket(contents[pBuffer])
      BY <1>3, <1>4, <2>2 DEF Tickets
    <2> QED
      BY <1>1, <2>1, <2>2 DEF Tickets
  <1> QED
    BY <1>7, <1>8, <1>9

\* The remote dies: what was due from it is due no more.
LEMMA LinkDiesKeeps ==
    ASSUME AnswerInv, LinkDies
    PROVE  LinkState' /\ Tickets' /\ Balanced' /\ Alone' /\ Own' /\ OwnAnswer'
  <1>1. /\ link' = "dead" /\ requests' = {} /\ inbox' = <<>>
        /\ UNCHANGED <<pipe, pc, fxn, calls, shared, pRetPacket, contents,
                       cbPc, pBuffer, eRPCError, nFxnIdx>>
    BY DEF LinkDies, heap, listenerVars, callerVars
  <1>2. \A f \in Fxns : Due(f)' \subseteq Due(f)
    BY <1>1 DEF Due
  <1>3. \A f \in Fxns : FatalPosted(f)' <=> FatalPosted(f)
    BY <1>1 DEF FatalPosted
  <1>4. Balanced' /\ Alone' /\ Own' /\ OwnAnswer'
    BY <1>1, <1>2, <1>3, QuietStep
  <1>5. LinkState' /\ Tickets'
    BY <1>1 DEF LinkState, Tickets, AnswerInv
  <1> QED
    BY <1>4, <1>5

\* The listener reads a message: it is due from the switch now.
LEMMA ReadKeeps ==
    ASSUME AnswerInv, CbRead
    PROVE  LinkState' /\ Tickets' /\ Balanced' /\ Alone' /\ Own' /\ OwnAnswer'
  <1> USE DEF AnswerInv, OwnershipInv, TypeInv, TypeOK
  <1>1. PICK p \in Packets : /\ p \notin live /\ pBuffer' = p
                             /\ contents' = [contents EXCEPT ![p] = Head(inbox)]
    BY DEF CbRead, GetPacket
  <1>2. /\ link = "up" /\ cbPc = "read" /\ cbPc' = "dispatch"
        /\ inbox # <<>> /\ inbox' = Tail(inbox)
        /\ UNCHANGED <<link, requests, pipe, pc, fxn, calls, shared, pRetPacket,
                       eRPCError, nFxnIdx>>
    BY DEF CbRead, callerVars, remoteVars
  <1>3. contents'[pBuffer'] = Head(inbox)
    BY <1>1
  <1>4. /\ \A i \in DOMAIN inbox' : i + 1 \in DOMAIN inbox /\ inbox'[i] = inbox[i + 1]
        /\ \A i \in DOMAIN inbox' : i \in Nat \ {0}
        /\ 1 \in DOMAIN inbox /\ Head(inbox) = inbox[1]
    BY <1>2, TailFacts
  <1>5. \A f \in Fxns : Due(f)' \subseteq Due(f)
    BY <1>2, <1>3, <1>4 DEF Due
  <1>6. \A f \in Fxns : FatalPosted(f)' <=> FatalPosted(f)
    BY <1>2 DEF FatalPosted
  <1>7. \A x \in Packets : PipeHolds(x) \/ StubHolds(x) => contents'[x] = contents[x]
    <2>1. \A x \in Packets : PipeHolds(x) \/ StubHolds(x) => x # p
      BY <1>1 DEF PacketOwnership, HeldIsLive
    <2> QED
      BY <1>1, <2>1
  <1>8. Balanced' /\ Alone' /\ Own' /\ OwnAnswer'
    BY <1>2, <1>5, <1>6, <1>7, QuietStep
  <1>9. LinkState'
    BY <1>2 DEF LinkState
  <1>10. Tickets'
    <2>1. \A i, j \in DOMAIN inbox : inbox[i].idx \in Fxns =>
            (Ticket(inbox[j]) = Ticket(inbox[i]) => j = i)
      BY DEF Tickets
    <2>2. ASSUME NEW i \in DOMAIN inbox', inbox'[i].idx \in Fxns
          PROVE  /\ Ticket(inbox'[i]) \in Request \ requests'
                 /\ inbox'[i].call <= calls[inbox'[i].to]
                 /\ \A j \in DOMAIN inbox' : Ticket(inbox'[j]) = Ticket(inbox'[i]) => j = i
      <3>1. i + 1 \in DOMAIN inbox /\ inbox'[i] = inbox[i + 1]
        BY <1>4
      <3>2. Ticket(inbox'[i]) \in Request \ requests' /\ inbox'[i].call <= calls[inbox'[i].to]
        BY <1>2, <2>2, <3>1 DEF Tickets
      <3>3. ASSUME NEW j \in DOMAIN inbox', Ticket(inbox'[j]) = Ticket(inbox'[i])
            PROVE  j = i
        <4>1. j + 1 \in DOMAIN inbox /\ inbox'[j] = inbox[j + 1]
          BY <1>4
        <4>2. j + 1 = i + 1
          BY <2>1, <2>2, <3>1, <3>3, <4>1
        <4> QED
          BY <1>4, <4>2
      <3> QED
        BY <3>2, <3>3
    <2>3. ASSUME Head(inbox).idx \in Fxns
          PROVE  /\ Ticket(Head(inbox)) \in Request \ requests'
                 /\ Head(inbox).call <= calls[Head(inbox).to]
                 /\ \A i \in DOMAIN inbox' : Ticket(inbox'[i]) # Ticket(Head(inbox))
      <3>1. /\ Ticket(Head(inbox)) \in Request \ requests'
            /\ Head(inbox).call <= calls[Head(inbox).to]
        BY <1>2, <1>4, <2>3 DEF Tickets
      <3>2. ASSUME NEW i \in DOMAIN inbox', Ticket(inbox'[i]) = Ticket(Head(inbox))
            PROVE  FALSE
        <4>1. i + 1 \in DOMAIN inbox /\ inbox'[i] = inbox[i + 1] /\ i \in Nat \ {0}
          BY <1>4
        <4>2. i + 1 = 1
          BY <1>4, <2>1, <2>3, <3>2, <4>1
        <4> QED
          BY <4>1, <4>2
      <3> QED
        BY <3>1, <3>2
    <2>4. \A x \in requests' : x.call <= calls'[x.to]
      BY <1>2 DEF Tickets
    <2> QED
      BY <1>2, <1>3, <2>2, <2>3, <2>4 DEF Tickets
  <1> QED
    BY <1>8, <1>9, <1>10

\* The steps of the listener and the tear-down that move no message.
LEMMA ListenerKeeps ==
    ASSUME AnswerInv, TypeInv',
           CbKilled \/ CbReadable \/ CbReadFatal \/ CbFatalDone \/ CbUpcall
           \/ CbExit \/ KillListener \/ UNCHANGED vars
    PROVE  LinkState' /\ Tickets' /\ Balanced' /\ Alone' /\ Own' /\ OwnAnswer'
  <1> USE DEF AnswerInv, OwnershipInv, TypeInv, TypeOK
  <1>1. /\ UNCHANGED <<link, requests, inbox, pipe, pc, fxn, calls, shared, pRetPacket,
                       contents>>
        /\ cbPc' = "dispatch" => UNCHANGED <<cbPc, pBuffer, contents>>
    BY DEF CbKilled, CbReadable, CbReadFatal, CbFatalDone, CbUpcall, CbExit, KillListener,
       vars, callerVars, listenerVars, remoteVars, heap, ExitErrors
  <1>2. /\ \A f \in Fxns : FatalPosted(f)' <=> FatalPosted(f)
        /\ cbPc' = "fatal" \/ eRPCError' = "hardware" =>
              link = "dead" \/ cbPc = "fatal" \/ eRPCError = "hardware"
    <2>1. CASE CbKilled \/ CbReadable \/ CbUpcall \/ KillListener \/ UNCHANGED vars
      BY <2>1 DEF FatalPosted, CbKilled, CbReadable, CbUpcall, KillListener, vars, listenerVars
    <2>2. CASE CbReadFatal
      <3>1. /\ cbPc = "read" /\ cbPc' = "fatal" /\ nFxnIdx' = 0 /\ eRPCError' = eRPCError
            /\ link = "dead"
        BY <2>2 DEF CbReadFatal
      <3>2. \A f \in Fxns : ~(f < 0)
        BY DEF Fxns
      <3> QED
        BY <3>1, <3>2 DEF FatalPosted
    <2>3. CASE CbFatalDone
      <3>1. /\ cbPc = "fatal" /\ nFxnIdx = NFxns /\ eRPCError' = "hardware"
        BY <2>3 DEF CbFatalDone, FatalLoopEnd
      <3>2. \A f \in Fxns : f < NFxns
        BY DEF Fxns
      <3> QED
        BY <3>1, <3>2 DEF FatalPosted
    <2>4. CASE CbExit
      BY <2>4 DEF CbExit, FatalPosted, ExitErrors
    <2> QED
      BY <2>1, <2>2, <2>3, <2>4
  <1>3. \A f \in Fxns : Due(f)' \subseteq Due(f)
    BY <1>1, DueFrame
  <1>4. Balanced' /\ Alone' /\ Own' /\ OwnAnswer'
    BY <1>1, <1>2, <1>3, QuietStep
  <1>5. LinkState'
    BY <1>1, <1>2 DEF LinkState
  <1>6. \A c \in Callers : calls[c] <= calls'[c]
    BY <1>1
  <1>7. Tickets'
    BY <1>1, <1>6, TicketsFrame
  <1> QED
    BY <1>4, <1>5, <1>7

\* A request that cannot be written leaves the thread idle.
LEMMA SendFailsKeeps ==
    ASSUME AnswerInv, TypeInv', NEW c \in Callers, NEW f \in Fxns, SendPacketFails(c, f)
    PROVE  LinkState' /\ Tickets' /\ Balanced' /\ Alone' /\ Own' /\ OwnAnswer'
  <1> USE DEF AnswerInv, OwnershipInv, TypeInv, TypeOK
  <1>1. /\ pc[c] = "idle" /\ calls' = [calls EXCEPT ![c] = calls[c] + 1]
        /\ fxn' = [fxn EXCEPT ![c] = f]
        /\ UNCHANGED <<link, requests, inbox, pipe, pc, shared, pRetPacket, contents,
                       cbPc, pBuffer, eRPCError, nFxnIdx>>
    BY DEF SendPacketFails, BeginCall, remoteVars, heap, listenerVars
  <1>2. /\ \A d \in Callers \ {c} : fxn'[d] = fxn[d] /\ calls'[d] = calls[d]
        /\ calls[c] <= calls'[c]
    BY <1>1
  <1>3. ASSUME NEW d \in Callers PROVE calls[d] <= calls'[d]
    <2>1. calls[d] \in 0 .. MaxCalls /\ calls[d] <= calls[d]
      OBVIOUS
    <2>2. d # c => calls'[d] = calls[d]
      BY <1>2
    <2> QED
      BY <1>2, <2>1, <2>2
  <1>4. Tickets' /\ \A g \in Fxns : Due(g)' = Due(g)
    BY <1>1, <1>3, TicketsFrame DEF Due
  <1>5. \A g \in Fxns : Waiting(g)' = Waiting(g) /\ (FatalPosted(g)' <=> FatalPosted(g))
    BY <1>1, <1>2 DEF Waiting, FatalPosted
  <1>6. Balanced' /\ LinkState'
    BY <1>1, <1>4, <1>5 DEF Balanced, Balance, LinkState
  <1>7. Alone'
    BY <1>1, <1>2 DEF Alone
  <1>8. Own'
    <2> SUFFICES ASSUME NEW d \in Callers, pc[d] = "waiting", ~shared[d]
                 PROVE  OwnDue(d)' /\ OwnPosted(d)'
      BY <1>1 DEF Own
    <2>1. fxn'[d] = fxn[d] /\ calls'[d] = calls[d] /\ OwnDue(d) /\ OwnPosted(d)
      BY <1>1, <1>2 DEF Own
    <2> QED
      BY <1>1, <1>4, <2>1 DEF OwnDue, OwnPosted
  <1>9. OwnAnswer'
    BY <1>1, <1>2 DEF OwnAnswer
  <1> QED
    BY <1>4, <1>6, <1>7, <1>8, <1>9

\* Where nobody waits nothing is due, and only an error packet may be posted.
LEMMA NobodyWaits ==
    ASSUME AnswerInv, NEW f \in Fxns, Waiting(f) = {}
    PROVE  /\ \A i \in DOMAIN pipe[f] : pipe[f][i] = ErrorPacket
           /\ ~FatalPosted(f) => Due(f) = {} /\ pipe[f] = <<>>
  <1> USE DEF AnswerInv, OwnershipInv, TypeInv, TypeOK
  <1>1. /\ Balance(f) /\ Cardinality(Waiting(f)) = 0
        /\ pipe[f] \in Seq(Packets \cup {ErrorPacket}) /\ Len(pipe[f]) \in Nat
    BY FS_EmptySet DEF Balanced
  <1>2. CASE FatalPosted(f)
    <2>1. pipe[f] = <<>> \/ (pipe[f][Len(pipe[f])] = ErrorPacket /\ Len(pipe[f]) <= 1)
      BY <1>1, <1>2 DEF Balance
    <2> QED
      BY <1>1, <1>2, <2>1
  <1>3. CASE ~FatalPosted(f)
    <2>1. IsFiniteSet(Due(f)) /\ Cardinality(Due(f)) + Len(pipe[f]) <= 0
      BY <1>1, <1>3 DEF Balance
    <2>2. Cardinality(Due(f)) \in Nat
      BY <2>1, FS_CardinalityType
    <2>3. Cardinality(Due(f)) = 0 /\ Len(pipe[f]) = 0
      BY <1>1, <2>1, <2>2
    <2>4. Due(f) = {}
      BY <2>1, <2>3, FS_EmptySet
    <2>5. pipe[f] = <<>>
      BY <1>1, <2>3
    <2> QED
      BY <2>4, <2>5
  <1> QED
    BY <1>2, <1>3

\* A stub sends its request: one more is due, and one more thread waits.
LEMMA SendKeeps ==
    ASSUME AnswerInv, TypeInv', NEW c \in Callers, NEW f \in Fxns, SendPacket(c, f)
    PROVE  LinkState' /\ Tickets' /\ Balanced' /\ Alone' /\ Own' /\ OwnAnswer'
  <1> DEFINE q == [idx |-> f, to |-> c, call |-> calls[c] + 1]
  <1> USE DEF AnswerInv, OwnershipInv, TypeInv, TypeOK
  <1>1. /\ pc[c] = "idle" /\ calls' = [calls EXCEPT ![c] = calls[c] + 1]
        /\ calls[c] < MaxCalls
        /\ fxn' = [fxn EXCEPT ![c] = f] /\ pc' = [pc EXCEPT ![c] = "waiting"]
        /\ requests' = requests \cup {q} /\ link = "up"
        /\ shared' = [d \in Callers |->
                       IF d = c THEN \E e \in Callers \ {c} : pc[e] # "idle" /\ fxn[e] = f
                       ELSE shared[d] \/ (pc[d] # "idle" /\ fxn[d] = f)]
        /\ UNCHANGED <<link, inbox, pipe, pRetPacket, contents, cbPc, pBuffer, eRPCError,
                       nFxnIdx>>
    BY DEF SendPacket, BeginCall, heap, listenerVars
  <1>2. /\ \A d \in Callers \ {c} : /\ fxn'[d] = fxn[d] /\ calls'[d] = calls[d]
                                    /\ pc'[d] = pc[d]
        /\ fxn'[c] = f /\ pc'[c] = "waiting" /\ calls'[c] = calls[c] + 1
    BY <1>1
  <1>3. calls[c] \in 0 .. MaxCalls /\ calls[c] + 1 \in 1 .. MaxCalls
    BY <1>1
  <1>4. q \in Request /\ q.idx = f /\ q.to = c /\ q.call = calls[c] + 1
    BY <1>3 DEF Request
  <1> HIDE DEF q
  <1>5. \A g \in Fxns : ~FatalPosted(g) /\ ~FatalPosted(g)'
    BY <1>1 DEF FatalPosted, LinkState
  <1>6. \A g \in Fxns \ {f} : Due(g)' = Due(g) /\ Waiting(g)' = Waiting(g)
    BY <1>1, <1>2, <1>4 DEF Due, Waiting
  <1>7. Due(f)' = Due(f) \cup {q}
    BY <1>1, <1>4 DEF Due
  <1>8. Waiting(f)' = Waiting(f) \cup {c} /\ c \notin Waiting(f)
    BY <1>1, <1>2 DEF Waiting
  <1>9. ASSUME NEW d \in Callers, NEW n \in 0 .. MaxCalls, n <= calls[d]
        PROVE  n <= calls'[d]
    <2>1. CASE d = c
      BY <1>2, <1>3, <1>9, <2>1
    <2>2. CASE d # c
      BY <1>2, <1>9, <2>2
    <2> QED
      BY <2>1, <2>2
  <1>10. Balanced'
    <2>1. \A g \in Fxns \ {f} : Balance(g)'
      BY <1>1, <1>5, <1>6 DEF Balanced, Balance
    <2>2. /\ IsFiniteSet(Due(f))
          /\ Cardinality(Due(f)) + Len(pipe[f]) <= Cardinality(Waiting(f))
      BY <1>5 DEF Balanced, Balance
    <2>3. Cardinality(Waiting(f)') = Cardinality(Waiting(f)) + 1
      <3>1. Cardinality(Waiting(f) \cup {c}) = Cardinality(Waiting(f)) + 1
        BY <1>8, WaitingFinite, FS_AddElement
      <3> QED
        BY <1>8, <3>1
    <2>4. /\ IsFiniteSet(Due(f)')
          /\ \/ Cardinality(Due(f)') = Cardinality(Due(f))
             \/ Cardinality(Due(f)') = Cardinality(Due(f)) + 1
      <3>1. IsFiniteSet(Due(f) \cup {q})
        BY <2>2, FS_AddElement
      <3>2. CASE q \in Due(f)
        <4>1. Due(f)' = Due(f)
          BY <1>7, <3>2
        <4> QED
          BY <2>2, <4>1
      <3>3. CASE q \notin Due(f)
        <4>1. Cardinality(Due(f) \cup {q}) = Cardinality(Due(f)) + 1
          BY <2>2, <3>3, FS_AddElement
        <4> QED
          BY <1>7, <3>1, <4>1
      <3> QED
        BY <3>2, <3>3
    <2>5. /\ Cardinality(Due(f)) \in Nat /\ Len(pipe[f]) \in Nat
          /\ Cardinality(Waiting(f)) \in Nat
      BY <2>2, FS_CardinalityType, WaitingFinite
    <2>6. Cardinality(Due(f)') + Len(pipe[f]) <= Cardinality(Waiting(f)')
      <3>1. CASE Cardinality(Due(f)') = Cardinality(Due(f))
        BY <2>2, <2>3, <2>5, <3>1
      <3>2. CASE Cardinality(Due(f)') = Cardinality(Due(f)) + 1
        BY <2>2, <2>3, <2>5, <3>2
      <3> QED
        BY <2>4, <3>1, <3>2
    <2>7. Balance(f)'
      BY <1>1, <1>5, <2>4, <2>6 DEF Balance
    <2> QED
      BY <2>1, <2>7 DEF Balanced
  <1>11. LinkState'
    BY <1>1 DEF LinkState
  <1>12. Tickets'
    <2>1. \A i \in DOMAIN inbox : inbox[i].idx \in Fxns => Ticket(inbox[i]) # q
      <3> SUFFICES ASSUME NEW i \in DOMAIN inbox, inbox[i].idx \in Fxns, Ticket(inbox[i]) = q
                   PROVE  FALSE
        OBVIOUS
      <3>1. inbox[i].to = c /\ inbox[i].call = calls[c] + 1
        BY <1>4 DEF Ticket
      <3>2. inbox[i].call <= calls[c]
        BY <3>1 DEF Tickets
      <3> QED
        BY <1>3, <3>1, <3>2
    <2>2. cbPc = "dispatch" /\ contents[pBuffer].idx \in Fxns => Ticket(contents[pBuffer]) # q
      <3> SUFFICES ASSUME cbPc = "dispatch", contents[pBuffer].idx \in Fxns,
                          Ticket(contents[pBuffer]) = q
                   PROVE  FALSE
        OBVIOUS
      <3>1. contents[pBuffer].to = c /\ contents[pBuffer].call = calls[c] + 1
        BY <1>4 DEF Ticket
      <3>2. contents[pBuffer].call <= calls[c]
        BY <3>1 DEF Tickets
      <3> QED
        BY <1>3, <3>1, <3>2
    <2>3. ASSUME NEW x \in requests' PROVE x.call <= calls'[x.to]
      <3>1. CASE x = q
        BY <1>2, <1>3, <1>4, <3>1
      <3>2. CASE x \in requests
        <4>1. x.to \in Callers /\ x.call \in 1 .. MaxCalls /\ x.call <= calls[x.to]
          BY <3>2 DEF Request, Tickets
        <4>2. x.call \in 0 .. MaxCalls
          <5>1. \A n \in 1 .. MaxCalls : n \in 0 .. MaxCalls
            OBVIOUS
          <5> QED
            BY <4>1, <5>1
        <4> QED
          BY <1>9, <4>1, <4>2
      <3> QED
        BY <1>1, <3>1, <3>2
    <2>4. ASSUME NEW i \in DOMAIN inbox, inbox[i].idx \in Fxns
          PROVE  inbox[i].call <= calls'[inbox[i].to]
      <3>1. Ticket(inbox[i]) \in Request /\ inbox[i].call <= calls[inbox[i].to]
        BY <2>4 DEF Tickets
      <3>2. inbox[i] \in Message
        OBVIOUS
      <3>3. inbox[i].to \in Callers /\ inbox[i].call \in 0 .. MaxCalls
        BY <3>1, <3>2 DEF Ticket, Request, Message
      <3> QED
        BY <1>9, <3>1, <3>3
    <2>5. ASSUME cbPc = "dispatch", contents[pBuffer].idx \in Fxns
          PROVE  contents[pBuffer].call <= calls'[contents[pBuffer].to]
      <3>1. /\ Ticket(contents[pBuffer]) \in Request
            /\ contents[pBuffer].call <= calls[contents[pBuffer].to]
        BY <2>5 DEF Tickets
      <3>2. contents[pBuffer] \in Message
        BY <2>5 DEF PointersSet
      <3>3. contents[pBuffer].to \in Callers /\ contents[pBuffer].call \in 0 .. MaxCalls
        BY <3>1, <3>2 DEF Ticket, Request, Message
      <3> QED
        BY <1>9, <3>1, <3>3
    <2> QED
      BY <1>1, <2>1, <2>2, <2>3, <2>4, <2>5 DEF Tickets
  <1>13. Alone'
    <2> SUFFICES ASSUME NEW d \in Callers, pc'[d] # "idle", ~shared'[d],
                        NEW e \in Callers \ {d}, pc'[e] # "idle"
                 PROVE  fxn'[e] # fxn'[d]
      BY DEF Alone
    <2>1. CASE d = c
      <3>1. ~(pc[e] # "idle" /\ fxn[e] = f)
        BY <1>1, <2>1
      <3> QED
        BY <1>2, <2>1, <3>1
    <2>2. CASE d # c
      <3>1. ~shared[d] /\ ~(pc[d] # "idle" /\ fxn[d] = f)
        BY <1>1, <2>2
      <3>2. CASE e = c
        BY <1>2, <2>2, <3>1, <3>2
      <3>3. CASE e # c
        BY <1>2, <2>2, <3>1, <3>3 DEF Alone
      <3> QED
        BY <3>2, <3>3
    <2> QED
      BY <2>1, <2>2
  <1>14. Own'
    <2> SUFFICES ASSUME NEW d \in Callers, pc'[d] = "waiting", ~shared'[d]
                 PROVE  OwnDue(d)' /\ OwnPosted(d)'
      BY DEF Own
    <2>1. CASE d = c
      <3>1. \A e \in Callers \ {c} : ~(pc[e] # "idle" /\ fxn[e] = f)
        BY <1>1, <2>1
      <3>2. Waiting(f) = {}
        BY <1>1, <3>1 DEF Waiting
      <3>3. Due(f) = {} /\ pipe[f] = <<>>
        BY <1>5, <3>2, NobodyWaits
      <3>4. Due(f)' = {q} /\ pipe'[f] = <<>>
        BY <1>1, <1>7, <3>3
      <3> QED
        BY <1>2, <1>4, <2>1, <3>4 DEF OwnDue, OwnPosted
    <2>2. CASE d # c
      <3>1. /\ fxn'[d] = fxn[d] /\ calls'[d] = calls[d] /\ pc[d] = "waiting"
            /\ ~shared[d] /\ fxn[d] # f
        BY <1>1, <1>2, <2>2
      <3>2. OwnDue(d) /\ OwnPosted(d) /\ Due(fxn[d])' = Due(fxn[d])
        BY <1>6, <3>1 DEF Own
      <3> QED
        BY <1>1, <3>1, <3>2 DEF OwnDue, OwnPosted
    <2> QED
      BY <2>1, <2>2
  <1>15. OwnAnswer'
    BY <1>1, <1>2 DEF OwnAnswer
  <1> QED
    BY <1>10, <1>11, <1>12, <1>13, <1>14, <1>15

\* One element fewer.
LEMMA RemoveOne ==
    ASSUME NEW S, IsFiniteSet(S), NEW x \in S
    PROVE  /\ IsFiniteSet(S \ {x})
           /\ Cardinality(S \ {x}) = Cardinality(S) - 1
           /\ Cardinality(S \ {x}) \in Nat
  BY FS_RemoveElement, FS_CardinalityType

\* A stub takes the oldest packet: one fewer posted, and one fewer waiting.
LEMMA ReadFromPipeKeeps ==
    ASSUME AnswerInv, TypeInv', NEW c \in Callers, ReadFromPipe(c)
    PROVE  LinkState' /\ Tickets' /\ Balanced' /\ Alone' /\ Own' /\ OwnAnswer'
  <1> USE DEF AnswerInv, OwnershipInv, TypeInv, TypeOK
  <1>0. PICK f \in Fxns : f = fxn[c]
    OBVIOUS
  <1>1. /\ pc[c] = "waiting" /\ pc' = [pc EXCEPT ![c] = "got"]
        /\ pRetPacket' = [pRetPacket EXCEPT ![c] = Head(pipe[f])]
        /\ pipe' = [pipe EXCEPT ![f] = Tail(pipe[f])] /\ pipe[f] # <<>>
        /\ UNCHANGED <<link, requests, inbox, fxn, calls, shared, contents,
                       cbPc, pBuffer, eRPCError, nFxnIdx>>
    BY <1>0 DEF ReadFromPipe, remoteVars, heap, listenerVars
  <1>2. /\ pipe'[f] = Tail(pipe[f]) /\ pipe[f] \in Seq(Packets \cup {ErrorPacket})
        /\ \A g \in Fxns \ {f} : pipe'[g] = pipe[g]
    BY <1>1
  <1>3. /\ \A i \in DOMAIN pipe'[f] : i + 1 \in DOMAIN pipe[f] /\ pipe'[f][i] = pipe[f][i + 1]
        /\ 1 \in DOMAIN pipe[f] /\ Head(pipe[f]) = pipe[f][1]
    BY <1>1, <1>2, TailFacts
  <1>4. /\ \A d \in Callers \ {c} : pc'[d] = pc[d] /\ pRetPacket'[d] = pRetPacket[d]
        /\ pc'[c] = "got" /\ pRetPacket'[c] = Head(pipe[f])
    BY <1>1
  <1>5. \A g \in Fxns : Due(g)' = Due(g) /\ (FatalPosted(g)' <=> FatalPosted(g))
    BY <1>1 DEF Due, FatalPosted
  <1>6. \A g \in Fxns \ {f} : Waiting(g)' = Waiting(g)
    BY <1>0, <1>1, <1>4 DEF Waiting
  <1>7. Waiting(f)' = Waiting(f) \ {c} /\ c \in Waiting(f)
    BY <1>0, <1>1, <1>4 DEF Waiting
  <1>8. Cardinality(Waiting(f)') = Cardinality(Waiting(f)) - 1
    <2>1. IsFiniteSet(Waiting(f)) /\ c \in Waiting(f)
      BY <1>7, WaitingFinite
    <2>2. Cardinality(Waiting(f) \ {c}) = Cardinality(Waiting(f)) - 1
      BY <2>1, RemoveOne
    <2> QED
      BY <1>7, <2>2
  <1>9. Balanced'
    <2>1. ASSUME NEW g \in Fxns, g # f PROVE Balance(g)'
      <3>1. /\ Balance(g) /\ pipe'[g] = pipe[g] /\ Due(g)' = Due(g)
            /\ Waiting(g)' = Waiting(g) /\ (FatalPosted(g)' <=> FatalPosted(g))
        BY <1>2, <1>5, <1>6, <2>1 DEF Balanced
      <3> QED
        BY <3>1 DEF Balance
    <2>2. /\ Len(pipe[f]) \in Nat \ {0} /\ Len(pipe'[f]) = Len(pipe[f]) - 1
          /\ Cardinality(Waiting(f)) \in Nat
          /\ pipe'[f] # <<>> => pipe'[f][Len(pipe'[f])] = pipe[f][Len(pipe[f])]
      <3>1. /\ Len(pipe[f]) \in Nat \ {0} /\ Len(Tail(pipe[f])) = Len(pipe[f]) - 1
            /\ Tail(pipe[f]) # <<>> =>
                 Tail(pipe[f])[Len(Tail(pipe[f]))] = pipe[f][Len(pipe[f])]
        BY <1>1, <1>2
      <3> QED
        BY <1>2, <3>1, WaitingFinite
    <2>3. Balance(f)'
      <3>3. CASE FatalPosted(f)
        <4>1. /\ pipe[f][Len(pipe[f])] = ErrorPacket
              /\ Len(pipe[f]) <= Cardinality(Waiting(f)) + 1
          BY <1>1, <3>3 DEF Balanced, Balance
        <4>2. Len(pipe'[f]) <= Cardinality(Waiting(f)') + 1
          BY <1>8, <2>2, <4>1
        <4> QED
          BY <1>5, <2>2, <3>3, <4>1, <4>2 DEF Balance
      <3>4. CASE ~FatalPosted(f)
        <4>1. /\ IsFiniteSet(Due(f))
              /\ Cardinality(Due(f)) + Len(pipe[f]) <= Cardinality(Waiting(f))
          BY <3>4 DEF Balanced, Balance
        <4>2. Cardinality(Due(f)) \in Nat
          BY <4>1, FS_CardinalityType
        <4>3. Cardinality(Due(f)) + Len(pipe'[f]) <= Cardinality(Waiting(f)')
          <5>1. PICK d \in Nat : d = Cardinality(Due(f))
            BY <4>2
          <5>2. PICK w \in Nat : w = Cardinality(Waiting(f))
            BY <2>2
          <5>3. PICK l \in Nat : l = Len(pipe[f])
            BY <2>2
          <5>4. d + l <= w
            BY <4>1, <5>1, <5>2, <5>3
          <5>5. d + (l - 1) <= w - 1
            BY <5>4
          <5> QED
            BY <1>8, <2>2, <5>1, <5>2, <5>3, <5>5
        <4> QED
          BY <1>5, <3>4, <4>1, <4>3 DEF Balance
      <3> QED
        BY <3>3, <3>4
    <2> QED
      BY <2>1, <2>3 DEF Balanced
  <1>10. LinkState'
    BY <1>1 DEF LinkState
  <1>11. Tickets'
    <2>1. \A d \in Callers : calls[d] <= calls'[d]
      BY <1>1
    <2> QED
      BY <1>1, <2>1, TicketsFrame
  <1>12. Alone'
    <2>1. \A d \in Callers : pc'[d] # "idle" => pc[d] # "idle"
      BY <1>1, <1>4
    <2> QED
      BY <1>1, <2>1 DEF Alone
  <1>13. Own'
    <2> SUFFICES ASSUME NEW d \in Callers, pc'[d] = "waiting", ~shared'[d]
                 PROVE  OwnDue(d)' /\ OwnPosted(d)'
      BY DEF Own
    <2>1. pc[d] = "waiting" /\ ~shared[d] /\ d # c
      BY <1>1, <1>4
    <2>2. OwnDue(d) /\ OwnPosted(d) /\ fxn'[d] = fxn[d] /\ fxn[d] \in Fxns
      BY <1>1, <2>1 DEF Own
    <2>3. fxn[d] # f
      BY <1>0, <1>1, <2>1 DEF Alone
    <2>4. pipe'[fxn[d]] = pipe[fxn[d]]
      BY <1>2, <2>2, <2>3
    <2> QED
      BY <1>1, <1>5, <2>2, <2>4 DEF OwnDue, OwnPosted
  <1>14. OwnAnswer'
    <2> SUFFICES ASSUME NEW d \in Callers, pc'[d] = "got", ~shared'[d],
                        pRetPacket'[d] # ErrorPacket
                 PROVE  LET m == contents'[pRetPacket'[d]]
                        IN  m.to = d /\ m.call = calls'[d] /\ m.idx = fxn'[d]
      BY DEF OwnAnswer
    <2>1. CASE d = c
      <3>1. OwnPosted(c) /\ pRetPacket'[c] = pipe[f][1] /\ pipe[f][1] \in Packets
        BY <1>1, <1>2, <1>3, <1>4, <2>1 DEF Own
      <3>2. Ticket(contents[pipe[f][1]]) = [idx |-> f, to |-> c, call |-> calls[c]]
        BY <1>0, <1>3, <3>1 DEF OwnPosted
      <3> QED
        BY <1>0, <1>1, <2>1, <3>1, <3>2 DEF Ticket
    <2>2. CASE d # c
      BY <1>1, <1>4, <2>2 DEF OwnAnswer
    <2> QED
      BY <2>1, <2>2
  <1> QED
    BY <1>9, <1>10, <1>11, <1>12, <1>13, <1>14

\* A stub returns: the thread was not waiting any more.
LEMMA StubReturnKeeps ==
    ASSUME AnswerInv, TypeInv', NEW c \in Callers, StubReturn(c)
    PROVE  LinkState' /\ Tickets' /\ Balanced' /\ Alone' /\ Own' /\ OwnAnswer'
  <1> USE DEF AnswerInv, OwnershipInv, TypeInv, TypeOK
  <1>1. /\ pc[c] = "got" /\ pc' = [pc EXCEPT ![c] = "idle"]
        /\ pRetPacket' = [pRetPacket EXCEPT ![c] = NULL]
        /\ UNCHANGED <<link, requests, inbox, pipe, fxn, calls, shared, contents,
                       cbPc, pBuffer, eRPCError, nFxnIdx>>
    BY DEF StubReturn, remoteVars, listenerVars
  <1>2. /\ \A d \in Callers \ {c} : pc'[d] = pc[d] /\ pRetPacket'[d] = pRetPacket[d]
        /\ pc'[c] = "idle"
    BY <1>1
  <1>3. \A g \in Fxns : /\ Due(g)' = Due(g) /\ (FatalPosted(g)' <=> FatalPosted(g))
                        /\ Waiting(g)' = Waiting(g)
    BY <1>1, <1>2 DEF Due, FatalPosted, Waiting
  <1>4. Balanced' /\ LinkState'
    BY <1>1, <1>3 DEF Balanced, Balance, LinkState
  <1>5. Tickets'
    <2>1. \A d \in Callers : calls[d] <= calls'[d]
      BY <1>1
    <2> QED
      BY <1>1, <2>1, TicketsFrame
  <1>6. Alone'
    <2>1. \A d \in Callers : pc'[d] # "idle" => pc[d] # "idle"
      BY <1>1, <1>2
    <2> QED
      BY <1>1, <2>1 DEF Alone
  <1>7. Own'
    <2> SUFFICES ASSUME NEW d \in Callers, pc'[d] = "waiting", ~shared'[d]
                 PROVE  OwnDue(d)' /\ OwnPosted(d)'
      BY DEF Own
    <2>1. OwnDue(d) /\ OwnPosted(d) /\ fxn'[d] = fxn[d] /\ fxn[d] \in Fxns
      BY <1>1, <1>2 DEF Own
    <2> QED
      BY <1>1, <1>3, <2>1 DEF OwnDue, OwnPosted
  <1>8. OwnAnswer'
    BY <1>1, <1>2 DEF OwnAnswer
  <1> QED
    BY <1>4, <1>5, <1>6, <1>7, <1>8

\* What posting a packet does to the pipes.
LEMMA PostFacts ==
    ASSUME TypeInv, NEW f \in Fxns, NEW p \in Packets \cup {ErrorPacket},
           pipe' = [pipe EXCEPT ![f] = Append(pipe[f], p)]
    PROVE  /\ DOMAIN pipe'[f] = DOMAIN pipe[f] \cup {Len(pipe[f]) + 1}
           /\ \A i \in DOMAIN pipe[f] : pipe'[f][i] = pipe[f][i]
           /\ pipe'[f][Len(pipe[f]) + 1] = p
           /\ Len(pipe[f]) \in Nat /\ Len(pipe'[f]) = Len(pipe[f]) + 1
           /\ \A g \in Fxns \ {f} : pipe'[g] = pipe[g]
  <1>1. PICK S : S = Packets \cup {ErrorPacket}
    OBVIOUS
  <1>2. pipe \in [Fxns -> Seq(S)] /\ p \in S
    BY <1>1 DEF TypeInv, TypeOK
  <1>3. pipe'[f] = Append(pipe[f], p) /\ pipe[f] \in Seq(S)
    BY <1>2
  <1> QED
    BY <1>2, <1>3, AppendFacts

\* The listener's own error packet for function nFxnIdx.
LEMMA FatalWriteKeeps ==
    ASSUME AnswerInv, TypeInv', CbFatalWrite
    PROVE  LinkState' /\ Tickets' /\ Balanced' /\ Alone' /\ Own' /\ OwnAnswer'
  <1> USE DEF AnswerInv, OwnershipInv, TypeInv, TypeOK
  <1>0. PICK f \in Fxns : f = nFxnIdx
    BY DEF CbFatalWrite, FatalLoopEnd, Fxns
  <1>1. /\ cbPc = "fatal" /\ nFxnIdx' = f + 1
        /\ pipe' = [pipe EXCEPT ![f] = Append(pipe[f], ErrorPacket)]
        /\ UNCHANGED <<link, requests, inbox, pc, fxn, calls, shared, pRetPacket, contents,
                       cbPc, pBuffer, eRPCError>>
    BY <1>0 DEF CbFatalWrite, callerVars, remoteVars, heap
  <1>2. /\ pipe'[f] = Append(pipe[f], ErrorPacket)
        /\ pipe[f] \in Seq(Packets \cup {ErrorPacket})
        /\ \A g \in Fxns \ {f} : pipe'[g] = pipe[g]
    BY <1>1
  <1>3. \A g \in Fxns : Due(g)' = Due(g) /\ Waiting(g)' = Waiting(g)
    BY <1>1 DEF Due, Waiting
  <1>4. eRPCError # "hardware"
    BY <1>1 DEF ErrorState
  <1>5. ~FatalPosted(f) /\ FatalPosted(f)'
    <2>1. f \in Nat /\ ~(f < f) /\ f < f + 1
      BY DEF Fxns
    <2> QED
      BY <1>0, <1>1, <1>4, <2>1 DEF FatalPosted
  <1>6. \A g \in Fxns \ {f} : FatalPosted(g)' <=> FatalPosted(g)
    <2>1. \A g \in Fxns \ {f} : g < f + 1 <=> g < f
      BY DEF Fxns
    <2> QED
      BY <1>0, <1>1, <1>4, <2>1 DEF FatalPosted
  <1>7. Balanced'
    <2>1. \A g \in Fxns \ {f} : Balance(g)'
      BY <1>2, <1>3, <1>6 DEF Balanced, Balance
    <2>2. /\ IsFiniteSet(Due(f))
          /\ Cardinality(Due(f)) + Len(pipe[f]) <= Cardinality(Waiting(f))
      BY <1>5 DEF Balanced, Balance
    <2>3. /\ Len(pipe'[f]) = Len(pipe[f]) + 1 /\ Len(pipe[f]) \in Nat
          /\ pipe'[f][Len(pipe'[f])] = ErrorPacket
      BY <1>2
    <2>4. Cardinality(Due(f)) \in Nat /\ Cardinality(Waiting(f)) \in Nat
      BY <2>2, FS_CardinalityType, WaitingFinite
    <2>5. Len(pipe'[f]) <= Cardinality(Waiting(f)) + 1
      BY <2>2, <2>3, <2>4
    <2>6. Balance(f)'
      BY <1>3, <1>5, <2>3, <2>5 DEF Balance
    <2> QED
      BY <2>1, <2>6 DEF Balanced
  <1>8. LinkState' /\ Alone'
    BY <1>1 DEF LinkState, Alone
  <1>9. Tickets'
    <2>1. \A d \in Callers : calls[d] <= calls'[d]
      BY <1>1
    <2> QED
      BY <1>1, <2>1, TicketsFrame
  <1>10. Own'
    <2> SUFFICES ASSUME NEW d \in Callers, pc[d] = "waiting", ~shared[d]
                 PROVE  OwnDue(d)' /\ OwnPosted(d)'
      BY <1>1 DEF Own
    <2>1. OwnDue(d) /\ OwnPosted(d) /\ fxn'[d] = fxn[d] /\ fxn[d] \in Fxns
      BY <1>1 DEF Own
    <2>2. \A i \in DOMAIN pipe'[fxn[d]] : pipe'[fxn[d]][i] \in Packets =>
            i \in DOMAIN pipe[fxn[d]] /\ pipe'[fxn[d]][i] = pipe[fxn[d]][i]
      <3>1. CASE fxn[d] = f
        BY <1>1, <1>2, <3>1, PostFacts
      <3>2. CASE fxn[d] # f
        BY <1>2, <2>1, <3>2
      <3> QED
        BY <3>1, <3>2
    <2> QED
      BY <1>1, <1>3, <2>1, <2>2 DEF OwnDue, OwnPosted
  <1>11. OwnAnswer'
    BY <1>1 DEF OwnAnswer
  <1> QED
    BY <1>7, <1>8, <1>9, <1>10, <1>11

\* An answer is posted: one fewer due, one more in the pipe of its function.
LEMMA PostKeeps ==
    ASSUME AnswerInv, TypeInv', CbPost
    PROVE  LinkState' /\ Tickets' /\ Balanced' /\ Alone' /\ Own' /\ OwnAnswer'
  <1> USE DEF AnswerInv, OwnershipInv, TypeInv, TypeOK
  <1>1. /\ cbPc = "dispatch" /\ cbPc' = "exit" /\ pBuffer \in Packets
        /\ contents[pBuffer].idx \in Fxns
        /\ UNCHANGED <<link, requests, inbox, pc, fxn, calls, shared, pRetPacket, contents,
                       eRPCError, nFxnIdx>>
    BY DEF CbPost, callerVars, remoteVars, PointersSet
  <1>2. PICK f \in Fxns : f = contents[pBuffer].idx
    BY <1>1
  <1>3. PICK p \in Packets \cup {ErrorPacket} :
          /\ pipe' = [pipe EXCEPT ![f] = Append(pipe[f], p)]
          /\ p \in Packets => p = pBuffer
    BY <1>1, <1>2 DEF CbPost, PipeOf
  <1>4. /\ DOMAIN pipe'[f] = DOMAIN pipe[f] \cup {Len(pipe[f]) + 1}
        /\ \A i \in DOMAIN pipe[f] : pipe'[f][i] = pipe[f][i]
        /\ pipe'[f][Len(pipe[f]) + 1] = p
        /\ Len(pipe[f]) \in Nat /\ Len(pipe'[f]) = Len(pipe[f]) + 1
        /\ \A g \in Fxns \ {f} : pipe'[g] = pipe[g]
    BY <1>3, PostFacts
  <1>5. PICK q \in Request : q = Ticket(contents[pBuffer])
    BY <1>1 DEF Tickets
  <1>6. /\ q.idx = f /\ q \notin requests
        /\ \A i \in DOMAIN inbox : Ticket(inbox[i]) # q
    <2>1. q \notin requests /\ \A i \in DOMAIN inbox : Ticket(inbox[i]) # q
      BY <1>1, <1>5 DEF Tickets
    <2>2. q.idx = f
      BY <1>2, <1>5 DEF Ticket
    <2> QED
      BY <2>1, <2>2
  <1>7. Due(f)' = Due(f) \ {q} /\ q \in Due(f)
    BY <1>1, <1>5, <1>6 DEF Due
  <1>8. \A g \in Fxns \ {f} : Due(g)' = Due(g)
    BY <1>1, <1>5, <1>6 DEF Due
  <1>9. \A g \in Fxns : Waiting(g)' = Waiting(g)
    BY <1>1 DEF Waiting
  <1>10. \A g \in Fxns : ~FatalPosted(g) /\ ~FatalPosted(g)'
    BY <1>1 DEF FatalPosted, ErrorState
  <1>11. Balanced'
    <2>1. ASSUME NEW g \in Fxns, g # f PROVE Balance(g)'
      <3>1. /\ Balance(g) /\ pipe'[g] = pipe[g] /\ Due(g)' = Due(g)
            /\ Waiting(g)' = Waiting(g) /\ (FatalPosted(g)' <=> FatalPosted(g))
        BY <1>4, <1>8, <1>9, <1>10, <2>1 DEF Balanced
      <3> QED
        BY <3>1 DEF Balance
    <2>2. Balance(f)'
      <3>1. /\ IsFiniteSet(Due(f))
            /\ Cardinality(Due(f)) + Len(pipe[f]) <= Cardinality(Waiting(f))
        BY <1>10 DEF Balanced, Balance
      <3>2. PICK D : D = Due(f)
        OBVIOUS
      <3>3. /\ IsFiniteSet(D \ {q}) /\ Cardinality(D \ {q}) = Cardinality(D) - 1
        BY <1>7, <3>1, <3>2, RemoveOne
      <3>4. IsFiniteSet(Due(f)') /\ Cardinality(Due(f)') = Cardinality(Due(f)) - 1
        BY <1>7, <3>2, <3>3
      <3>5. PICK d \in Nat : d = Cardinality(Due(f))
        BY <3>1, FS_CardinalityType
      <3>6. PICK w \in Nat : w = Cardinality(Waiting(f))
        BY WaitingFinite
      <3>7. PICK l \in Nat : l = Len(pipe[f])
        BY <1>4
      <3>8. d + l <= w
        BY <3>1, <3>5, <3>6, <3>7
      <3>9. (d - 1) + (l + 1) <= w
        BY <3>8
      <3>10. Cardinality(Due(f)') + Len(pipe'[f]) <= Cardinality(Waiting(f)')
        BY <1>4, <1>9, <3>4, <3>5, <3>6, <3>7, <3>9
      <3> QED
        BY <1>10, <3>4, <3>10 DEF Balance
    <2> QED
      BY <2>1, <2>2 DEF Balanced
  <1>12. LinkState' /\ Alone'
    BY <1>1 DEF LinkState, Alone
  <1>13. Tickets'
    <2>1. \A d \in Callers : calls[d] <= calls'[d]
      BY <1>1
    <2> QED
      BY <1>1, <2>1, TicketsFrame
  <1>14. Own'
    <2> SUFFICES ASSUME NEW d \in Callers, pc[d] = "waiting", ~shared[d]
                 PROVE  OwnDue(d)' /\ OwnPosted(d)'
      BY <1>1 DEF Own
    <2>1. OwnDue(d) /\ OwnPosted(d) /\ fxn'[d] = fxn[d] /\ fxn[d] \in Fxns
      BY <1>1 DEF Own
    <2>2. Due(fxn[d])' \subseteq Due(fxn[d])
      BY <1>7, <1>8, <2>1
    <2>3. OwnDue(d)'
      BY <1>1, <2>1, <2>2 DEF OwnDue
    <2>4. OwnPosted(d)'
      <3>1. CASE fxn[d] # f
        BY <1>1, <1>4, <2>1, <3>1 DEF OwnPosted
      <3>2. CASE fxn[d] = f
        <4>1. q.to = d /\ q.call = calls[d]
          BY <1>7, <2>1, <3>2 DEF OwnDue
        <4>2. q = [idx |-> f, to |-> d, call |-> calls[d]]
          BY <1>5, <1>6, <4>1 DEF Ticket
        <4>3. ASSUME NEW i \in DOMAIN pipe'[f], pipe'[f][i] \in Packets
              PROVE  Ticket(contents[pipe'[f][i]]) = [idx |-> f, to |-> d, call |-> calls[d]]
          <5>1. CASE i \in DOMAIN pipe[f]
            BY <1>4, <2>1, <3>2, <4>3, <5>1 DEF OwnPosted
          <5>2. CASE i = Len(pipe[f]) + 1
            <6>1. pipe'[f][i] = pBuffer
              BY <1>3, <1>4, <4>3, <5>2
            <6> QED
              BY <1>5, <4>2, <6>1
          <5> QED
            BY <1>4, <5>1, <5>2
        <4> QED
          BY <1>1, <2>1, <3>2, <4>3 DEF OwnPosted, Ticket
      <3> QED
        BY <3>1, <3>2
    <2> QED
      BY <2>3, <2>4
  <1>15. OwnAnswer'
    BY <1>1 DEF OwnAnswer
  <1> QED
    BY <1>11, <1>12, <1>13, <1>14, <1>15

\* The pipes go away.
LEMMA CloseKeeps ==
    ASSUME AnswerInv, TypeInv', CloseInstance
    PROVE  LinkState' /\ Tickets' /\ Balanced' /\ Alone' /\ Own' /\ OwnAnswer'
  <1> USE DEF AnswerInv, OwnershipInv, TypeInv, TypeOK
  <1>1. /\ \A f \in Fxns : pipe'[f] = <<>>
        /\ UNCHANGED <<link, requests, inbox, pc, fxn, calls, shared, pRetPacket, contents,
                       cbPc, pBuffer, eRPCError, nFxnIdx>>
    BY DEF CloseInstance, callerVars, listenerVars, remoteVars, heap
  <1>2. \A f \in Fxns : /\ Due(f)' = Due(f) /\ Waiting(f)' = Waiting(f)
                        /\ (FatalPosted(f)' <=> FatalPosted(f))
    BY <1>1 DEF Due, Waiting, FatalPosted
  <1>3. Balanced'
    <2> SUFFICES ASSUME NEW f \in Fxns PROVE Balance(f)'
      BY DEF Balanced
    <2>1. CASE FatalPosted(f)
      BY <1>1, <1>2, <2>1 DEF Balance
    <2>2. CASE ~FatalPosted(f)
      <3>1. /\ IsFiniteSet(Due(f))
            /\ Cardinality(Due(f)) + Len(pipe[f]) <= Cardinality(Waiting(f))
        BY <2>2 DEF Balanced, Balance
      <3>2. PICK d \in Nat : d = Cardinality(Due(f))
        BY <3>1, FS_CardinalityType
      <3>3. PICK w \in Nat : w = Cardinality(Waiting(f))
        BY WaitingFinite
      <3>4. PICK l \in Nat : l = Len(pipe[f])
        OBVIOUS
      <3>5. d + l <= w
        BY <3>1, <3>2, <3>3, <3>4
      <3>6. d + 0 <= w
        BY <3>5
      <3>7. Len(pipe'[f]) = 0
        BY <1>1
      <3>8. Cardinality(Due(f)') + Len(pipe'[f]) <= Cardinality(Waiting(f)')
        BY <1>2, <3>2, <3>3, <3>6, <3>7
      <3> QED
        BY <1>2, <2>2, <3>1, <3>8 DEF Balance
    <2> QED
      BY <2>1, <2>2
  <1>4. LinkState' /\ Alone' /\ OwnAnswer'
    BY <1>1 DEF LinkState, Alone, OwnAnswer
  <1>5. Tickets'
    <2>1. \A d \in Callers : calls[d] <= calls'[d]
      BY <1>1
    <2> QED
      BY <1>1, <2>1, TicketsFrame
  <1>6. Own'
    <2>1. \A d \in Callers : fxn[d] \in Fxns
      OBVIOUS
    <2> QED
      BY <1>1, <1>2, <2>1 DEF Own, OwnDue, OwnPosted
  <1> QED
    BY <1>3, <1>4, <1>5, <1>6

\* Every step keeps the count of answers, and with it whose answer is whose.
LEMMA NextAnswers ==
    ASSUME TransientFaults = FALSE, AnswerInv, [Next]_vars
    PROVE  AnswerInv'
  <1>1. OwnershipInv'
    BY NextOwnership DEF AnswerInv
  <1>2. TypeInv'
    BY <1>1 DEF OwnershipInv
  <1> DEFINE Rest == LinkState /\ Tickets /\ Balanced /\ Alone /\ Own /\ OwnAnswer
  <1> SUFFICES Rest'
    BY <1>1 DEF AnswerInv
  <1>3. ASSUME NEW c \in Callers, NEW f \in Fxns, SendPacket(c, f) \/ SendPacketFails(c, f)
        PROVE  Rest'
    BY <1>2, <1>3, SendKeeps, SendFailsKeeps
  <1>4. ASSUME NEW c \in Callers, ReadFromPipe(c) \/ StubReturn(c) PROVE Rest'
    BY <1>2, <1>4, ReadFromPipeKeeps, StubReturnKeeps
  <1>5. ASSUME NEW q \in requests, NEW r \in Results, Answer(q, r) PROVE Rest'
    BY <1>5, AnswerKeeps
  <1>6. CASE SendUpcall \/ LinkDies \/ CbRead
    BY <1>6, UpcallKeeps, LinkDiesKeeps, ReadKeeps
  <1>7. CASE CbKilled \/ CbReadable \/ CbReadFatal \/ CbFatalDone \/ CbUpcall
             \/ CbExit \/ KillListener \/ UNCHANGED vars
    BY <1>2, <1>7, ListenerKeeps
  <1>8. CASE CbFatalWrite \/ CbPost \/ CloseInstance
    BY <1>2, <1>8, FatalWriteKeeps, PostKeeps, CloseKeeps
  <1>9. ~SendBadIndex /\ ~CbSelectFails /\ ~CbReadFails
    BY DEF SendBadIndex, CbSelectFails, CbReadFails
  <1>10. ~CbBadIndex
    BY DEF CbBadIndex, NoBadIndex, OwnershipInv, AnswerInv
  <1> HIDE DEF Rest
  <1> QED
    BY <1>3, <1>4, <1>5, <1>6, <1>7, <1>8, <1>9, <1>10
       DEF Next, CallerStep, Listener, Closed

(***************************************************************************)
(* ReadFromPipe hands a thread that was alone in its function the answer   *)
(* to this very call, never that of an earlier call to the function,       *)
(* whatever was shared, answered out of order or left by a dead remote     *)
(* before, for any number of threads, functions and packets.               *)
(***************************************************************************)
THEOREM AnswersAreOwn ==
    ASSUME TransientFaults = FALSE PROVE Spec => []OwnAnswer
  <1>1. Init => AnswerInv
    BY InitAnswers
  <1>2. AnswerInv /\ [Next]_vars => AnswerInv'
    BY NextAnswers
  <1>3. AnswerInv => OwnAnswer
    BY DEF AnswerInv
  <1> QED
    BY <1>1, <1>2, <1>3, PTL DEF Spec

\* Tear-down: with every thread idle the pipes hold no packet of the heap.
LEMMA NextClose ==
    ASSUME TransientFaults = FALSE, TUNNEL \notin Fxns,
           AnswerInv, CloseState, [Next]_vars
    PROVE  CloseState'
  <1> USE DEF AnswerInv, OwnershipInv, TypeInv, TypeOK
  <1> DEFINE Idle == \A c \in Callers : pc[c] = "idle"
  <1>0. pBuffer # ErrorPacket
    OBVIOUS
  <1>1. ASSUME NEW c \in Callers, NEW f \in Fxns, SendPacket(c, f) \/ SendPacketFails(c, f)
        PROVE  CloseState'
    <2>1. inst = "open" /\ UNCHANGED <<inst, live, contents>>
      BY <1>1 DEF SendPacket, SendPacketFails, BeginCall, heap
    <2> QED
      BY <2>1 DEF CloseState
  <1>2. ASSUME NEW c \in Callers, ReadFromPipe(c) PROVE CloseState'
    <2>1. pc[c] = "waiting" /\ UNCHANGED <<inst, live, contents>>
      BY <1>2 DEF ReadFromPipe, heap
    <2> QED
      BY <2>1 DEF CloseState
  <1>3. ASSUME NEW c \in Callers, StubReturn(c) PROVE CloseState'
    <2>1. pc[c] = "got" /\ UNCHANGED <<inst, contents>> /\ pc' = [pc EXCEPT ![c] = "idle"]
      BY <1>3 DEF StubReturn
    <2>2. inst = "open"
      BY <2>1 DEF CloseState
    <2>3. ErrorPacket \in live'
      <3>1. fxn[c] # TUNNEL
        OBVIOUS
      <3>2. CASE pRetPacket[c] = ErrorPacket
        BY <1>3, <3>1, <3>2 DEF StubReturn, StubFrees, CloseState
      <3>3. CASE pRetPacket[c] # ErrorPacket
        BY <1>3, <3>3 DEF StubReturn, CloseState
      <3> QED
        BY <3>2, <3>3
    <2> QED
      BY <2>1, <2>2, <2>3 DEF CloseState
  <1>4. ASSUME NEW q \in requests, NEW r \in Results, Answer(q, r) PROVE CloseState'
    BY <1>4 DEF Answer, CloseState, heap, listenerVars, callerVars
  <1>5. CASE SendUpcall \/ LinkDies
    BY <1>5 DEF SendUpcall, LinkDies, CloseState, heap, listenerVars, callerVars
  <1>6. CASE CbRead \/ CbReadFatal
    <2>1. PICK p \in Packets : live' = live \cup {p}
      BY <1>6 DEF CbRead, CbReadFatal, GetPacket
    <2>2. contents'[ErrorPacket] = contents[ErrorPacket]
      BY <1>6 DEF CbRead, CbReadFatal
    <2>3. cbPc = "read" /\ UNCHANGED <<pc, inst>>
      BY <1>6 DEF CbRead, CbReadFatal, callerVars
    <2> QED
      BY <2>1, <2>2, <2>3 DEF CloseState
  <1>7. CASE CbUpcall \/ CbPost \/ CbExit
    <2>1. /\ cbPc \in {"dispatch", "exit"} /\ UNCHANGED <<pc, inst, contents>>
          /\ live' = live \/ live' = live \ {pBuffer}
      BY <1>7 DEF CbUpcall, CbPost, CbExit, callerVars
    <2> QED
      BY <1>0, <2>1 DEF CloseState
  <1>8. CASE CbKilled \/ CbReadable \/ CbFatalWrite \/ CbFatalDone
    <2>1. cbPc # "exited" /\ UNCHANGED <<pc, inst, live, contents>>
      BY <1>8 DEF CbKilled, CbReadable, CbFatalWrite, CbFatalDone, callerVars, heap
    <2> QED
      BY <2>1 DEF CloseState
  <1>9. CASE KillListener
    BY <1>9 DEF KillListener, CloseState, callerVars, listenerVars, heap
  <1>10. CASE CloseInstance
    <2>1. /\ inst = "killing" /\ cbPc = "exited" /\ UNCHANGED <<pc, live, contents, cbPc>>
      BY <1>10 DEF CloseInstance, callerVars, listenerVars, heap
    <2>2. Idle
      BY <2>1 DEF CloseState
    <2>3. ASSUME NEW p \in live \cap Packets PROVE FALSE
      <3>1. ListenerHolds(p) \/ StubHolds(p) \/ PipeHolds(p)
        BY <2>1 DEF PacketOwnership, LiveIsHeld
      <3>2. ~ListenerHolds(p)
        BY <2>1 DEF ListenerHolds
      <3>3. ~StubHolds(p)
        BY <2>2 DEF StubHolds, PointersSet
      <3>4. PICK f \in Fxns : \E i \in DOMAIN pipe[f] : pipe[f][i] = p
        BY <3>1, <3>2, <3>3 DEF PipeHolds
      <3>5. Waiting(f) = {}
        BY <2>2 DEF Waiting
      <3>6. \A i \in DOMAIN pipe[f] : pipe[f][i] = ErrorPacket
        BY <3>5, NobodyWaits
      <3> QED
        BY <3>4, <3>6
    <2>4. live' = {ErrorPacket}
      BY <2>1, <2>3 DEF CloseState
    <2> QED
      BY <2>1, <2>4 DEF CloseState
  <1>11. CASE UNCHANGED vars
    BY <1>11 DEF vars, CloseState, heap, listenerVars, callerVars
  <1>12. ~SendBadIndex /\ ~CbSelectFails /\ ~CbReadFails
    BY DEF SendBadIndex, CbSelectFails, CbReadFails
  <1>13. ~CbBadIndex
    BY DEF CbBadIndex, NoBadIndex
  <1> QED
    BY <1>1, <1>2, <1>3, <1>4, <1>5, <1>6, <1>7, <1>8, <1>9, <1>10, <1>11, <1>12, <1>13
       DEF Next, CallerStep, Listener, Closed

(***************************************************************************)
(* RPC_InstanceDeInit deletes the pipes without draining them, and leaks   *)
(* nothing: when no call is in flight no answer is in a pipe, or on its    *)
(* way to one.  The stub of the tunnel request, which frees pBufferError,  *)
(* is left out.                                                            *)
(***************************************************************************)
THEOREM NothingLeftBehind ==
    ASSUME TransientFaults = FALSE, TUNNEL \notin Fxns PROVE Spec => []NothingLost
  <1>1. Init => AnswerInv /\ CloseState
    BY InitAnswers
  <1>2. (AnswerInv /\ CloseState) /\ [Next]_vars => (AnswerInv /\ CloseState)'
    BY NextAnswers, NextClose
  <1>3. CloseState => NothingLost
    BY DEF CloseState, NothingLost
  <1> QED
    BY <1>1, <1>2, <1>3, PTL DEF Spec

=============================================================================
