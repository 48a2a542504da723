------------------------ MODULE RpcRefinementProofs ------------------------
(***************************************************************************)
(* Every step of RpcChannel is a step of RpcService or leaves it alone,    *)
(* for any number of threads, functions and packets, when no function is   *)
(* used by two threads and select, read, malloc and write do not fail      *)
(* while the link is up.                                                   *)
(***************************************************************************)
EXTENDS RpcRefinement, RpcChannelProofs

USE FxnsAssumption, PacketsAssumption, CallersAssumption, BoundsAssumption

\* No function is used by two threads.
PrivateCalls ==
    \A c, d \in Callers : c # d => CallerFxns[c] \cap CallerFxns[d] = {}

-----------------------------------------------------------------------------
(***************************************************************************)
(* What private functions add to the invariants of RpcChannelProofs.       *)
(***************************************************************************)
\* Every thread is alone in its function.
OwnFunctions ==
    \A c \in Callers : ~shared[c] /\ (pc[c] # "idle" => fxn[c] \in CallerFxns[c])

\* What is addressed to a thread answers a function with a stub.
Addressed(m) == m.to # NULL => m.idx \in Fxns

MailAddressed ==
    /\ \A i \in DOMAIN inbox : Addressed(inbox[i])
    /\ cbPc = "dispatch" => Addressed(contents[pBuffer])

\* The error packet says so, and tear-down finds every thread idle.
Static ==
    /\ contents[ErrorPacket].result = "hardware"
    /\ inst # "open" => \A c \in Callers : pc[c] = "idle"

PrivateInv == OwnFunctions /\ MailAddressed /\ Static

\* At the start nothing is on its way.
LEMMA InitPrivate == Init => PrivateInv
  BY DEF Init, PrivateInv, OwnFunctions, MailAddressed, Static, Unasked

\* A step that begins no call keeps the functions private.
LEMMA OwnFunctionsFrame ==
    ASSUME OwnFunctions, TypeInv, UNCHANGED shared,
           \A c \in Callers : pc'[c] # "idle" => pc[c] # "idle" /\ fxn'[c] = fxn[c]
    PROVE  OwnFunctions'
  BY DEF OwnFunctions

\* A stub sends its request, for a function that nobody else uses.
LEMMA SendPrivate ==
    ASSUME PrivateCalls, PrivateInv, TypeInv, NEW c \in Callers, NEW f \in Fxns,
           SendPacket(c, f)
    PROVE  PrivateInv'
  <1> USE DEF TypeInv, TypeOK
  <1>1. /\ pc[c] = "idle" /\ f \in CallerFxns[c] /\ inst = "open"
        /\ fxn' = [fxn EXCEPT ![c] = f] /\ pc' = [pc EXCEPT ![c] = "waiting"]
        /\ UNCHANGED <<inbox, contents, cbPc, pBuffer, inst>>
    BY DEF SendPacket, BeginCall, heap, listenerVars
  <1>2. \A d \in Callers \ {c} : pc[d] # "idle" => fxn[d] # f
    BY <1>1 DEF PrivateCalls, PrivateInv, OwnFunctions
  <1>3. \A d \in Callers : ~shared'[d]
    <2>1. \A d \in Callers : shared'[d] <=>
            (IF d = c THEN \E e \in Callers \ {c} : pc[e] # "idle" /\ fxn[e] = f
             ELSE shared[d] \/ (pc[d] # "idle" /\ fxn[d] = f))
      BY DEF SendPacket
    <2> QED
      BY <1>2, <2>1 DEF PrivateInv, OwnFunctions
  <1>4. OwnFunctions'
    BY <1>1, <1>3 DEF PrivateInv, OwnFunctions
  <1>5. MailAddressed' /\ Static'
    BY <1>1 DEF PrivateInv, MailAddressed, Static, Addressed
  <1> QED
    BY <1>4, <1>5 DEF PrivateInv

\* The remote answers or calls up.
LEMMA MailPrivate ==
    ASSUME PrivateInv, TypeInv, NEW m \in Message, Addressed(m),
           inbox' = Append(inbox, m), UNCHANGED <<contents, cbPc, pBuffer>>
    PROVE  MailAddressed'
  <1> USE DEF TypeInv, TypeOK
  <1>1. /\ DOMAIN inbox' = DOMAIN inbox \cup {Len(inbox) + 1}
        /\ \A i \in DOMAIN inbox : inbox'[i] = inbox[i]
        /\ inbox'[Len(inbox) + 1] = m
    BY AppendFacts
  <1>2. \A i \in DOMAIN inbox' : Addressed(inbox'[i])
    BY <1>1 DEF PrivateInv, MailAddressed
  <1>3. cbPc = "dispatch" => Addressed(contents[pBuffer])
    BY DEF PrivateInv, MailAddressed
  <1> QED
    BY <1>2, <1>3 DEF MailAddressed, Addressed

\* The listener reads a message into a packet.
LEMMA ReadPrivate ==
    ASSUME PrivateInv, TypeInv, CbRead
    PROVE  MailAddressed' /\ contents'[ErrorPacket] = contents[ErrorPacket]
  <1> USE DEF TypeInv, TypeOK
  <1>1. /\ inbox # <<>> /\ inbox' = Tail(inbox) /\ cbPc' = "dispatch"
    BY DEF CbRead
  <1>2. PICK p \in Packets : /\ pBuffer' = p
                             /\ contents' = [contents EXCEPT ![p] = Head(inbox)]
    BY DEF CbRead, GetPacket
  <1>4. /\ \A i \in DOMAIN Tail(inbox) : i + 1 \in DOMAIN inbox
                                         /\ Tail(inbox)[i] = inbox[i + 1]
        /\ 1 \in DOMAIN inbox /\ Head(inbox) = inbox[1]
    BY <1>1, TailFacts
  <1>5. contents'[p] = inbox[1] /\ contents'[ErrorPacket] = contents[ErrorPacket]
    BY <1>2, <1>4
  <1>6. \A i \in DOMAIN inbox' : Addressed(inbox'[i])
    BY <1>1, <1>4 DEF PrivateInv, MailAddressed
  <1>7. Addressed(contents'[pBuffer'])
    BY <1>2, <1>4, <1>5 DEF PrivateInv, MailAddressed
  <1> QED
    BY <1>5, <1>6, <1>7 DEF MailAddressed, Addressed

\* Every step keeps the functions private.
LEMMA NextPrivate ==
    ASSUME TransientFaults = FALSE, PrivateCalls, PrivateInv, OwnershipInv, [Next]_vars
    PROVE  PrivateInv'
  <1> USE DEF OwnershipInv, PrivateInv
  <1>1. ASSUME NEW c \in Callers, NEW f \in Fxns, SendPacketFails(c, f) PROVE PrivateInv'
    <2>1. /\ pc[c] = "idle" /\ fxn' = [fxn EXCEPT ![c] = f]
          /\ UNCHANGED <<inbox, contents, cbPc, pBuffer, inst, pc, shared>>
      BY <1>1 DEF SendPacketFails, BeginCall, heap, listenerVars
    <2>2. OwnFunctions'
      BY <2>1, OwnFunctionsFrame DEF TypeInv, TypeOK
    <2> QED
      BY <2>1, <2>2 DEF MailAddressed, Static, Addressed
  <1>2. ASSUME NEW c \in Callers, ReadFromPipe(c) \/ StubReturn(c) PROVE PrivateInv'
    <2>1. /\ pc[c] # "idle" /\ \E s \in {"got", "idle"} : pc' = [pc EXCEPT ![c] = s]
          /\ UNCHANGED <<inbox, contents, cbPc, pBuffer, inst, fxn, shared>>
      BY <1>2 DEF ReadFromPipe, StubReturn, heap, listenerVars
    <2>2. OwnFunctions'
      BY <2>1, OwnFunctionsFrame DEF TypeInv, TypeOK
    <2> QED
      BY <2>1, <2>2 DEF MailAddressed, Static, Addressed, TypeInv, TypeOK
  <1>3. ASSUME NEW q \in requests, NEW r \in Results, Answer(q, r) PROVE PrivateInv'
    <2>1. UNCHANGED <<contents, cbPc, pBuffer, inst, pc, fxn, shared>>
      BY <1>3 DEF Answer, heap, listenerVars, callerVars
    <2> DEFINE m == [idx |-> q.idx, to |-> q.to, call |-> q.call, result |-> r]
    <2>2. m \in Message /\ q.idx \in Fxns
      BY RequestFacts DEF TypeInv, TypeOK, Request
    <2>3. inbox' = Append(inbox, m)
      BY <1>3 DEF Answer
    <2>4. MailAddressed'
      BY <2>1, <2>2, <2>3, MailPrivate DEF Addressed
    <2>5. OwnFunctions'
      BY <2>1, OwnFunctionsFrame
    <2> QED
      BY <2>1, <2>4, <2>5 DEF Static
  <1>4. CASE SendUpcall
    <2>1. UNCHANGED <<contents, cbPc, pBuffer, inst, pc, fxn, shared>>
      BY <1>4 DEF SendUpcall, heap, listenerVars, callerVars
    <2>2. /\ Unasked(CALLBACK, "none") \in Message /\ Addressed(Unasked(CALLBACK, "none"))
          /\ inbox' = Append(inbox, Unasked(CALLBACK, "none"))
      BY <1>4, MessageFacts DEF SendUpcall, Addressed, Unasked
    <2>3. MailAddressed'
      BY <2>1, <2>2, MailPrivate
    <2>4. OwnFunctions'
      BY <2>1, OwnFunctionsFrame
    <2> QED
      BY <2>1, <2>3, <2>4 DEF Static
  <1>5. CASE LinkDies
    <2>1. inbox' = <<>> /\ UNCHANGED <<contents, cbPc, pBuffer, inst, pc, fxn, shared>>
      BY <1>5 DEF LinkDies, heap, listenerVars, callerVars
    <2>2. OwnFunctions'
      BY <2>1, OwnFunctionsFrame
    <2> QED
      BY <2>1, <2>2 DEF MailAddressed, Static, Addressed
  <1>6. CASE CbRead
    <2>1. UNCHANGED <<inst, pc, fxn, shared>>
      BY <1>6 DEF CbRead, callerVars
    <2>2. OwnFunctions'
      BY <2>1, OwnFunctionsFrame
    <2> QED
      BY <1>6, <2>1, <2>2, ReadPrivate DEF Static
  <1>7. CASE CbKilled \/ CbReadable \/ CbReadFatal \/ CbFatalWrite \/ CbFatalDone
             \/ CbUpcall \/ CbPost \/ CbExit
    <2>1. UNCHANGED <<inbox, contents, inst, pc, fxn, shared>> /\ cbPc' # "dispatch"
      BY <1>7 DEF CbKilled, CbReadable, CbReadFatal, CbFatalWrite, CbFatalDone, CbUpcall,
         CbPost, CbExit, heap, callerVars
    <2>2. OwnFunctions'
      BY <2>1, OwnFunctionsFrame
    <2> QED
      BY <2>1, <2>2 DEF MailAddressed, Static, Addressed
  <1>8. CASE KillListener \/ CloseInstance \/ UNCHANGED vars
    <2>1. /\ UNCHANGED <<inbox, contents, cbPc, pBuffer, pc, fxn, shared>>
          /\ inst' = "open" => inst = "open"
          /\ inst' # inst => inst # "open" \/ \A c \in Callers : pc[c] = "idle"
      BY <1>8 DEF KillListener, CloseInstance, vars, heap, listenerVars, callerVars
    <2>2. OwnFunctions'
      BY <2>1, OwnFunctionsFrame
    <2> QED
      BY <2>1, <2>2 DEF MailAddressed, Static, Addressed
  <1>9. ~SendBadIndex /\ ~CbSelectFails /\ ~CbReadFails
    BY DEF SendBadIndex, CbSelectFails, CbReadFails
  <1>10. ~CbBadIndex
    BY DEF CbBadIndex, NoBadIndex
  <1>11. ASSUME NEW c \in Callers, NEW f \in Fxns, SendPacket(c, f) PROVE PrivateInv'
    BY <1>11, SendPrivate
  <1> QED
    BY <1>1, <1>2, <1>3, <1>4, <1>5, <1>6, <1>7, <1>8, <1>9, <1>10, <1>11
       DEF Next, CallerStep, Listener, Closed

-----------------------------------------------------------------------------
(***************************************************************************)
(* Between the remote and the stub there is at most one answer per call.   *)
(***************************************************************************)
ServiceInv == AnswerInv /\ PrivateInv

\* Two threads in a call are in different functions.
LEMMA Apart ==
    ASSUME ServiceInv, NEW c \in Callers, NEW d \in Callers,
           pc[c] # "idle", pc[d] # "idle", fxn[c] = fxn[d]
    PROVE  c = d
  BY DEF ServiceInv, PrivateInv, OwnFunctions, AnswerInv, Alone

\* An answer that is due is due to the call its thread waits in.
LEMMA DueToWaiting ==
    ASSUME ServiceInv, NEW q \in Request, q \in Due(q.idx), ~FatalPosted(q.idx)
    PROVE  pc[q.to] = "waiting" /\ fxn[q.to] = q.idx /\ calls[q.to] = q.call
  <1>1. q.idx \in Fxns
    BY DEF Request
  <1>2. PICK d \in Waiting(q.idx) : TRUE
    BY <1>1, NobodyWaits DEF ServiceInv
  <1>3. d \in Callers /\ pc[d] = "waiting" /\ fxn[d] = q.idx
    BY <1>2 DEF Waiting
  <1>4. OwnDue(d)
    BY <1>3 DEF ServiceInv, PrivateInv, OwnFunctions, AnswerInv, Own
  <1> QED
    BY <1>3, <1>4 DEF OwnDue

\* Nothing is in fd_omx, or at the listener's switch, after the fatal error.
LEMMA NotFatal ==
    ASSUME ServiceInv, NEW f \in Fxns,
           requests # {} \/ inbox # <<>> \/ cbPc = "dispatch" \/ link = "up"
    PROVE  ~FatalPosted(f)
  BY DEF ServiceInv, AnswerInv, OwnershipInv, TypeInv, TypeOK, LinkState, ErrorState,
         FatalPosted

\* So is every message to a thread that has not reached a pipe.
LEMMA MailToWaiting ==
    ASSUME ServiceInv, NEW c \in Callers, NEW m, m.to = c,
           \/ \E i \in DOMAIN inbox : inbox[i] = m
           \/ cbPc = "dispatch" /\ contents[pBuffer] = m
    PROVE  /\ pc[c] = "waiting" /\ m.idx = fxn[c] /\ m.call = calls[c]
           /\ Ticket(m) \in Due(fxn[c]) /\ ~FatalPosted(fxn[c])
  <1> USE DEF ServiceInv, AnswerInv, OwnershipInv, TypeInv
  <1>1. m.idx \in Fxns
    BY DEF PrivateInv, MailAddressed, Addressed
  <1>2. Ticket(m) \in Request
    BY <1>1 DEF Tickets
  <1>3. Ticket(m).idx = m.idx /\ Ticket(m).to = c /\ Ticket(m).call = m.call
    BY DEF Ticket
  <1>4. Ticket(m) \in Due(m.idx)
    BY <1>2, <1>3 DEF Due
  <1>5. ~FatalPosted(m.idx)
    <2>1. inbox # <<>> \/ cbPc = "dispatch"
      OBVIOUS
    <2> QED
      BY <1>1, <2>1, NotFatal
  <1> QED
    BY <1>2, <1>3, <1>4, <1>5, DueToWaiting

\* One thread waits, so one answer at most is due or posted.
LEMMA OneForOne ==
    ASSUME ServiceInv, NEW c \in Callers, pc[c] = "waiting", ~FatalPosted(fxn[c])
    PROVE  /\ Due(fxn[c]) # {} => pipe[fxn[c]] = <<>>
           /\ \A i, j \in DOMAIN pipe[fxn[c]] : i = j
  <1> USE DEF ServiceInv, AnswerInv, OwnershipInv, TypeInv, TypeOK
  <1>1. PICK f \in Fxns : f = fxn[c]
    OBVIOUS
  <1>2. Waiting(f) = {c}
    BY <1>1, Apart DEF Waiting
  <1>3. Cardinality(Waiting(f)) = 1
    BY <1>2, FS_Singleton
  <1>4. IsFiniteSet(Due(f)) /\ Cardinality(Due(f)) + Len(pipe[f]) <= 1
    BY <1>1, <1>3 DEF Balanced, Balance
  <1>5. PICK l \in Nat : l = Len(pipe[f]) /\ DOMAIN pipe[f] = 1 .. l
    OBVIOUS
  <1>6. PICK d \in Nat : d = Cardinality(Due(f))
    BY <1>4, FS_CardinalityType
  <1>7. d + l <= 1
    BY <1>4, <1>5, <1>6
  <1>8. ASSUME Due(f) # {} PROVE pipe[f] = <<>>
    <2>1. d # 0
      BY <1>4, <1>6, <1>8, FS_EmptySet
    <2>2. l = 0
      BY <1>7, <2>1
    <2>3. pipe[f] \in Seq(Packets \cup {ErrorPacket}) /\ Len(pipe[f]) = 0
      BY <1>5, <2>2
    <2> QED
      BY <2>3
  <1>9. \A i, j \in DOMAIN pipe[f] : i = j
    BY <1>5, <1>7
  <1> QED
    BY <1>1, <1>8, <1>9

\* A thread that has its packet expects nothing more.
LEMMA GotIsLast ==
    ASSUME ServiceInv, NEW c \in Callers, pc[c] = "got"
    PROVE  /\ \A i \in DOMAIN pipe[fxn[c]] : pipe[fxn[c]][i] = ErrorPacket
           /\ link = "up" => pipe[fxn[c]] = <<>>
           /\ Ends(pRetPacket[c], c)
           /\ \A i \in DOMAIN inbox : ~Answers(inbox[i], c)
           /\ cbPc = "dispatch" => ~Answers(contents[pBuffer], c)
  <1> USE DEF ServiceInv, AnswerInv
  <1>1. fxn[c] \in Fxns
    BY DEF OwnershipInv, TypeInv, TypeOK
  <1>2. Waiting(fxn[c]) = {}
    BY Apart DEF Waiting
  <1>3. /\ \A i \in DOMAIN pipe[fxn[c]] : pipe[fxn[c]][i] = ErrorPacket
        /\ link = "up" => pipe[fxn[c]] = <<>>
    BY <1>1, <1>2, NobodyWaits, NotFatal
  <1>4. Ends(pRetPacket[c], c)
    BY DEF PrivateInv, OwnFunctions, OwnAnswer, Ends, Answers
  <1>5. \A i \in DOMAIN inbox : ~Answers(inbox[i], c)
    BY MailToWaiting DEF Answers
  <1>6. cbPc = "dispatch" => ~Answers(contents[pBuffer], c)
    BY MailToWaiting DEF Answers
  <1> QED
    BY <1>3, <1>4, <1>5, <1>6

\* A call has one result: what is with the stub, ...
LEMMA GotResult ==
    ASSUME ServiceInv, NEW c \in Callers, pc[c] = "got"
    PROVE  LET r == contents[pRetPacket[c]].result
           IN  /\ r \in Results
               /\ link = "dead" /\ r = "hardware" => AnswerResults(c) = {}
               /\ link = "up" \/ r # "hardware" => AnswerResults(c) = {r}
  <1> USE DEF ServiceInv, AnswerInv, OwnershipInv, TypeInv
  <1>1. PICK r : r = contents[pRetPacket[c]].result
    OBVIOUS
  <1>2. r \in Results
    <2>1. contents[pRetPacket[c]] \in Message
      BY DEF TypeOK, PointersSet
    <2> QED
      BY <1>1, <2>1 DEF Message
  <1>3. \A s : OnItsWay(c, s) => s = r \/ (link = "dead" /\ s = "hardware")
    <2> SUFFICES ASSUME NEW s, OnItsWay(c, s), s # r PROVE link = "dead" /\ s = "hardware"
      OBVIOUS
    <2>1. PICK i \in DOMAIN pipe[fxn[c]] : contents[pipe[fxn[c]][i]].result = s
      BY <1>1, GotIsLast DEF OnItsWay
    <2>2. pipe[fxn[c]][i] = ErrorPacket /\ link # "up"
      BY <2>1, GotIsLast
    <2> QED
      BY <2>1, <2>2 DEF TypeOK, PrivateInv, Static
  <1>4. OnItsWay(c, r)
    BY <1>1, GotIsLast DEF OnItsWay
  <1>5. link = "dead" /\ r = "hardware" => AnswerResults(c) = {}
    BY <1>3 DEF AnswerResults
  <1>6. link = "up" \/ r # "hardware" => AnswerResults(c) = {r}
    BY <1>2, <1>3, <1>4 DEF AnswerResults
  <1> QED
    BY <1>1, <1>2, <1>5, <1>6

\* ... or the one answer that is on its way to a waiting thread.
LEMMA OneResult ==
    ASSUME ServiceInv, NEW c \in Callers, pc[c] # "idle", link = "up",
           NEW r \in AnswerResults(c), NEW s \in AnswerResults(c)
    PROVE  r = s
  <1> USE DEF ServiceInv, AnswerInv, OwnershipInv, TypeInv
  <1>1. CASE pc[c] = "got"
    BY <1>1, GotResult
  <1>2. CASE pc[c] = "waiting"
    <2> DEFINE f == fxn[c]
               Mailed(t) ==
                 \/ \E i \in DOMAIN inbox : Answers(inbox[i], c) /\ inbox[i].result = t
                 \/ /\ cbPc = "dispatch" /\ Answers(contents[pBuffer], c)
                    /\ contents[pBuffer].result = t
               Posted(t) ==
                 \E i \in DOMAIN pipe[f] :
                   Ends(pipe[f][i], c) /\ contents[pipe[f][i]].result = t
    <2>1. (Mailed(r) \/ Posted(r)) /\ (Mailed(s) \/ Posted(s))
      BY <1>2 DEF AnswerResults, OnItsWay
    <2>2. f \in Fxns /\ ~FatalPosted(f)
      BY NotFatal DEF TypeOK
    <2>3. /\ Due(f) # {} => pipe[f] = <<>>
          /\ \A i, j \in DOMAIN pipe[f] : i = j
      BY <1>2, <2>2, OneForOne
    <2>4. \A t : Mailed(t) => Due(f) # {}
      BY MailToWaiting DEF Answers
    <2>5. ASSUME Mailed(r), Mailed(s) PROVE r = s
      <3>1. \A i \in DOMAIN inbox : Answers(inbox[i], c) =>
              /\ inbox[i].idx = f
              /\ Ticket(inbox[i]) = [idx |-> f, to |-> c, call |-> calls[c]]
        BY MailToWaiting DEF Answers, Ticket
      <3>2. cbPc = "dispatch" /\ Answers(contents[pBuffer], c) =>
              /\ contents[pBuffer].idx = f
              /\ Ticket(contents[pBuffer]) = [idx |-> f, to |-> c, call |-> calls[c]]
        BY MailToWaiting DEF Answers, Ticket
      <3> QED
        BY <2>2, <2>5, <3>1, <3>2 DEF Tickets
    <2>6. ASSUME Posted(r), Posted(s) PROVE r = s
      BY <2>3, <2>6
    <2>7. ~(Due(f) # {} /\ (Posted(r) \/ Posted(s)))
      BY <2>3
    <2> QED
      BY <2>1, <2>4, <2>5, <2>6, <2>7
  <1> QED
    BY <1>1, <1>2 DEF TypeOK

-----------------------------------------------------------------------------
(***************************************************************************)
(* What a step does to the service depends on four things: the link, the   *)
(* outcomes, who is idle, and the results on their way to the others.      *)
(***************************************************************************)
\* The thread is where it was, and so is what is on its way to it.
Steady(c) ==
    /\ pc'[c] = "idle" <=> pc[c] = "idle"
    /\ pc[c] # "idle" => AnswerResults(c)' = AnswerResults(c)

\* A thread that nothing happens to.
LEMMA SteadyPhase ==
    ASSUME NEW c \in Callers, Steady(c)
    PROVE  Phase(c)' = Phase(c) /\ Reply(c)' = Reply(c)
  <1>1. Phase(c)' = Phase(c)
    BY DEF Steady, Phase
  <1>2. Phase(c) = "answered" => pc[c] # "idle"
    BY DEF Phase
  <1>3. CASE Phase(c) = "answered"
    <2>1. AnswerResults(c)' = AnswerResults(c)
      BY <1>2, <1>3 DEF Steady
    <2>2. Reply(c) = Only(AnswerResults(c)) /\ Reply(c)' = Only(AnswerResults(c)')
      BY <1>1, <1>3 DEF Reply, Only
    <2> QED
      BY <1>1, <2>1, <2>2
  <1>4. CASE Phase(c) # "answered"
    BY <1>1, <1>4 DEF Reply
  <1> QED
    BY <1>1, <1>3, <1>4

\* Steps the service does not see.
LEMMA Stutter ==
    ASSUME UNCHANGED <<link, outcome>>, \A c \in Callers : Steady(c)
    PROVE  UNCHANGED Service!vars
  <1>1. \A c \in Callers : Phase(c)' = Phase(c) /\ Reply(c)' = Reply(c)
    BY SteadyPhase
  <1>2. phaseBar' = phaseBar /\ answerBar' = answerBar
    BY <1>1 DEF phaseBar, answerBar
  <1> QED
    BY <1>2 DEF Service!vars

\* Steps of one call.
LEMMA OneMoves ==
    ASSUME NEW c \in Callers, \A d \in Callers \ {c} : Steady(d)
    PROVE  /\ phaseBar' = [phaseBar EXCEPT ![c] = Phase(c)']
           /\ answerBar' = [answerBar EXCEPT ![c] = Reply(c)']
           /\ phaseBar[c] = Phase(c) /\ answerBar[c] = Reply(c)
  <1>1. \A d \in Callers \ {c} : Phase(d)' = Phase(d) /\ Reply(d)' = Reply(d)
    BY SteadyPhase
  <1> QED
    BY <1>1 DEF phaseBar, answerBar

\* Nothing on its way has moved, and the call is the same.
LEMMA Undisturbed ==
    ASSUME NEW c \in Callers,
           UNCHANGED <<link, inbox, contents, cbPc, pBuffer>>,
           pc'[c] = pc[c], fxn'[c] = fxn[c], calls'[c] = calls[c],
           pRetPacket'[c] = pRetPacket[c],
           pc[c] # "idle" => pipe'[fxn[c]] = pipe[fxn[c]]
    PROVE  Steady(c)
  <1>1. CASE pc[c] # "idle"
    <2>1. \A r : OnItsWay(c, r)' <=> OnItsWay(c, r)
      BY <1>1 DEF OnItsWay, Ends, Answers
    <2> QED
      BY <2>1 DEF Steady, AnswerResults
  <1> QED
    BY <1>1 DEF Steady

\* What is on its way has moved on and is still on its way.
LEMMA StillOnItsWay ==
    ASSUME NEW c \in Callers, link' = link,
           pc'[c] = "idle" <=> pc[c] = "idle",
           pc[c] # "idle" => \A r : OnItsWay(c, r)' <=> OnItsWay(c, r)
    PROVE  Steady(c)
  BY DEF Steady, AnswerResults

\* The stub writes its request: a call begins, and nothing answers it yet.
LEMMA SendInvokes ==
    ASSUME PrivateCalls, ServiceInv, NEW c \in Callers, NEW f \in Fxns, SendPacket(c, f)
    PROVE  Service!Invoke(c)
  <1> USE DEF ServiceInv, AnswerInv, OwnershipInv, TypeInv, TypeOK
  <1>1. /\ pc[c] = "idle" /\ f \in CallerFxns[c] /\ link = "up"
        /\ pc' = [pc EXCEPT ![c] = "waiting"] /\ fxn' = [fxn EXCEPT ![c] = f]
        /\ calls' = [calls EXCEPT ![c] = calls[c] + 1]
        /\ outcome' = [outcome EXCEPT ![c] = "pending"]
        /\ UNCHANGED <<link, inbox, contents, cbPc, pBuffer, pipe, pRetPacket>>
    BY DEF SendPacket, BeginCall, heap, listenerVars
  <1>2. \A d \in Callers \ {c} : Steady(d)
    BY <1>1, Undisturbed
  <1>3. pipe[f] = <<>>
    <2>1. Waiting(f) = {}
      <3>1. ASSUME NEW d \in Callers, pc[d] = "waiting", fxn[d] = f PROVE FALSE
        BY <1>1, <3>1 DEF PrivateCalls, PrivateInv, OwnFunctions
      <3> QED
        BY <3>1 DEF Waiting
    <2> QED
      BY <1>1, <2>1, NobodyWaits, NotFatal
  <1>4. \A i \in DOMAIN inbox : ~(inbox[i].to = c /\ inbox[i].call = calls[c] + 1)
    <2> SUFFICES ASSUME NEW i \in DOMAIN inbox, inbox[i].to = c PROVE FALSE
      OBVIOUS
    <2> QED
      BY <1>1, MailToWaiting
  <1>5. cbPc = "dispatch" =>
          ~(contents[pBuffer].to = c /\ contents[pBuffer].call = calls[c] + 1)
    BY MailToWaiting, <1>1
  <1>6. AnswerResults(c)' = {}
    <2>1. pc'[c] = "waiting" /\ calls'[c] = calls[c] + 1 /\ fxn'[c] = f
      BY <1>1
    <2>2. \A r : ~OnItsWay(c, r)'
      BY <1>1, <1>3, <1>4, <1>5, <2>1 DEF OnItsWay, Answers
    <2> QED
      BY <2>2 DEF AnswerResults
  <1>7. Phase(c) = "idle" /\ Phase(c)' = "called" /\ Reply(c) = "none" /\ Reply(c)' = "none"
    BY <1>1, <1>6 DEF Phase, Reply
  <1>8. answerBar' = answerBar
    BY <1>2, <1>7, OneMoves DEF answerBar
  <1> QED
    BY <1>1, <1>2, <1>7, <1>8, OneMoves DEF Service!Invoke

\* The write to a dead link fails.
LEMMA SendFailsRejects ==
    ASSUME TransientFaults = FALSE, ServiceInv, NEW c \in Callers, NEW f \in Fxns,
           SendPacketFails(c, f)
    PROVE  Service!Reject(c)
  <1> USE DEF ServiceInv, AnswerInv, OwnershipInv, TypeInv, TypeOK
  <1>1. /\ pc[c] = "idle" /\ link = "dead"
        /\ fxn' = [fxn EXCEPT ![c] = f] /\ calls' = [calls EXCEPT ![c] = calls[c] + 1]
        /\ outcome' = [outcome EXCEPT ![c] = "hardware"]
        /\ UNCHANGED <<link, inbox, contents, cbPc, pBuffer, pipe, pRetPacket, pc>>
    BY DEF SendPacketFails, BeginCall, heap, listenerVars, remoteVars
  <1>2. \A d \in Callers \ {c} : Steady(d)
    BY <1>1, Undisturbed
  <1>3. Steady(c)
    BY <1>1 DEF Steady
  <1>4. phaseBar' = phaseBar /\ answerBar' = answerBar /\ phaseBar[c] = "idle"
    <2>1. \A d \in Callers : Phase(d)' = Phase(d) /\ Reply(d)' = Reply(d)
      BY <1>2, <1>3, SteadyPhase
    <2> QED
      BY <1>1, <2>1 DEF phaseBar, answerBar, Phase
  <1> QED
    BY <1>1, <1>4 DEF Service!Reject

\* The stub takes its packet from the pipe; the call stands where it stood.
LEMMA TakeStutters ==
    ASSUME ServiceInv, NEW c \in Callers, ReadFromPipe(c)
    PROVE  UNCHANGED Service!vars
  <1> USE DEF ServiceInv, AnswerInv, OwnershipInv, TypeInv
  <1>1. /\ pc[c] = "waiting" /\ pipe[fxn[c]] # <<>> /\ fxn[c] \in Fxns
        /\ pc' = [pc EXCEPT ![c] = "got"]
        /\ pRetPacket' = [pRetPacket EXCEPT ![c] = Head(pipe[fxn[c]])]
        /\ pipe' = [pipe EXCEPT ![fxn[c]] = Tail(pipe[fxn[c]])]
        /\ UNCHANGED <<link, inbox, contents, cbPc, pBuffer, fxn, calls, outcome>>
    BY DEF ReadFromPipe, heap, listenerVars, remoteVars, TypeOK
  <1>2. /\ \A i \in DOMAIN Tail(pipe[fxn[c]]) :
             i + 1 \in DOMAIN pipe[fxn[c]] /\ Tail(pipe[fxn[c]])[i] = pipe[fxn[c]][i + 1]
        /\ \A i \in DOMAIN pipe[fxn[c]] : i # 1 =>
             i - 1 \in DOMAIN Tail(pipe[fxn[c]]) /\ Tail(pipe[fxn[c]])[i - 1] = pipe[fxn[c]][i]
        /\ 1 \in DOMAIN pipe[fxn[c]] /\ Head(pipe[fxn[c]]) = pipe[fxn[c]][1]
    <2>1. PICK S : S = Packets \cup {ErrorPacket}
      OBVIOUS
    <2>2. pipe[fxn[c]] \in Seq(S)
      BY <1>1, <2>1 DEF TypeOK
    <2>3. /\ \A i \in DOMAIN Tail(pipe[fxn[c]]) :
               i + 1 \in DOMAIN pipe[fxn[c]] /\ Tail(pipe[fxn[c]])[i] = pipe[fxn[c]][i + 1]
          /\ \A i \in DOMAIN pipe[fxn[c]] : i # 1 => i - 1 \in DOMAIN Tail(pipe[fxn[c]])
          /\ \A i \in DOMAIN pipe[fxn[c]] : i \in Nat
          /\ 1 \in DOMAIN pipe[fxn[c]] /\ Head(pipe[fxn[c]]) = pipe[fxn[c]][1]
      BY <1>1, <2>2, TailFacts
    <2> QED
      BY <2>3
  <1>3. /\ pc'[c] = "got" /\ pRetPacket'[c] = pipe[fxn[c]][1]
        /\ pipe'[fxn[c]] = Tail(pipe[fxn[c]])
    BY <1>1, <1>2 DEF TypeOK
  <1>4. \A r : OnItsWay(c, r)' <=> OnItsWay(c, r)
    <2> SUFFICES ASSUME NEW r PROVE OnItsWay(c, r)' <=> OnItsWay(c, r)
      OBVIOUS
    <2> DEFINE P(p) == Ends(p, c) /\ contents[p].result = r
    <2>1. (\E i \in DOMAIN pipe[fxn[c]] : P(pipe[fxn[c]][i])) <=>
            P(pRetPacket'[c]) \/ \E i \in DOMAIN pipe'[fxn[c]] : P(pipe'[fxn[c]][i])
      <3> HIDE DEF P
      <3>1. ASSUME NEW i \in DOMAIN pipe[fxn[c]], P(pipe[fxn[c]][i])
            PROVE  P(pRetPacket'[c]) \/ \E j \in DOMAIN pipe'[fxn[c]] : P(pipe'[fxn[c]][j])
        BY <1>2, <1>3, <3>1
      <3>2. ASSUME NEW i \in DOMAIN pipe'[fxn[c]], P(pipe'[fxn[c]][i])
            PROVE  \E j \in DOMAIN pipe[fxn[c]] : P(pipe[fxn[c]][j])
        BY <1>2, <1>3, <3>2
      <3>3. P(pRetPacket'[c]) => \E j \in DOMAIN pipe[fxn[c]] : P(pipe[fxn[c]][j])
        BY <1>2, <1>3
      <3> QED
        BY <3>1, <3>2, <3>3
    <2>2. \A p : Ends(p, c)' <=> Ends(p, c)
      BY <1>1 DEF Ends, Answers
    <2> QED
      BY <1>1, <1>3, <2>1, <2>2 DEF OnItsWay, Ends, Answers
  <1>5. ASSUME NEW d \in Callers \ {c} PROVE Steady(d)
    <2>1. pc'[d] = pc[d] /\ pRetPacket'[d] = pRetPacket[d]
      BY <1>1 DEF TypeOK
    <2>2. pc[d] # "idle" => pipe'[fxn[d]] = pipe[fxn[d]]
      BY <1>1, Apart DEF TypeOK
    <2> QED
      BY <1>1, <2>1, <2>2, Undisturbed
  <1>6. Steady(c)
    BY <1>1, <1>3, <1>4, StillOnItsWay
  <1> QED
    BY <1>1, <1>5, <1>6, Stutter

\* The stub returns what the remote said, or the error of a dead link.
LEMMA StubReturns ==
    ASSUME ServiceInv, NEW c \in Callers, StubReturn(c)
    PROVE  Service!Return(c) \/ Service!Fail(c)
  <1> USE DEF ServiceInv, AnswerInv, OwnershipInv, TypeInv
  <1>1. PICK r : r = contents[pRetPacket[c]].result
    OBVIOUS
  <1>2. /\ pc[c] = "got" /\ pc' = [pc EXCEPT ![c] = "idle"]
        /\ outcome' = [outcome EXCEPT ![c] = r]
        /\ pRetPacket' = [pRetPacket EXCEPT ![c] = NULL]
        /\ UNCHANGED <<link, inbox, contents, cbPc, pBuffer, pipe, fxn, calls>>
    BY <1>1 DEF StubReturn, listenerVars, remoteVars
  <1>3. \A d \in Callers \ {c} : Steady(d)
    <2> SUFFICES ASSUME NEW d \in Callers \ {c} PROVE Steady(d)
      OBVIOUS
    <2>1. pc'[d] = pc[d] /\ pRetPacket'[d] = pRetPacket[d]
      BY <1>2 DEF TypeOK
    <2> QED
      BY <1>2, <2>1, Undisturbed
  <1>4. Phase(c)' = "idle" /\ Reply(c)' = "none"
    BY <1>2 DEF Phase, Reply, TypeOK
  <1>5. /\ phaseBar' = [phaseBar EXCEPT ![c] = "idle"]
        /\ answerBar' = [answerBar EXCEPT ![c] = "none"]
        /\ phaseBar[c] = Phase(c) /\ answerBar[c] = Reply(c)
    BY <1>3, <1>4, OneMoves
  <1>6. CASE link = "dead" /\ r = "hardware"
    <2>1. AnswerResults(c) = {}
      BY <1>1, <1>2, <1>6, GotResult
    <2>2. Phase(c) = "called" /\ Reply(c) = "none"
      BY <1>2, <2>1 DEF Phase, Reply
    <2>3. answerBar' = answerBar
      BY <1>5, <2>2 DEF answerBar
    <2> QED
      BY <1>2, <1>5, <1>6, <2>2, <2>3 DEF Service!Fail
  <1>7. CASE link = "up" \/ r # "hardware"
    <2>1. AnswerResults(c) = {r}
      BY <1>1, <1>2, <1>7, GotResult
    <2>2. Phase(c) = "answered" /\ Reply(c) = r
      BY <1>2, <2>1 DEF Phase, Reply, Only
    <2> QED
      BY <1>2, <1>5, <2>2 DEF Service!Return
  <1> QED
    BY <1>6, <1>7 DEF TypeOK

\* A message is added to fd_omx.
LEMMA AppendOnItsWay ==
    ASSUME TypeInv, NEW m \in Message, NEW c \in Callers, inbox' = Append(inbox, m),
           UNCHANGED <<contents, cbPc, pBuffer, pipe, pRetPacket, pc, fxn, calls>>
    PROVE  \A r : OnItsWay(c, r)' <=> OnItsWay(c, r) \/ (Answers(m, c) /\ m.result = r)
  <1>1. /\ DOMAIN inbox' = DOMAIN inbox \cup {Len(inbox) + 1}
        /\ \A i \in DOMAIN inbox : inbox'[i] = inbox[i]
        /\ inbox'[Len(inbox) + 1] = m
    BY AppendFacts DEF TypeInv, TypeOK
  <1> SUFFICES ASSUME NEW r
               PROVE  OnItsWay(c, r)' <=> OnItsWay(c, r) \/ (Answers(m, c) /\ m.result = r)
    OBVIOUS
  <1>2. (\E i \in DOMAIN inbox' : inbox'[i].to = c /\ inbox'[i].call = calls[c]
                                  /\ inbox'[i].result = r)
        <=> \/ \E i \in DOMAIN inbox : inbox[i].to = c /\ inbox[i].call = calls[c]
                                       /\ inbox[i].result = r
            \/ m.to = c /\ m.call = calls[c] /\ m.result = r
    BY <1>1
  <1> QED
    BY <1>2 DEF OnItsWay, Ends, Answers

\* The remote answers: the call is executed.
LEMMA AnswerExecutes ==
    ASSUME ServiceInv, NEW q \in requests, NEW r \in Results, Answer(q, r)
    PROVE  Service!Execute(q.to)
  <1> USE DEF ServiceInv, AnswerInv, OwnershipInv
  <1> DEFINE m == [idx |-> q.idx, to |-> q.to, call |-> q.call, result |-> r]
  <1>1. /\ link = "up" /\ inbox' = Append(inbox, m)
        /\ UNCHANGED <<link, contents, cbPc, pBuffer, pipe, pRetPacket, pc, fxn, calls,
                       outcome>>
    BY DEF Answer, heap, listenerVars, callerVars
  <1>2. q \in Request /\ q.idx \in Fxns /\ q.to \in Callers /\ m \in Message
    BY RequestFacts DEF TypeInv, TypeOK, Request
  <1>3. PICK c \in Callers : c = q.to
    BY <1>2
  <1>4. q \in Due(q.idx) /\ ~FatalPosted(q.idx)
    BY <1>2, NotFatal DEF Due
  <1>5. pc[c] = "waiting" /\ fxn[c] = q.idx /\ calls[c] = q.call
    BY <1>2, <1>3, <1>4, DueToWaiting
  <1>6. AnswerResults(c) = {}
    <2>1. pipe[fxn[c]] = <<>>
      BY <1>4, <1>5, OneForOne
    <2>2. ASSUME NEW i \in DOMAIN inbox, Answers(inbox[i], c) PROVE FALSE
      <3>1. inbox[i].idx = q.idx /\ Ticket(inbox[i]) \notin requests
        BY <1>2, <1>5, <2>2, MailToWaiting DEF Answers, Tickets
      <3>2. Ticket(inbox[i]) = q
        BY <1>2, <1>3, <1>5, <2>2, <3>1 DEF Answers, Ticket, Request
      <3> QED
        BY <3>1, <3>2
    <2>3. ASSUME cbPc = "dispatch", Answers(contents[pBuffer], c) PROVE FALSE
      <3>1. contents[pBuffer].idx = q.idx /\ Ticket(contents[pBuffer]) \notin requests
        BY <1>2, <1>5, <2>3, MailToWaiting DEF Answers, Tickets
      <3>2. Ticket(contents[pBuffer]) = q
        BY <1>2, <1>3, <1>5, <2>3, <3>1 DEF Answers, Ticket, Request
      <3> QED
        BY <3>1, <3>2
    <2> QED
      BY <1>5, <2>1, <2>2, <2>3 DEF AnswerResults, OnItsWay
  <1>7. \A d \in Callers : \A s :
          OnItsWay(d, s)' <=> OnItsWay(d, s) \/ (Answers(m, d) /\ m.result = s)
    BY <1>1, <1>2, AppendOnItsWay
  <1>8. AnswerResults(c)' = {r}
    <2>1. \A s : OnItsWay(c, s)' <=> OnItsWay(c, s) \/ s = r
      BY <1>3, <1>5, <1>7 DEF Answers
    <2> QED
      BY <1>1, <1>6, <2>1 DEF AnswerResults
  <1>9. \A d \in Callers \ {c} : Steady(d)
    <2> SUFFICES ASSUME NEW d \in Callers \ {c} PROVE Steady(d)
      OBVIOUS
    <2>1. \A s : OnItsWay(d, s)' <=> OnItsWay(d, s)
      BY <1>3, <1>7 DEF Answers
    <2> QED
      BY <1>1, <2>1, StillOnItsWay
  <1>10. Phase(c) = "called" /\ Phase(c)' = "answered" /\ Reply(c)' = r
    BY <1>1, <1>5, <1>6, <1>8 DEF Phase, Reply, Only
  <1> QED
    BY <1>1, <1>3, <1>9, <1>10, OneMoves DEF Service!Execute

\* An upcall answers nobody.
LEMMA UpcallStutters ==
    ASSUME ServiceInv, SendUpcall
    PROVE  UNCHANGED Service!vars
  <1> DEFINE m == Unasked(CALLBACK, "none")
  <1>1. /\ inbox' = Append(inbox, m)
        /\ UNCHANGED <<link, contents, cbPc, pBuffer, pipe, pRetPacket, pc, fxn, calls,
                       outcome>>
    BY DEF SendUpcall, heap, listenerVars, remoteVars, callerVars
  <1>2. m \in Message /\ m.to = NULL
    BY MessageFacts DEF Unasked
  <1>3. ASSUME NEW d \in Callers PROVE Steady(d)
    <2>1. \A s : OnItsWay(d, s)' <=> OnItsWay(d, s) \/ (Answers(m, d) /\ m.result = s)
      BY <1>1, <1>2, AppendOnItsWay DEF ServiceInv, AnswerInv, OwnershipInv
    <2>2. \A s : OnItsWay(d, s)' <=> OnItsWay(d, s)
      BY <1>2, <2>1 DEF Answers
    <2> QED
      BY <1>1, <2>2, StillOnItsWay
  <1> QED
    BY <1>1, <1>3, Stutter

\* The remote dies; what was still in fd_omx is lost.
LEMMA LinkDiesDies ==
    ASSUME ServiceInv, LinkDies
    PROVE  Service!Die
  <1> USE DEF ServiceInv, AnswerInv, OwnershipInv
  <1>1. /\ link = "up" /\ link' = "dead" /\ inbox' = <<>>
        /\ UNCHANGED <<contents, cbPc, pBuffer, pipe, pRetPacket, pc, fxn, calls, outcome>>
    BY DEF LinkDies, heap, listenerVars, callerVars
  <1>2. \A c \in Callers : AnswerResults(c)' \subseteq AnswerResults(c)
    <2>1. \A c \in Callers : \A r : OnItsWay(c, r)' => OnItsWay(c, r)
      BY <1>1 DEF OnItsWay, Ends, Answers
    <2> QED
      BY <1>1, <2>1 DEF AnswerResults
  <1> DEFINE lost == {c \in Callers : Phase(c) = "answered" /\ Phase(c)' = "called"}
  <1>3. ASSUME NEW c \in Callers, c \notin lost
        PROVE  Phase(c)' = Phase(c) /\ Reply(c)' = Reply(c)
    <2>1. CASE pc[c] = "idle" \/ AnswerResults(c) = {}
      <3>1. AnswerResults(c) = {} => AnswerResults(c)' = {}
        BY <1>2
      <3> QED
        BY <1>1, <2>1, <3>1 DEF Phase, Reply
    <2>2. CASE pc[c] # "idle" /\ AnswerResults(c) # {}
      <3>1. Phase(c) = "answered" /\ Phase(c)' = "answered"
        BY <1>1, <1>3, <2>2 DEF Phase
      <3>2. PICK r : r \in AnswerResults(c)'
        BY <1>1, <3>1 DEF Phase
      <3>3. AnswerResults(c) = {r}
        BY <1>1, <1>2, <2>2, <3>2, OneResult
      <3>4. AnswerResults(c)' = {r}
        BY <1>2, <3>2, <3>3
      <3> QED
        BY <3>1, <3>3, <3>4 DEF Reply, Only
    <2> QED
      BY <2>1, <2>2
  <1>4. \A c \in lost : Reply(c)' = "none"
    BY DEF Reply
  <1>5. phaseBar' = [c \in Callers |-> IF c \in lost THEN "called" ELSE phaseBar[c]]
    BY <1>3 DEF phaseBar
  <1>6. answerBar' = [c \in Callers |-> IF c \in lost THEN "none" ELSE answerBar[c]]
    BY <1>3, <1>4 DEF answerBar
  <1>7. lost \in SUBSET {c \in Callers : phaseBar[c] = "answered"}
    BY DEF phaseBar
  <1> HIDE DEF lost
  <1> QED
    BY <1>1, <1>5, <1>6, <1>7 DEF Service!Die

\* The listener reads a message into a packet that nobody holds.
LEMMA ReadStutters ==
    ASSUME ServiceInv, CbRead
    PROVE  UNCHANGED Service!vars
  <1> USE DEF ServiceInv, AnswerInv, OwnershipInv, TypeInv, TypeOK
  <1>1. /\ cbPc = "read" /\ cbPc' = "dispatch" /\ inbox # <<>> /\ inbox' = Tail(inbox)
        /\ UNCHANGED <<link, pipe, pRetPacket, pc, fxn, calls, outcome>>
    BY DEF CbRead, remoteVars, callerVars
  <1>2. PICK p \in Packets : /\ p \notin live /\ pBuffer' = p
                             /\ contents' = [contents EXCEPT ![p] = Head(inbox)]
    BY DEF CbRead, GetPacket
  <1>3. /\ \A i \in DOMAIN Tail(inbox) : i + 1 \in DOMAIN inbox
                                         /\ Tail(inbox)[i] = inbox[i + 1]
        /\ \A i \in DOMAIN inbox : i # 1 => i - 1 \in DOMAIN Tail(inbox)
                                            /\ Tail(inbox)[i - 1] = inbox[i]
        /\ 1 \in DOMAIN inbox /\ Head(inbox) = inbox[1]
    <2>1. /\ \A i \in DOMAIN Tail(inbox) : i + 1 \in DOMAIN inbox
                                           /\ Tail(inbox)[i] = inbox[i + 1]
          /\ \A i \in DOMAIN inbox : i # 1 => i - 1 \in DOMAIN Tail(inbox)
          /\ \A i \in DOMAIN inbox : i \in Nat
          /\ 1 \in DOMAIN inbox /\ Head(inbox) = inbox[1]
      BY <1>1, TailFacts
    <2> QED
      BY <2>1
  <1>4. contents'[pBuffer'] = inbox[1]
    BY <1>2, <1>3
  <1>5. /\ \A f \in Fxns : \A i \in DOMAIN pipe[f] : contents'[pipe[f][i]] = contents[pipe[f][i]]
        /\ \A c \in Callers : pc[c] = "got" =>
             contents'[pRetPacket[c]] = contents[pRetPacket[c]]
    <2>1. ~PipeHolds(p) /\ ~StubHolds(p)
      BY <1>2 DEF PacketOwnership, HeldIsLive
    <2>2. \A s \in Packets \cup {ErrorPacket} : s # p => contents'[s] = contents[s]
      BY <1>2
    <2>3. \A f \in Fxns : \A i \in DOMAIN pipe[f] :
            pipe[f][i] \in Packets \cup {ErrorPacket} /\ pipe[f][i] # p
      BY <2>1 DEF PipeHolds
    <2>4. \A c \in Callers : pc[c] = "got" =>
            pRetPacket[c] \in Packets \cup {ErrorPacket} /\ pRetPacket[c] # p
      BY <2>1 DEF StubHolds, PointersSet
    <2> QED
      BY <2>2, <2>3, <2>4
  <1>6. ASSUME NEW c \in Callers PROVE Steady(c)
    <2> SUFFICES ASSUME NEW r PROVE OnItsWay(c, r)' <=> OnItsWay(c, r)
      BY <1>1, StillOnItsWay
    <2> DEFINE M(m) == m.to = c /\ m.call = calls[c] /\ m.result = r
    <2>1. (\E i \in DOMAIN inbox : M(inbox[i])) <=>
            M(contents'[pBuffer']) \/ \E i \in DOMAIN inbox' : M(inbox'[i])
      <3> HIDE DEF M
      <3>1. ASSUME NEW i \in DOMAIN inbox, M(inbox[i])
            PROVE  M(contents'[pBuffer']) \/ \E j \in DOMAIN inbox' : M(inbox'[j])
        BY <1>1, <1>3, <1>4, <3>1
      <3>2. ASSUME NEW i \in DOMAIN inbox', M(inbox'[i])
            PROVE  \E j \in DOMAIN inbox : M(inbox[j])
        BY <1>1, <1>3, <3>2
      <3>3. M(contents'[pBuffer']) => \E j \in DOMAIN inbox : M(inbox[j])
        BY <1>3, <1>4
      <3> QED
        BY <3>1, <3>2, <3>3
    <2>2. /\ \A i \in DOMAIN pipe[fxn[c]] :
               contents'[pipe[fxn[c]][i]] = contents[pipe[fxn[c]][i]]
          /\ UNCHANGED <<pipe, fxn, calls>>
      BY <1>1, <1>5
    <2>3. (\E i \in DOMAIN pipe[fxn[c]] :
             Ends(pipe[fxn[c]][i], c) /\ contents[pipe[fxn[c]][i]].result = r)'
          <=> \E i \in DOMAIN pipe[fxn[c]] :
                Ends(pipe[fxn[c]][i], c) /\ contents[pipe[fxn[c]][i]].result = r
      BY <2>2 DEF Ends, Answers
    <2>4. (pc[c] = "got" /\ Ends(pRetPacket[c], c) /\ contents[pRetPacket[c]].result = r)'
          <=> pc[c] = "got" /\ Ends(pRetPacket[c], c) /\ contents[pRetPacket[c]].result = r
      BY <1>1, <1>5 DEF Ends, Answers
    <2> QED
      BY <1>1, <2>1, <2>3, <2>4 DEF OnItsWay, Answers
  <1> QED
    BY <1>1, <1>6, Stutter

\* The listener posts the answer, or the error packet instead, to its stub.
LEMMA PostStutters ==
    ASSUME ServiceInv, CbPost
    PROVE  UNCHANGED Service!vars
  <1> USE DEF ServiceInv, AnswerInv, OwnershipInv, TypeInv
  <1>1. /\ cbPc = "dispatch" /\ cbPc' = "exit" /\ pBuffer \in Packets
        /\ contents[pBuffer].idx \in Fxns
        /\ UNCHANGED <<link, inbox, contents, pRetPacket, pc, fxn, calls, outcome>>
    BY DEF CbPost, PointersSet, remoteVars, callerVars
  <1>2. PICK f \in Fxns : f = contents[pBuffer].idx
    BY <1>1
  <1>3. PICK p \in Packets \cup {ErrorPacket} :
          /\ pipe' = [pipe EXCEPT ![f] = Append(pipe[f], p)]
          /\ p = pBuffer \/ (p = ErrorPacket /\ contents[pBuffer].result = "hardware")
    BY <1>1, <1>2 DEF CbPost, PipeOf
  <1>4. /\ DOMAIN pipe'[f] = DOMAIN pipe[f] \cup {Len(pipe[f]) + 1}
        /\ \A i \in DOMAIN pipe[f] : pipe'[f][i] = pipe[f][i]
        /\ pipe'[f][Len(pipe[f]) + 1] = p
        /\ \A g \in Fxns \ {f} : pipe'[g] = pipe[g]
    BY <1>3, PostFacts
  <1>5. contents[p].result = contents[pBuffer].result
    BY <1>3 DEF PrivateInv, Static
  <1>6. PICK q \in Request : q = Ticket(contents[pBuffer])
    BY <1>1 DEF Tickets
  <1>7. q.idx = f /\ q.to = contents[pBuffer].to /\ q.call = contents[pBuffer].call
    BY <1>2, <1>6 DEF Ticket
  <1>8. q \in Due(q.idx) /\ ~FatalPosted(q.idx)
    BY <1>1, <1>2, <1>6, <1>7, NotFatal DEF Due
  <1>9. pc[q.to] = "waiting" /\ fxn[q.to] = f /\ calls[q.to] = q.call /\ q.to \in Callers
    BY <1>7, <1>8, DueToWaiting DEF Request
  <1>10. ASSUME NEW c \in Callers, pc[c] # "idle"
         PROVE  /\ fxn[c] = f <=> c = q.to
                /\ Answers(contents[pBuffer], c) <=> c = q.to
    BY <1>7, <1>9, <1>10, Apart DEF Answers
  <1>11. ASSUME NEW c \in Callers PROVE Steady(c)
    <2> SUFFICES ASSUME pc[c] # "idle", NEW r PROVE OnItsWay(c, r)' <=> OnItsWay(c, r)
      BY <1>1, StillOnItsWay
    <2> DEFINE P(s) == Ends(s, c) /\ contents[s].result = r
               D == Answers(contents[pBuffer], c) /\ contents[pBuffer].result = r
    <2>1. (\E i \in DOMAIN pipe'[fxn[c]] : P(pipe'[fxn[c]][i])) <=>
            D \/ \E i \in DOMAIN pipe[fxn[c]] : P(pipe[fxn[c]][i])
      <3>1. CASE c = q.to
        <4>1. fxn[c] = f /\ (D <=> P(p))
          BY <1>3, <1>5, <1>10, <3>1 DEF Ends
        <4> HIDE DEF P, D
        <4> QED
          BY <1>4, <4>1
      <3>2. CASE c # q.to
        <4>1. ~D /\ fxn[c] # f /\ fxn[c] \in Fxns
          BY <1>10, <3>2 DEF TypeOK
        <4> HIDE DEF P, D
        <4> QED
          BY <1>4, <4>1
      <3> QED
        BY <3>1, <3>2
    <2> QED
      BY <1>1, <2>1 DEF OnItsWay, Ends, Answers
  <1> QED
    BY <1>1, <1>11, Stutter

\* The listener's own error packets come on a dead link and answer no call.
LEMMA FatalWriteStutters ==
    ASSUME ServiceInv, CbFatalWrite
    PROVE  UNCHANGED Service!vars
  <1> USE DEF ServiceInv, AnswerInv, OwnershipInv, TypeInv
  <1>1. /\ cbPc = "fatal" /\ nFxnIdx \in Fxns
        /\ pipe' = [pipe EXCEPT ![nFxnIdx] = Append(pipe[nFxnIdx], ErrorPacket)]
        /\ UNCHANGED <<link, inbox, contents, cbPc, pBuffer, pRetPacket, pc, fxn, calls,
                       outcome>>
    BY DEF CbFatalWrite, FatalLoopEnd, Fxns, TypeOK, heap, remoteVars, callerVars
  <1>2. link = "dead"
    BY <1>1 DEF LinkState
  <1>3. PICK f \in Fxns : pipe' = [pipe EXCEPT ![f] = Append(pipe[f], ErrorPacket)]
    BY <1>1
  <1>4. /\ DOMAIN pipe'[f] = DOMAIN pipe[f] \cup {Len(pipe[f]) + 1}
        /\ \A i \in DOMAIN pipe[f] : pipe'[f][i] = pipe[f][i]
        /\ pipe'[f][Len(pipe[f]) + 1] = ErrorPacket
        /\ \A g \in Fxns \ {f} : pipe'[g] = pipe[g]
    BY <1>3, PostFacts
  <1>5. ASSUME NEW c \in Callers, NEW r, r # "hardware"
        PROVE  OnItsWay(c, r)' <=> OnItsWay(c, r)
    <2> DEFINE P(s) == Ends(s, c) /\ contents[s].result = r
    <2>1. ~P(ErrorPacket) /\ fxn[c] \in Fxns
      BY <1>5 DEF PrivateInv, Static, TypeOK
    <2>2. (\E i \in DOMAIN pipe'[fxn[c]] : P(pipe'[fxn[c]][i])) <=>
            \E i \in DOMAIN pipe[fxn[c]] : P(pipe[fxn[c]][i])
      <3> HIDE DEF P
      <3>1. CASE fxn[c] = f
        BY <1>4, <2>1, <3>1
      <3>2. CASE fxn[c] # f
        BY <1>4, <2>1, <3>2
      <3> QED
        BY <3>1, <3>2
    <2> QED
      BY <1>1, <2>2 DEF OnItsWay, Ends, Answers
  <1>6. \A c \in Callers : Steady(c)
    BY <1>1, <1>2, <1>5 DEF Steady, AnswerResults
  <1> QED
    BY <1>1, <1>6, Stutter

\* The other steps of the listener carry no answer.
LEMMA ListenerStutters ==
    ASSUME ServiceInv,
           CbKilled \/ CbReadable \/ CbReadFatal \/ CbFatalDone \/ CbUpcall \/ CbExit
    PROVE  UNCHANGED Service!vars
  <1> USE DEF ServiceInv, AnswerInv, OwnershipInv, TypeInv
  <1>1. /\ cbPc' # "dispatch"
        /\ cbPc = "dispatch" => contents[pBuffer].idx = CALLBACK
        /\ UNCHANGED <<link, inbox, contents, pipe, pRetPacket, pc, fxn, calls, outcome>>
    BY DEF CbKilled, CbReadable, CbReadFatal, CbFatalDone, CbUpcall, CbExit, heap,
       remoteVars, callerVars
  <1>2. cbPc = "dispatch" => contents[pBuffer].to = NULL
    BY <1>1, FxnsFacts DEF PrivateInv, MailAddressed, Addressed
  <1>3. ASSUME NEW c \in Callers PROVE Steady(c)
    <2>1. cbPc = "dispatch" => ~Answers(contents[pBuffer], c)
      BY <1>2 DEF Answers
    <2>2. \A r : OnItsWay(c, r)' <=> OnItsWay(c, r)
      BY <1>1, <2>1 DEF OnItsWay, Ends, Answers
    <2> QED
      BY <1>1, <2>2, StillOnItsWay
  <1> QED
    BY <1>1, <1>3, Stutter

\* Nobody is in a call when the instance is torn down.
LEMMA TearDownStutters ==
    ASSUME ServiceInv, KillListener \/ CloseInstance \/ UNCHANGED vars
    PROVE  UNCHANGED Service!vars
  <1>1. CASE KillListener \/ CloseInstance
    <2>1. \A c \in Callers : pc[c] = "idle"
      BY <1>1 DEF KillListener, CloseInstance, ServiceInv, PrivateInv, Static
    <2>2. UNCHANGED <<link, outcome, pc>>
      BY <1>1 DEF KillListener, CloseInstance, remoteVars, callerVars
    <2> QED
      BY <2>1, <2>2, Stutter DEF Steady
  <1>2. CASE UNCHANGED vars
    <2>1. UNCHANGED <<link, inbox, contents, cbPc, pBuffer, pipe, pRetPacket, pc, fxn,
                      calls, outcome>>
      BY <1>2 DEF vars, heap, listenerVars, remoteVars, callerVars
    <2> QED
      BY <2>1, Undisturbed, Stutter
  <1> QED
    BY <1>1, <1>2

\* Every step is one of the service's, or none.
LEMMA StepsOfService ==
    ASSUME TransientFaults = FALSE, PrivateCalls, ServiceInv, [Next]_vars
    PROVE  [Service!Next]_(Service!vars)
  <1>1. ASSUME NEW c \in Callers, NEW f \in Fxns, SendPacket(c, f) \/ SendPacketFails(c, f)
        PROVE  Service!Next
    BY <1>1, SendInvokes, SendFailsRejects DEF Service!Next
  <1>2. ASSUME NEW c \in Callers, StubReturn(c) PROVE Service!Next
    BY <1>2, StubReturns DEF Service!Next
  <1>3. ASSUME NEW q \in requests, NEW r \in Results, Answer(q, r) PROVE Service!Next
    <2>1. q.to \in Callers
      BY DEF ServiceInv, AnswerInv, OwnershipInv, TypeInv, TypeOK, Request
    <2> QED
      BY <1>3, <2>1, AnswerExecutes DEF Service!Next
  <1>4. CASE LinkDies
    BY <1>4, LinkDiesDies DEF Service!Next
  <1>5. ASSUME NEW c \in Callers, ReadFromPipe(c) PROVE UNCHANGED Service!vars
    BY <1>5, TakeStutters
  <1>6. CASE SendUpcall \/ CbRead \/ CbPost \/ CbFatalWrite
    BY <1>6, UpcallStutters, ReadStutters, PostStutters, FatalWriteStutters
  <1>7. CASE CbKilled \/ CbReadable \/ CbReadFatal \/ CbFatalDone \/ CbUpcall \/ CbExit
    BY <1>7, ListenerStutters
  <1>8. CASE KillListener \/ CloseInstance \/ UNCHANGED vars
    BY <1>8, TearDownStutters
  <1>9. ~SendBadIndex /\ ~CbSelectFails /\ ~CbReadFails
    BY DEF SendBadIndex, CbSelectFails, CbReadFails
  <1>10. ~CbBadIndex
    BY DEF CbBadIndex, NoBadIndex, OwnershipInv, AnswerInv, ServiceInv
  <1> QED
    BY <1>1, <1>2, <1>3, <1>4, <1>5, <1>6, <1>7, <1>8, <1>9, <1>10
       DEF Next, CallerStep, Listener, Closed

\* Every behaviour starts as the service does.
LEMMA StartOfService == Init => Service!Init
  <1> SUFFICES ASSUME Init PROVE Service!Init
    OBVIOUS
  <1>1. link = "up" /\ (\A c \in Callers : pc[c] = "idle")
        /\ outcome = [c \in Callers |-> "none"]
    BY DEF Init
  <1>2. \A c \in Callers : Phase(c) = "idle" /\ Reply(c) = "none"
    BY <1>1 DEF Phase, Reply
  <1> QED
    BY <1>1, <1>2 DEF Service!Init, phaseBar, answerBar

(***************************************************************************)
(* The RPC layer keeps its promise: seen from the threads, the packets,    *)
(* pipes and the listener are synchronous calls that the remote executes   *)
(* at most once and that return the result of that execution; a hardware   *)
(* error means that the remote said so or died.  (That every call returns  *)
(* is the rest of ImplementsService.)                                      *)
(***************************************************************************)
THEOREM StepsImplementService ==
    ASSUME TransientFaults = FALSE, PrivateCalls
    PROVE  Spec => Service!Init /\ [][Service!Next]_(Service!vars)
  <1>1. Init => ServiceInv /\ Service!Init
    BY InitAnswers, InitPrivate, StartOfService DEF ServiceInv
  <1>2. ServiceInv /\ [Next]_vars => ServiceInv'
    BY NextAnswers, NextPrivate DEF ServiceInv, AnswerInv
  <1>3. ServiceInv /\ [Next]_vars => [Service!Next]_(Service!vars)
    BY StepsOfService
  <1> QED
    BY <1>1, <1>2, <1>3, PTL DEF Spec

=============================================================================
