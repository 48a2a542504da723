--------------------------- MODULE RpcRefinement ----------------------------
(***************************************************************************)
(* RpcChannel implements RpcService when no function is used by two        *)
(* threads.  A call is "answered" as soon as its answer is anywhere        *)
(* between the remote and the stub.                                        *)
(***************************************************************************)
EXTENDS RpcChannel

\* Does m answer the call that c is in?
Answers(m, c) == m.to = c /\ m.call = calls[c]

\* Will packet p, in c's pipe or with its stub, end this call?  The static
\* error packet ends any.
Ends(p, c) == p = ErrorPacket \/ Answers(contents[p], c)

\* Is an answer with result r on its way to c: in fd_omx, at the listener, in
\* the pipe or with the stub?
OnItsWay(c, r) ==
    \/ \E i \in DOMAIN inbox : Answers(inbox[i], c) /\ inbox[i].result = r
    \/ cbPc = "dispatch" /\ Answers(contents[pBuffer], c) /\ contents[pBuffer].result = r
    \/ \E i \in DOMAIN pipe[fxn[c]] :
         Ends(pipe[fxn[c]][i], c) /\ contents[pipe[fxn[c]][i]].result = r
    \/ pc[c] = "got" /\ Ends(pRetPacket[c], c) /\ contents[pRetPacket[c]].result = r

\* On a dead link a hardware error is for whoever is left waiting, not the
\* result of a call that was executed.
AnswerResults(c) ==
    {r \in Results : OnItsWay(c, r) /\ ~(link = "dead" /\ r = "hardware")}

\* Where c's call stands, and its result once there is one.
Phase(c) == IF pc[c] = "idle" THEN "idle"
            ELSE IF AnswerResults(c) = {} THEN "called" ELSE "answered"

Only(results) == CHOOSE r \in results : TRUE

Reply(c) == IF Phase(c) = "answered" THEN Only(AnswerResults(c)) ELSE "none"

phaseBar  == [c \in Callers |-> Phase(c)]
answerBar == [c \in Callers |-> Reply(c)]

Service == INSTANCE RpcService
    WITH alive <- (link = "up"), phase <- phaseBar, answer <- answerBar

(***************************************************************************)
(* Packets, pipes and the listener together give each thread synchronous   *)
(* calls that execute at most once, return the result of their own         *)
(* execution, and always return, through the death of the remote included. *)
(***************************************************************************)
ImplementsService == Service!Spec

=============================================================================
