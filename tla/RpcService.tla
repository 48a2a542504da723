----------------------------- MODULE RpcService -----------------------------
(***************************************************************************)
(* What the RPC layer promises its callers: a remote procedure call is     *)
(* executed at most once, returns the result of that execution, and fails  *)
(* with a hardware error only when the remote said so or died; every call  *)
(* returns.  No packets, pipes or listener appear here.                    *)
(***************************************************************************)
CONSTANTS Callers, Results

VARIABLES
    alive,    \* is the remote processor running?
    phase,    \* per thread: "idle", "called", "answered"
    answer,   \* per thread: the result of the executed call, while answered
    outcome   \* per thread: what the last call returned

vars == <<alive, phase, answer, outcome>>

Init ==
    /\ alive = TRUE
    /\ phase = [c \in Callers |-> "idle"]
    /\ answer = [c \in Callers |-> "none"]
    /\ outcome = [c \in Callers |-> "none"]

Invoke(c) ==
    /\ alive
    /\ phase[c] = "idle"
    /\ phase' = [phase EXCEPT ![c] = "called"]
    /\ outcome' = [outcome EXCEPT ![c] = "pending"]
    /\ UNCHANGED <<alive, answer>>

\* The call does not get through to a dead remote.
Reject(c) ==
    /\ ~alive
    /\ phase[c] = "idle"
    /\ outcome' = [outcome EXCEPT ![c] = "hardware"]
    /\ UNCHANGED <<alive, phase, answer>>

Execute(c) ==
    /\ alive
    /\ phase[c] = "called"
    /\ phase' = [phase EXCEPT ![c] = "answered"]
    /\ \E r \in Results : answer' = [answer EXCEPT ![c] = r]
    /\ UNCHANGED <<alive, outcome>>

Return(c) ==
    /\ phase[c] = "answered"
    /\ phase' = [phase EXCEPT ![c] = "idle"]
    /\ outcome' = [outcome EXCEPT ![c] = answer[c]]
    /\ answer' = [answer EXCEPT ![c] = "none"]
    /\ UNCHANGED alive

Fail(c) ==
    /\ ~alive
    /\ phase[c] = "called"
    /\ phase' = [phase EXCEPT ![c] = "idle"]
    /\ outcome' = [outcome EXCEPT ![c] = "hardware"]
    /\ UNCHANGED <<alive, answer>>

\* The remote dies; answers on their way may be lost with it.
Die ==
    /\ alive
    /\ alive' = FALSE
    /\ \E lost \in SUBSET {c \in Callers : phase[c] = "answered"} :
        /\ phase' = [c \in Callers |-> IF c \in lost THEN "called" ELSE phase[c]]
        /\ answer' = [c \in Callers |-> IF c \in lost THEN "none" ELSE answer[c]]
    /\ UNCHANGED outcome

Next ==
    \/ \E c \in Callers : Invoke(c) \/ Reject(c) \/ Execute(c) \/ Return(c) \/ Fail(c)
    \/ Die

Spec ==
    /\ Init
    /\ [][Next]_vars
    /\ \A c \in Callers : WF_vars(Execute(c)) /\ WF_vars(Return(c) \/ Fail(c))

=============================================================================
