---------------------------- MODULE MCRpcChannel ----------------------------
(* RpcChannel on small instances: who calls which functions. *)
EXTENDS RpcRefinement, TLC

CONSTANTS c1, c2, c3, p1, p2, p3, p4

\* Two threads that both use every function.
SharedFxns == [c \in Callers |-> Fxns]

\* Each thread has a function of its own; the first one gets the handle.
PrivateFxns == [c \in Callers |-> IF c = c1 THEN {0} ELSE {1}]

\* Packets are interchangeable, and so are threads that call the same things.
Interchangeable == Permutations(Callers) \cup Permutations(Packets)

=============================================================================
