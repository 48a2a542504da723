--------------------------- MODULE MCProxyBuffers ---------------------------
(* ProxyBuffers on small tables. *)
EXTENDS ProxyBuffers, TLC

CONSTANTS h1, h2, h3, h4, r1, r2, r3, m1, m2, m3, m4

\* Addresses carry no meaning.
Interchangeable ==
    Permutations(Headers) \cup Permutations(Remotes) \cup Permutations(Memory)

=============================================================================
