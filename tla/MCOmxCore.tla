----------------------------- MODULE MCOmxCore -----------------------------
(* OmxCore with a few clients and a short component table. *)
EXTENDS OmxCore, TLC

CONSTANTS c1, c2, c3, h1, h2, h3

Interchangeable == Permutations(Clients) \cup Permutations(Handles)

=============================================================================
