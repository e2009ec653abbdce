----------------------------- MODULE MCPqRoute -----------------------------
(* Instances of PqRoute for TLC. *)
EXTENDS PqRoute, TLC

CONSTANTS k1, k2, h1, h2

\* Keys are interchangeable, and so are headers.
Alike == Permutations(Key) \cup Permutations(Header)

============================================================================
