------------------------------- MODULE MCPqDm -------------------------------
(* Instances of PqDm for TLC. *)
EXTENDS PqDm, TLC

CONSTANTS k1, k2, c1, c2

\* Prekeys are interchangeable, and so are conversations.
Alike == Permutations(Key) \cup Permutations(Context)

============================================================================
