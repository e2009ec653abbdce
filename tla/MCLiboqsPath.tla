---------------------------- MODULE MCLiboqsPath ----------------------------
(* Instances of LiboqsPath for TLC. *)
EXTENDS LiboqsPath

CONSTANTS t1, t2, home, local, usr, opt, locked, none, own

\* Nothing set; an install path exported, which may hold no library; a hint; a hint
\* where the process may not look; a hint, but no home directory.
Usual == [install |-> none, hint |-> none, path |-> <<usr>>, home |-> TRUE]
SomeEnvironments ==
    {Usual, [Usual EXCEPT !.install = opt], [Usual EXCEPT !.hint = opt],
     [Usual EXCEPT !.hint = locked], [Usual EXCEPT !.hint = opt, !.home = FALSE]}

============================================================================
