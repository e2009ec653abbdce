----------------------------- MODULE Letterbox -----------------------------
(***************************************************************************)
(* What every sealing construction of the library promises, with no keys,  *)
(* ciphertexts or tags in it: a letter is put in for one reader, under a   *)
(* context both ends know (suite and parties, route header, nonce), and is *)
(* taken out, any number of times, by that reader and under that context   *)
(* only, as it was put in.                                                 *)
(***************************************************************************)

CONSTANTS Reader, Context, Body

VARIABLES
    posted,    \* letters put in
    read       \* letters taken out

vars == <<posted, read>>

Letter == [reader : Reader, context : Context, body : Body]

Init ==
    /\ posted = {}
    /\ read = {}

Post(l) ==
    /\ posted' = posted \cup {l}
    /\ UNCHANGED read

Read(l) ==
    /\ l \in posted
    /\ read' = read \cup {l}
    /\ UNCHANGED posted

Next ==
    \/ \E l \in Letter : Post(l)
    \/ \E l \in Letter : Read(l)

Spec == Init /\ [][Next]_vars

============================================================================
