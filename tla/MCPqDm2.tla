------------------------------ MODULE MCPqDm2 ------------------------------
(* Instances of PqDm2 for TLC. *)
EXTENDS PqDm2

CONSTANTS k1, k2

\* Two devices with key ids of their own, and unusable entries.
Entries ==
    {[key_id |-> <<1>>, hybrid_public_hex |-> k1],
     [key_id |-> <<2>>, hybrid_public_hex |-> k2],
     [key_id |-> <<1>>, hybrid_public_hex |-> BadHex],
     [key_id |-> NoKeyId, hybrid_public_hex |-> k1],
     [key_id |-> LongKeyId, hybrid_public_hex |-> k1]}

Suite == <<9>>

\* The parties ("a|b", "c"), ("a", "b|c") and ("b", "c").
Contexts ==
    {[sender |-> <<3, Bar, 4>>, recipient |-> <<5>>],
     [sender |-> <<3>>,         recipient |-> <<4, Bar, 5>>],
     [sender |-> <<4>>,         recipient |-> <<5>>]}

\* The suite id followed by "|a", which makes ("b", "c") read as ("a|b", "c").
OtherSuites == {Suite \o <<Bar, 3>>}

\* No strings, and two key ids run together behind an empty string.  Headers of other
\* tokens give lists that are reordered, shorter, longer or repeat a key id.
Lists == {<<>>, <<<<>>, <<1, 2>>>>}

\* Slots may be relabelled as the first device's.
Labels == {<<1>>}

============================================================================
