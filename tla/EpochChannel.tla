---------------------------- MODULE EpochChannel ----------------------------
(***************************************************************************)
(* What the epoch ratchets promise their callers, with no keys in it: a    *)
(* conversation divided into epochs, each with its own readers.  A message *)
(* is posted in an epoch by one of the epoch's readers, and is read only   *)
(* by them, only as it was posted, and only under its own epoch.           *)
(***************************************************************************)
EXTENDS Naturals

CONSTANTS Member, Body

VARIABLES
    last,      \* the newest epoch
    readers,   \* who may read and post in each epoch
    posted,    \* the messages: epoch, sender and body
    read       \* who has read what

vars == <<last, readers, posted, read>>

Init ==
    /\ last = 0
    /\ readers \in [0..0 -> SUBSET Member]
    /\ posted = {}
    /\ read = {}

\* A new epoch, with readers of its own; the earlier ones keep theirs.
Rekey ==
    /\ last' = last + 1
    /\ \E R \in SUBSET Member :
         readers' = [e \in 0..(last + 1) |-> IF e \in 0..last THEN readers[e] ELSE R]
    /\ UNCHANGED <<posted, read>>

Post(p, e, b) ==
    /\ p \in readers[e]
    /\ posted' = posted \cup {[epoch |-> e, sender |-> p, body |-> b]}
    /\ UNCHANGED <<last, readers, read>>

Read(p, m) ==
    /\ p \in readers[m.epoch]
    /\ read' = read \cup {[to |-> p, epoch |-> m.epoch, body |-> m.body]}
    /\ UNCHANGED <<last, readers, posted>>

Next ==
    \/ Rekey
    \/ \E p \in Member, e \in 0..last, b \in Body : Post(p, e, b)
    \/ \E p \in Member, m \in posted : Read(p, m)

Spec == Init /\ [][Next]_vars

============================================================================
