--------------------------- MODULE MCEpochRatchet ---------------------------
(* Instances of EpochRatchet for TLC. *)
EXTENDS EpochRatchet, TLC

CONSTANTS d, a, b

\* Members other than the distributor are interchangeable wherever KeyHolders
\* and Senders do not tell them apart.
OthersAlike == Permutations(Member \ {Distributor})

============================================================================
