---------------------------- MODULE MCAnonQueue ----------------------------
(* Instances of AnonQueue for TLC. *)
EXTENDS AnonQueue, TLC

CONSTANTS b1, b2

\* Two bytes, which are only compared.
Bytes == {b1, b2}
Symmetry == Permutations(Bytes)

\* A relay of one letter, and two that cannot be encoded.
Relays == {<<7>>, <<>>, <<7, Slash>>}

\* Ids of one byte are encoded, like those of 16, with four spare bits in the
\* last character.
OneByteIds == {<<0>>, <<255>>}

\* One character of every sort: one that counts in base64 and ends a relay, a pad,
\* and one that is skipped.
SomeSymbols == {Slash, Pad, Other}

============================================================================
