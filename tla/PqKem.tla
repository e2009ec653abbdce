------------------------------- MODULE PqKem -------------------------------
(***************************************************************************)
(* The hybrid KEM of src/sk_pqc/pqkem.py and the primitives it and its     *)
(* callers are wired from, as symbolic terms: two byte strings are equal   *)
(* in the program, up to negligible probability, iff their terms are       *)
(* equal.  Every operator is a term constructor, so a derivation that      *)
(* mixes other inputs yields a different term.                             *)
(*                                                                         *)
(* A key pair is known by one name k, which stands for the public key      *)
(* X25519_pub || MLKEM768_pub where the code passes `public_key' and for   *)
(* the private key X25519_seed || MLKEM768_secret where it passes          *)
(* `private_key'.  Fresh randomness is a name too.                         *)
(***************************************************************************)

----------------------------------------------------------------------------
(* The primitives (package `cryptography' and liboqs). *)

\* HKDF-SHA256 is collision free: a derived key is the tuple of its inputs.
HKDF(ikm, salt, info) == [ikm |-> ikm, salt |-> salt, info |-> info]

\* Diffie-Hellman: both ends of an exchange compute the same secret.
X25519(own, peer) == {own, peer}

\* ML-KEM-768 with implicit rejection: decapsulation always returns a secret;
\* it is the encapsulated one iff the key and the ciphertext are the same.
MlKemSecret(key, ct) == [key |-> key, ct |-> ct]

\* AES-256-GCM.  A ciphertext remembers what it was sealed with; `intact'
\* is FALSE once its bytes (nonce, body or tag) were altered.
AesGcmEncrypt(key, body, aad) ==
    [key |-> key, body |-> body, aad |-> aad, intact |-> TRUE]

AesGcmOpens(key, box, aad) ==
    /\ box.intact
    /\ box.key = key
    /\ box.aad = aad

----------------------------------------------------------------------------
(* The combiner and the KEM. *)

SUITE_ID == "x25519-mlkem768"

\* The X25519 secret first, then the ML-KEM secret.
Combine(x25519_ss, mlkem_ss) ==
    HKDF(<<x25519_ss, mlkem_ss>>, <<>>, <<SUITE_ID>>)

\* The 1120 byte ciphertext: ephemeral X25519 public key, ML-KEM ciphertext.
Ciphertext(peer, eph) ==
    [x25519 |-> [eph |-> eph, intact |-> TRUE],
     mlkem  |-> [pub |-> peer, coins |-> eph, intact |-> TRUE]]

\* The secret returned next to that ciphertext.
HybridEncap(peer, eph) ==
    LET ct == Ciphertext(peer, eph)
    IN  Combine(X25519(ct.x25519, peer), MlKemSecret(peer, ct.mlkem))

\* Never fails on a ciphertext and a key of the right lengths.
HybridDecap(ct, private) ==
    Combine(X25519(private, ct.x25519), MlKemSecret(private, ct.mlkem))
============================================================================
