---------------------------- MODULE PqKemProofs ----------------------------
(* Lemmas about the symbolic KEM, for the modules built on it. *)
EXTENDS PqKem, TLAPS

\* hybrid_decap returns what hybrid_encap returned with a ciphertext only for the
\* private key of the peer and for that very ciphertext: with implicit rejection
\* any other key, and any change in either leg, gives another secret.
LEMMA DecapExact ==
    ASSUME NEW ct, NEW private, NEW peer, NEW eph,
           HybridDecap(ct, private) = HybridEncap(peer, eph)
    PROVE  /\ private = peer
           /\ ct.mlkem = Ciphertext(peer, eph).mlkem
           /\ ct.x25519 = Ciphertext(peer, eph).x25519
<1> DEFINE sent == Ciphertext(peer, eph)
<1>1. /\ HybridDecap(ct, private).ikm[1] = {private, ct.x25519}
      /\ HybridDecap(ct, private).ikm[2].key = private
      /\ HybridDecap(ct, private).ikm[2].ct = ct.mlkem
  BY DEF HybridDecap, Combine, HKDF, X25519, MlKemSecret
<1>2. /\ HybridEncap(peer, eph).ikm[1] = {sent.x25519, peer}
      /\ HybridEncap(peer, eph).ikm[2].key = peer
      /\ HybridEncap(peer, eph).ikm[2].ct = sent.mlkem
  BY DEF HybridEncap, Combine, HKDF, X25519, MlKemSecret
<1>3. private = peer /\ ct.mlkem = sent.mlkem
  BY <1>1, <1>2
<1>4. {peer, ct.x25519} = {sent.x25519, peer}
  BY <1>1, <1>2, <1>3
<1>5. ct.x25519 = sent.x25519
  BY <1>4
<1> QED  BY <1>3, <1>5

\* Both ends of an exchange that nobody touched derive one secret.
LEMMA DecapEncap ==
    ASSUME NEW peer, NEW eph
    PROVE  HybridDecap(Ciphertext(peer, eph), peer) = HybridEncap(peer, eph)
<1>1. X25519(peer, Ciphertext(peer, eph).x25519) = X25519(Ciphertext(peer, eph).x25519, peer)
  BY DEF X25519
<1> QED  BY <1>1 DEF HybridDecap, HybridEncap

\* Damage sets one field of a part and nothing else.
LEMMA SetEph ==
    ASSUME NEW eph, NEW i, NEW x, x = [eph |-> eph, intact |-> i], NEW v
    PROVE  [x EXCEPT !.intact = v] = [eph |-> eph, intact |-> v]
OBVIOUS

\* The intact flag of an ML-KEM ciphertext set anew.
LEMMA SetMlKem ==
    ASSUME NEW pub, NEW coins, NEW i,
           NEW m, m = [pub |-> pub, coins |-> coins, intact |-> i], NEW v
    PROVE  [m EXCEPT !.intact = v] = [pub |-> pub, coins |-> coins, intact |-> v]
OBVIOUS

\* The intact flag of an AES-GCM ciphertext set anew.
LEMMA SetBox ==
    ASSUME NEW key, NEW body, NEW aad, NEW i,
           NEW box, box = [key |-> key, body |-> body, aad |-> aad, intact |-> i], NEW v
    PROVE  [box EXCEPT !.intact = v] =
             [key |-> key, body |-> body, aad |-> aad, intact |-> v]
OBVIOUS

\* The X25519 leg of a hybrid ciphertext put in place.
LEMMA SetX25519 ==
    ASSUME NEW x, NEW m, NEW ct, ct = [x25519 |-> x, mlkem |-> m], NEW v
    PROVE  [ct EXCEPT !.x25519 = v] = [x25519 |-> v, mlkem |-> m]
OBVIOUS

\* The ML-KEM leg of a hybrid ciphertext put in place.
LEMMA SetMlKemLeg ==
    ASSUME NEW x, NEW m, NEW ct, ct = [x25519 |-> x, mlkem |-> m], NEW v
    PROVE  [ct EXCEPT !.mlkem = v] = [x25519 |-> x, mlkem |-> v]
OBVIOUS

\* A ciphertext with either leg spoilt.
LEMMA SpoiltCiphertext ==
    ASSUME NEW eph, NEW i, NEW pub, NEW coins, NEW j,
           NEW ct, ct = [x25519 |-> [eph |-> eph, intact |-> i],
                         mlkem  |-> [pub |-> pub, coins |-> coins, intact |-> j]]
    PROVE  /\ [ct EXCEPT !.x25519.intact = FALSE] =
                [x25519 |-> [eph |-> eph, intact |-> FALSE],
                 mlkem  |-> [pub |-> pub, coins |-> coins, intact |-> j]]
           /\ [ct EXCEPT !.mlkem.intact = FALSE] =
                [x25519 |-> [eph |-> eph, intact |-> i],
                 mlkem  |-> [pub |-> pub, coins |-> coins, intact |-> FALSE]]
<1>1. ct.x25519 = [eph |-> eph, intact |-> i]
  OBVIOUS
<1>2. ct.mlkem = [pub |-> pub, coins |-> coins, intact |-> j]
  OBVIOUS
<1>3. \A v : [ct.x25519 EXCEPT !.intact = v] = [eph |-> eph, intact |-> v]
  <2>1. \A x, v : x = [eph |-> eph, intact |-> i] =>
                     [x EXCEPT !.intact = v] = [eph |-> eph, intact |-> v]
    BY SetEph
  <2> QED  BY <1>1, <2>1, Zenon
<1>4. \A v : [ct.mlkem EXCEPT !.intact = v] = [pub |-> pub, coins |-> coins, intact |-> v]
  <2>1. \A m, v : m = [pub |-> pub, coins |-> coins, intact |-> j] =>
                     [m EXCEPT !.intact = v] = [pub |-> pub, coins |-> coins, intact |-> v]
    BY SetMlKem
  <2> QED  BY <1>2, <2>1, Zenon
<1>5. \A v : [ct EXCEPT !.x25519 = v] =
               [x25519 |-> v, mlkem |-> [pub |-> pub, coins |-> coins, intact |-> j]]
  BY SetX25519
<1>6. \A v : [ct EXCEPT !.mlkem = v] = [x25519 |-> [eph |-> eph, intact |-> i], mlkem |-> v]
  BY SetMlKemLeg
<1>7. [ct EXCEPT !.x25519.intact = FALSE] =
        [x25519 |-> [eph |-> eph, intact |-> FALSE],
         mlkem  |-> [pub |-> pub, coins |-> coins, intact |-> j]]
  BY <1>3, <1>5, Zenon
<1>8. [ct EXCEPT !.mlkem.intact = FALSE] =
        [x25519 |-> [eph |-> eph, intact |-> i],
         mlkem  |-> [pub |-> pub, coins |-> coins, intact |-> FALSE]]
  BY <1>4, <1>6, Zenon
<1> QED  BY <1>7, <1>8

============================================================================
