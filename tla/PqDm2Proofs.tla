---------------------------- MODULE PqDm2Proofs ----------------------------
(* Theorems about PqDm2, for every value of its constants. *)
EXTENDS PqDm2, PqKemProofs, ListLemmas

----------------------------------------------------------------------------
(* The inductive invariant. *)

\* Slot i of message n, for recipient r, after the store has had it: labelled d, cut
\* or not (w), the legs of its ciphertext and its wrapped key intact (x, m, l) or not.
SlotCopy(n, i, r, d, w, x, m, l) ==
    [key_id  |-> d,
     encap   |-> [x25519 |-> [eph |-> <<n, i>>, intact |-> x],
                  mlkem  |-> [pub |-> r.hybrid_public_hex, coins |-> <<n, i>>,
                              intact |-> m]],
     wrapped |-> [key    |-> Pqdm2WrapKey(HybridEncap(r.hybrid_public_hex, <<n, i>>)),
                  body   |-> <<"K", n>>,
                  aad    |-> Bound(n, <<>>),
                  intact |-> l],
     whole   |-> w]

\* A slot that was call s's, whatever became of it.
IsSlotOf(slot, s) ==
    \E i \in DOMAIN s.recipients, w \in BOOLEAN, x \in BOOLEAN, m \in BOOLEAN, l \in BOOLEAN :
      slot = SlotCopy(s.token.nonce, i, s.recipients[i], slot.key_id, w, x, m, l)

\* The body of call s, intact or not.
IsBodyOf(ct, s) ==
    \E l \in BOOLEAN : ct = [s.token.ct EXCEPT !.intact = l]

\* A slot region that a store made of that of one call.
IsRegionOf(slots, s) ==
    /\ slots \in Seq(ToSet(slots))
    /\ \A slot \in ToSet(slots) : IsSlotOf(slot, s)

\* Calls are numbered one after another, and each returned what seal_multi returns.
SealsInv ==
    /\ IsFiniteSet(tokens)
    /\ \A s \in tokens :
         /\ s.token.nonce \in Nat /\ s.token.nonce < Cardinality(tokens)
         /\ s.recipients \in RecipientLists /\ Seals(s.recipients)
         /\ s.context \in Context
         /\ s.token = SealMulti(s.token.nonce, s.recipients, s.context)
    /\ \A s, u \in tokens : s.token.nonce = u.token.nonce => s = u

\* The nonce and the body of an altered token are one call's, its slots one call's.
AlteredInv ==
    \A a \in altered :
      /\ DOMAIN a = {"suite", "kids", "slots", "nonce", "ct"}
      /\ \E z \in tokens : a.nonce = z.token.nonce /\ IsBodyOf(a.ct, z)
      /\ \E y \in tokens : IsRegionOf(a.slots, y)

Inv == SealsInv /\ AlteredInv

----------------------------------------------------------------------------
(* Facts about the functions of the module. *)

\* What seal_multi returns, field by field.
LEMMA SealParts ==
    ASSUME NEW n, NEW rs, NEW c, NEW t, t = SealMulti(n, rs, c)
    PROVE  /\ t.suite = HYBRID_SUITE /\ t.kids = Kids(rs) /\ t.nonce = n
           /\ t.slots = [i \in DOMAIN rs |-> SealSlot(n, i, rs[i])]
           /\ t.ct = AesGcmEncrypt(<<"K", n>>, n,
                       Bound(n, Pqdm2Aad(HYBRID_SUITE, c, Kids(rs))))
           /\ DOMAIN t = {"suite", "kids", "slots", "nonce", "ct"}
BY DEF SealMulti

\* A slot of seal_multi is the undamaged copy of itself.
LEMMA SlotAsSealed ==
    ASSUME NEW n, NEW i, NEW r
    PROVE  SealSlot(n, i, r) = SlotCopy(n, i, r, SealSlot(n, i, r).key_id,
                                        TRUE, TRUE, TRUE, TRUE)
<1>1. SealSlot(n, i, r) = SlotCopy(n, i, r, r.key_id, TRUE, TRUE, TRUE, TRUE)
  BY DEF SealSlot, SlotCopy, Ciphertext, AesGcmEncrypt
<1>2. SealSlot(n, i, r).key_id = r.key_id
  BY DEF SealSlot
<1> QED  BY <1>1, <1>2

\* The wrapped key of a slot comes out.
Unwraps(slot, private, nonce) ==
    AesGcmOpens(Pqdm2WrapKey(HybridDecap(slot.encap, private)), slot.wrapped,
                Bound(nonce, <<>>))

\* The wrapped key of a slot comes out for the private key of its recipient alone,
\* and under the nonce of its message alone.
LEMMA UnwrapsExact ==
    ASSUME NEW s, NEW slot, IsSlotOf(slot, s), NEW private, NEW nonce,
           Unwraps(slot, private, nonce)
    PROVE  /\ nonce = s.token.nonce /\ slot.wrapped.body = <<"K", nonce>>
           /\ \E i \in DOMAIN s.recipients : private = s.recipients[i].hybrid_public_hex
<1>1. PICK i \in DOMAIN s.recipients, w \in BOOLEAN, x \in BOOLEAN, m \in BOOLEAN,
           l \in BOOLEAN :
        slot = SlotCopy(s.token.nonce, i, s.recipients[i], slot.key_id, w, x, m, l)
  BY DEF IsSlotOf
<1> DEFINE n == s.token.nonce
           r == s.recipients[i]
<1>2. /\ slot.wrapped.key = Pqdm2WrapKey(HybridEncap(r.hybrid_public_hex, <<n, i>>))
      /\ slot.wrapped.aad = Bound(n, <<>>) /\ slot.wrapped.body = <<"K", n>>
  BY <1>1 DEF SlotCopy
<1> HIDE DEF n, r
<1>3. /\ Pqdm2WrapKey(HybridDecap(slot.encap, private)) =
           Pqdm2WrapKey(HybridEncap(r.hybrid_public_hex, <<n, i>>))
      /\ Bound(nonce, <<>>) = Bound(n, <<>>)
  BY <1>2 DEF Unwraps, AesGcmOpens
<1>4. nonce = n
  BY <1>3 DEF Bound
<1>5. HybridDecap(slot.encap, private) = HybridEncap(r.hybrid_public_hex, <<n, i>>)
  <2>1. \A k : Pqdm2WrapKey(k).ikm = k
    BY DEF Pqdm2WrapKey, HKDF
  <2> QED  BY <1>3, <2>1
<1>6. private = r.hybrid_public_hex
  BY <1>5, DecapExact
<1> QED  BY <1>2, <1>4, <1>6 DEF n, r

\* A sound slot gives its recipient the message key.
LEMMA SoundUnwraps ==
    ASSUME NEW n, NEW i, NEW r, NEW slot, slot = SealSlot(n, i, r)
    PROVE  /\ Unwraps(slot, r.hybrid_public_hex, n)
           /\ slot.wrapped.body = <<"K", n>> /\ slot.whole /\ slot.key_id = r.key_id
<1>1. HybridDecap(Ciphertext(r.hybrid_public_hex, <<n, i>>), r.hybrid_public_hex) =
        HybridEncap(r.hybrid_public_hex, <<n, i>>)
  BY DecapEncap
<1>2. /\ slot.encap = Ciphertext(r.hybrid_public_hex, <<n, i>>)
      /\ slot.wrapped = AesGcmEncrypt(
           Pqdm2WrapKey(HybridEncap(r.hybrid_public_hex, <<n, i>>)), <<"K", n>>,
           Bound(n, <<>>))
      /\ slot.whole /\ slot.key_id = r.key_id
  BY DEF SealSlot
<1> QED  BY <1>1, <1>2 DEF Unwraps, AesGcmOpens, AesGcmEncrypt

\* Damage to a slot, or another label, leaves a slot of the same call.
LEMMA DamagedSlot ==
    ASSUME NEW s, NEW slot, IsSlotOf(slot, s), NEW label
    PROVE  /\ IsSlotOf([slot EXCEPT !.key_id = label], s)
           /\ IsSlotOf([slot EXCEPT !.whole = FALSE], s)
           /\ IsSlotOf([slot EXCEPT !.encap.x25519.intact = FALSE], s)
           /\ IsSlotOf([slot EXCEPT !.encap.mlkem.intact = FALSE], s)
           /\ IsSlotOf([slot EXCEPT !.wrapped.intact = FALSE], s)
<1>1. PICK i \in DOMAIN s.recipients, w \in BOOLEAN, x \in BOOLEAN, m \in BOOLEAN,
           l \in BOOLEAN :
        slot = SlotCopy(s.token.nonce, i, s.recipients[i], slot.key_id, w, x, m, l)
  BY DEF IsSlotOf
<1> DEFINE n      == s.token.nonce
           r      == s.recipients[i]
           eph    == <<n, i>>
           pub    == r.hybrid_public_hex
           leg(v) == [eph |-> eph, intact |-> v]
           kem(v) == [pub |-> pub, coins |-> eph, intact |-> v]
           key    == Pqdm2WrapKey(HybridEncap(r.hybrid_public_hex, <<n, i>>))
           aad    == Bound(n, <<>>)
           box(v) == [key |-> key, body |-> <<"K", n>>, aad |-> aad, intact |-> v]
           ct0    == [x25519 |-> leg(x), mlkem |-> kem(m)]
           id     == slot.key_id
<1>2. slot = [key_id |-> id, encap |-> ct0, wrapped |-> box(l), whole |-> w]
  BY <1>1 DEF SlotCopy
<1>3. slot.encap = ct0 /\ slot.wrapped = box(l)
  BY <1>2
<1>4. /\ [slot.encap EXCEPT !.x25519.intact = FALSE] = [x25519 |-> leg(FALSE), mlkem |-> kem(m)]
      /\ [slot.encap EXCEPT !.mlkem.intact = FALSE] = [x25519 |-> leg(x), mlkem |-> kem(FALSE)]
  <2> HIDE DEF eph, pub
  <2>1. \A ct : ct = [x25519 |-> leg(x), mlkem |-> kem(m)] =>
          /\ [ct EXCEPT !.x25519.intact = FALSE] = [x25519 |-> leg(FALSE), mlkem |-> kem(m)]
          /\ [ct EXCEPT !.mlkem.intact = FALSE] = [x25519 |-> leg(x), mlkem |-> kem(FALSE)]
    BY SpoiltCiphertext
  <2> QED  BY <1>3, <2>1, Zenon
<1>5. [slot.wrapped EXCEPT !.intact = FALSE] = box(FALSE)
  <2>1. \A y, v : y = [key |-> key, body |-> <<"K", n>>, aad |-> aad, intact |-> l] =>
          [y EXCEPT !.intact = v] = [key |-> key, body |-> <<"K", n>>, aad |-> aad, intact |-> v]
    BY SetBox
  <2> QED  BY <1>3, <2>1, Zenon
<1> HIDE DEF leg, kem, key, aad, box, ct0, id
<1>6. \A v : [slot EXCEPT !.encap = v] =
               [key_id |-> id, encap |-> v, wrapped |-> box(l), whole |-> w]
  BY <1>2
<1>7. \A v : [slot EXCEPT !.wrapped = v] =
               [key_id |-> id, encap |-> ct0, wrapped |-> v, whole |-> w]
  BY <1>2
<1>8. \A v : [slot EXCEPT !.whole = v] =
               [key_id |-> id, encap |-> ct0, wrapped |-> box(l), whole |-> v]
  BY <1>2
<1>9. /\ [slot EXCEPT !.key_id = label] =
           [key_id |-> label, encap |-> ct0, wrapped |-> box(l), whole |-> w]
      /\ [slot EXCEPT !.whole = FALSE] =
           [key_id |-> id, encap |-> ct0, wrapped |-> box(l), whole |-> FALSE]
      /\ [slot EXCEPT !.encap.x25519.intact = FALSE] =
           [key_id |-> id, encap |-> [x25519 |-> leg(FALSE), mlkem |-> kem(m)],
            wrapped |-> box(l), whole |-> w]
      /\ [slot EXCEPT !.encap.mlkem.intact = FALSE] =
           [key_id |-> id, encap |-> [x25519 |-> leg(x), mlkem |-> kem(FALSE)],
            wrapped |-> box(l), whole |-> w]
      /\ [slot EXCEPT !.wrapped.intact = FALSE] =
           [key_id |-> id, encap |-> ct0, wrapped |-> box(FALSE), whole |-> w]
  <2>1. \A v : [slot EXCEPT !.key_id = v] =
                 [key_id |-> v, encap |-> ct0, wrapped |-> box(l), whole |-> w]
    BY <1>2
  <2> QED  BY <2>1, <1>4, <1>5, <1>6, <1>7, <1>8, Zenon
<1>10. /\ [slot EXCEPT !.key_id = label] = SlotCopy(n, i, r, label, w, x, m, l)
       /\ [slot EXCEPT !.whole = FALSE] = SlotCopy(n, i, r, id, FALSE, x, m, l)
       /\ [slot EXCEPT !.encap.x25519.intact = FALSE] = SlotCopy(n, i, r, id, w, FALSE, m, l)
       /\ [slot EXCEPT !.encap.mlkem.intact = FALSE] = SlotCopy(n, i, r, id, w, x, FALSE, l)
       /\ [slot EXCEPT !.wrapped.intact = FALSE] = SlotCopy(n, i, r, id, w, x, m, FALSE)
  BY <1>9 DEF SlotCopy, leg, kem, key, aad, box, ct0
<1>11. \A d : \A v1, v2, v3, v4 \in BOOLEAN : IsSlotOf(SlotCopy(n, i, r, d, v1, v2, v3, v4), s)
  <2> SUFFICES ASSUME NEW d, NEW v1 \in BOOLEAN, NEW v2 \in BOOLEAN, NEW v3 \in BOOLEAN,
                      NEW v4 \in BOOLEAN
               PROVE  IsSlotOf(SlotCopy(n, i, r, d, v1, v2, v3, v4), s)
    OBVIOUS
  <2>1. SlotCopy(n, i, r, d, v1, v2, v3, v4).key_id = d
    BY DEF SlotCopy
  <2> QED  BY <2>1 DEF IsSlotOf
<1>12. /\ IsSlotOf(SlotCopy(n, i, r, label, w, x, m, l), s)
       /\ IsSlotOf(SlotCopy(n, i, r, id, FALSE, x, m, l), s)
       /\ IsSlotOf(SlotCopy(n, i, r, id, w, FALSE, m, l), s)
       /\ IsSlotOf(SlotCopy(n, i, r, id, w, x, FALSE, l), s)
       /\ IsSlotOf(SlotCopy(n, i, r, id, w, x, m, FALSE), s)
  <2>1. FALSE \in BOOLEAN
    OBVIOUS
  <2> HIDE DEF n, r
  <2> QED  BY <1>1, <1>11, <2>1, Zenon
<1> HIDE DEF n, r
<1> QED  BY <1>10, <1>12, Zenon

\* The recipients of a call are numbered from 1.
LEMMA RecipientsNumbered ==
    ASSUME NEW rs \in RecipientLists
    PROVE  \E n \in Nat : rs \in [1..n -> Entry]
<1>1. rs \in UNION {[1..n -> Entry] : n \in 0..MaxSlots}
  BY DEF RecipientLists
<1>2. PICK n \in 0..MaxSlots : rs \in [1..n -> Entry]
  <2>1. PICK lists \in {[1..n -> Entry] : n \in 0..MaxSlots} : rs \in lists
    BY <1>1
  <2>2. PICK n \in 0..MaxSlots : lists = [1..n -> Entry]
    BY <2>1
  <2> QED  BY <2>1, <2>2
<1>3. n \in Nat
  BY TokenAssumption
<1> QED  BY <1>2, <1>3

\* The slot region of a call, slot by slot.
LEMMA OwnRegion ==
    ASSUME SealsInv, NEW s \in tokens
    PROVE  /\ IsRegionOf(s.token.slots, s)
           /\ DOMAIN s.token.slots = DOMAIN s.recipients
           /\ \A i \in DOMAIN s.recipients :
                s.token.slots[i] = SealSlot(s.token.nonce, i, s.recipients[i])
<1> DEFINE q == s.token.slots
<1>1. PICK n \in Nat : s.recipients \in [1..n -> Entry]
  BY RecipientsNumbered DEF SealsInv
<1>2. q = [i \in 1..n |-> SealSlot(s.token.nonce, i, s.recipients[i])]
  <2>1. s.token = SealMulti(s.token.nonce, s.recipients, s.context)
    BY DEF SealsInv
  <2>2. s.token.slots = [i \in DOMAIN s.recipients |->
                           SealSlot(s.token.nonce, i, s.recipients[i])]
    BY <2>1 DEF SealMulti
  <2>3. DOMAIN s.recipients = 1..n
    BY <1>1
  <2> QED  BY <2>2, <2>3
<1>3. ASSUME NEW i \in 1..n
      PROVE  /\ q[i] = SealSlot(s.token.nonce, i, s.recipients[i])
             /\ IsSlotOf(q[i], s)
  <2>1. q[i] = SealSlot(s.token.nonce, i, s.recipients[i])
    BY <1>2
  <2>2. q[i] = SlotCopy(s.token.nonce, i, s.recipients[i], q[i].key_id,
                        TRUE, TRUE, TRUE, TRUE)
    <3>1. \A j, k, e : SealSlot(j, k, e) = SlotCopy(j, k, e, SealSlot(j, k, e).key_id,
                                                    TRUE, TRUE, TRUE, TRUE)
      BY SlotAsSealed
    <3> DEFINE slot == SealSlot(s.token.nonce, i, s.recipients[i])
    <3>2. slot = SlotCopy(s.token.nonce, i, s.recipients[i], slot.key_id,
                          TRUE, TRUE, TRUE, TRUE)
      BY <3>1
    <3>3. q[i] = slot
      BY <2>1
    <3> HIDE DEF q, slot
    <3> QED  BY <3>2, <3>3
  <2>3. i \in DOMAIN s.recipients
    BY <1>1
  <2> QED  BY <2>1, <2>2, <2>3 DEF IsSlotOf
<1>4. DOMAIN q = 1..n /\ q \in Seq(ToSet(q))
  BY <1>2 DEF ToSet
<1>5. IsRegionOf(q, s)
  <2> HIDE DEF q
  <2> QED  BY <1>3, <1>4 DEF IsRegionOf, ToSet
<1> QED  BY <1>1, <1>3, <1>4, <1>5

\* A store may reverse a slot region, repeat it, drop a slot, relabel or damage one.
LEMMA RegionOfRegion ==
    ASSUME NEW s, NEW t, IsRegionOf(t.slots, s), NEW region \in SlotRegions(t)
    PROVE  IsRegionOf(region, s)
<1> DEFINE q == t.slots
           S == {q[i] : i \in DOMAIN q}
<1>1. q \in Seq(S)
  BY DEF IsRegionOf, ToSet
<1>2. \A e \in S : IsSlotOf(e, s)
  BY DEF IsRegionOf, ToSet
<1>3. ASSUME NEW u \in Seq(S) PROVE IsRegionOf(u, s)
  <2>1. Len(u) \in Nat /\ DOMAIN u = 1..Len(u) /\ \A i \in 1..Len(u) : u[i] \in S
    <3> HIDE DEF S
    <3> QED  OBVIOUS
  <2>2. u \in Seq(ToSet(u))
    <3> HIDE DEF S
    <3> QED  BY <2>1 DEF ToSet
  <2> HIDE DEF S
  <2> QED  BY <1>2, <2>1, <2>2 DEF IsRegionOf, ToSet
<1>4. region \in {q, Reverse(q), q \o q}
        \cup UNION {{RemoveAt(q, i),
                     Replaced(q, i, [q[i] EXCEPT !.whole = FALSE]),
                     Replaced(q, i, [q[i] EXCEPT !.encap.x25519.intact = FALSE]),
                     Replaced(q, i, [q[i] EXCEPT !.encap.mlkem.intact = FALSE]),
                     Replaced(q, i, [q[i] EXCEPT !.wrapped.intact = FALSE])}
                    \cup {Replaced(q, i, [q[i] EXCEPT !.key_id = label]) :
                            label \in SlotLabels}
                    : i \in DOMAIN q}
  BY DEF SlotRegions
<1>5. Len(q) \in Nat /\ DOMAIN q = 1..Len(q) /\ \A i \in 1..Len(q) : q[i] \in S
  <2> HIDE DEF S, q
  <2> QED  BY <1>1
<1>6. ASSUME NEW i \in DOMAIN q, NEW slot, IsSlotOf(slot, s)
      PROVE  IsRegionOf(Replaced(q, i, slot), s)
  <2> DEFINE u == Replaced(q, i, slot)
  <2>1. /\ u = [j \in 1..Len(q) |-> u[j]]
        /\ \A j \in 1..Len(q) : u[j] = slot \/ u[j] = q[j]
    <3> HIDE DEF S, q
    <3> QED  BY <1>1, <1>5 DEF Replaced
  <2>2. u \in Seq(ToSet(u))
    <3> HIDE DEF u, q, S
    <3> QED  BY <1>5, <2>1 DEF ToSet
  <2>3. \A e \in ToSet(u) : IsSlotOf(e, s)
    <3> HIDE DEF u, q, S
    <3> QED  BY <1>2, <1>5, <1>6, <2>1 DEF ToSet
  <2> QED  BY <2>2, <2>3 DEF IsRegionOf
<1>7. CASE region \in {q, Reverse(q), q \o q} \cup {RemoveAt(q, i) : i \in DOMAIN q}
  <2>1. Reverse(q) \in Seq(S)
    <3> HIDE DEF S, q
    <3>1. \A i \in 1..Len(q) : (Len(q) - i) + 1 \in 1..Len(q)
      BY <1>5
    <3> QED  BY <1>1, <1>5, <3>1 DEF Reverse
  <2>2. ASSUME NEW i \in DOMAIN q PROVE RemoveAt(q, i) \in Seq(S)
    <3> HIDE DEF S, q
    <3>1. SubSeq(q, 1, i - 1) \in Seq(S) /\ SubSeq(q, i + 1, Len(q)) \in Seq(S)
      BY <1>1, <1>5
    <3> QED  BY <3>1 DEF RemoveAt
  <2>3. q \o q \in Seq(S)
    <3> HIDE DEF S, q
    <3> QED  BY <1>1
  <2> QED  BY <1>1, <1>3, <1>7, <2>1, <2>2, <2>3
<1>8. CASE \E i \in DOMAIN q :
             region \in {Replaced(q, i, [q[i] EXCEPT !.whole = FALSE]),
                         Replaced(q, i, [q[i] EXCEPT !.encap.x25519.intact = FALSE]),
                         Replaced(q, i, [q[i] EXCEPT !.encap.mlkem.intact = FALSE]),
                         Replaced(q, i, [q[i] EXCEPT !.wrapped.intact = FALSE])}
  <2>1. PICK i \in DOMAIN q :
             region \in {Replaced(q, i, [q[i] EXCEPT !.whole = FALSE]),
                         Replaced(q, i, [q[i] EXCEPT !.encap.x25519.intact = FALSE]),
                         Replaced(q, i, [q[i] EXCEPT !.encap.mlkem.intact = FALSE]),
                         Replaced(q, i, [q[i] EXCEPT !.wrapped.intact = FALSE])}
    BY <1>8
  <2>2. IsSlotOf(q[i], s)
    BY <1>2
  <2> DEFINE Slot(e) == IsSlotOf(e, s)
  <2>3. /\ Slot([q[i] EXCEPT !.whole = FALSE])
        /\ Slot([q[i] EXCEPT !.encap.x25519.intact = FALSE])
        /\ Slot([q[i] EXCEPT !.encap.mlkem.intact = FALSE])
        /\ Slot([q[i] EXCEPT !.wrapped.intact = FALSE])
    BY <2>2, DamagedSlot, Zenon
  <2> QED  BY <1>6, <2>1, <2>3, Zenon
<1>9. CASE \E i \in DOMAIN q, label \in SlotLabels :
             region = Replaced(q, i, [q[i] EXCEPT !.key_id = label])
  <2>1. PICK i \in DOMAIN q, label \in SlotLabels :
          region = Replaced(q, i, [q[i] EXCEPT !.key_id = label])
    BY <1>9
  <2>2. IsSlotOf(q[i], s)
    BY <1>2
  <2>3. IsSlotOf([q[i] EXCEPT !.key_id = label], s)
    BY <2>2, DamagedSlot, Zenon
  <2> QED  BY <1>6, <2>1, <2>3, Zenon
<1>10. \/ region \in {q, Reverse(q), q \o q} \cup {RemoveAt(q, i) : i \in DOMAIN q}
       \/ \E i \in DOMAIN q, label \in SlotLabels :
            region = Replaced(q, i, [q[i] EXCEPT !.key_id = label])
       \/ \E i \in DOMAIN q :
            region \in {Replaced(q, i, [q[i] EXCEPT !.whole = FALSE]),
                        Replaced(q, i, [q[i] EXCEPT !.encap.x25519.intact = FALSE]),
                        Replaced(q, i, [q[i] EXCEPT !.encap.mlkem.intact = FALSE]),
                        Replaced(q, i, [q[i] EXCEPT !.wrapped.intact = FALSE])}
  <2> HIDE DEF q
  <2> QED  BY <1>4, Zenon
<1> QED  BY <1>7, <1>8, <1>9, <1>10, Zenon

----------------------------------------------------------------------------
(* The invariant is inductive. *)

\* At the start nothing is sealed.
LEMMA InitInv == Init => Inv
BY FS_EmptySet DEF Init, Inv, SealsInv, AlteredInv

\* A body is its own call's, and so it is once it is damaged.
LEMMA BodyOf ==
    ASSUME SealsInv, NEW s \in tokens
    PROVE  /\ IsBodyOf(s.token.ct, s)
           /\ IsBodyOf([s.token.ct EXCEPT !.intact = FALSE], s)
           /\ s.token.ct = [key |-> <<"K", s.token.nonce>>, body |-> s.token.nonce,
                            aad |-> Bound(s.token.nonce,
                                          Pqdm2Aad(HYBRID_SUITE, s.context,
                                                   Kids(s.recipients))),
                            intact |-> TRUE]
<1>1. s.token = SealMulti(s.token.nonce, s.recipients, s.context)
  BY DEF SealsInv
<1>2. s.token.ct = AesGcmEncrypt(<<"K", s.token.nonce>>, s.token.nonce,
                     Bound(s.token.nonce,
                           Pqdm2Aad(HYBRID_SUITE, s.context, Kids(s.recipients))))
  BY <1>1 DEF SealMulti
<1> DEFINE key == <<"K", s.token.nonce>>
           aad == Bound(s.token.nonce,
                        Pqdm2Aad(HYBRID_SUITE, s.context, Kids(s.recipients)))
<1>3. s.token.ct = [key |-> key, body |-> s.token.nonce, aad |-> aad, intact |-> TRUE]
  BY <1>2 DEF AesGcmEncrypt
<1>4. s.token.ct = [s.token.ct EXCEPT !.intact = TRUE]
  <2>1. \A i : [key |-> key, body |-> s.token.nonce, aad |-> aad, intact |-> i] =
          [[key |-> key, body |-> s.token.nonce, aad |-> aad, intact |-> i]
             EXCEPT !.intact = i]
    <3> HIDE DEF key, aad
    <3> QED  OBVIOUS
  <2> QED  BY <1>3, <2>1, Zenon
<1>5. IsBodyOf(s.token.ct, s)
  <2>1. TRUE \in BOOLEAN
    OBVIOUS
  <2> QED  BY <1>4, <2>1, Zenon DEF IsBodyOf
<1>6. IsBodyOf([s.token.ct EXCEPT !.intact = FALSE], s)
  BY DEF IsBodyOf
<1> QED  BY <1>3, <1>5, <1>6

\* A call of seal_multi takes the next number.
LEMMA SealStep ==
    ASSUME Inv, NEW rs \in RecipientLists, NEW c \in Context, Seal(rs, c)
    PROVE  Inv'
<1> DEFINE n   == Cardinality(tokens)
           t   == SealMulti(n, rs, c)
           new == [token |-> t, recipients |-> rs, context |-> c]
<1>1. tokens' = tokens \cup {new} /\ altered' = altered /\ Seals(rs)
  BY DEF Seal
<1>2. n \in Nat /\ IsFiniteSet(tokens)
  BY FS_CardinalityType DEF Inv, SealsInv
<1>3. t.nonce = n
  BY DEF SealMulti
<1>4. new.token = t /\ new.recipients = rs /\ new.context = c
  OBVIOUS
<1>5. new.token = SealMulti(new.token.nonce, new.recipients, new.context)
  BY <1>3, <1>4
<1> HIDE DEF t, new, n
<1>6. \A s \in tokens : s.token.nonce \in Nat /\ s.token.nonce < n
  BY DEF Inv, SealsInv, n
<1>7. new \notin tokens
  BY <1>2, <1>3, <1>4, <1>6
<1>8. IsFiniteSet(tokens') /\ Cardinality(tokens') = n + 1
  BY <1>1, <1>2, <1>7, FS_AddElement DEF n
<1>9. SealsInv'
  <2>1. ASSUME NEW s \in tokens'
        PROVE  /\ s.token.nonce \in Nat /\ s.token.nonce < Cardinality(tokens')
               /\ s.recipients \in RecipientLists /\ Seals(s.recipients)
               /\ s.context \in Context
               /\ s.token = SealMulti(s.token.nonce, s.recipients, s.context)
    <3>1. CASE s \in tokens
      BY <1>2, <1>6, <1>8, <3>1 DEF Inv, SealsInv
    <3>2. CASE s = new
      BY <1>1, <1>2, <1>3, <1>4, <1>5, <1>8, <3>2
    <3> QED  BY <1>1, <3>1, <3>2
  <2>2. \A s, u \in tokens' : s.token.nonce = u.token.nonce => s = u
    BY <1>1, <1>2, <1>3, <1>4, <1>6 DEF Inv, SealsInv
  <2> QED  BY <1>8, <2>1, <2>2 DEF SealsInv
<1>10. AlteredInv'
  BY <1>1 DEF Inv, AlteredInv
<1> QED  BY <1>9, <1>10 DEF Inv

\* The store puts a token together from parts of sealed ones.
LEMMA AlterStep ==
    ASSUME Inv, NEW x \in tokens, NEW y \in tokens, NEW z \in tokens,
           NEW h \in Headers(x.token), NEW region \in SlotRegions(y.token),
           Alter(h, region, z.token)
    PROVE  Inv'
<1> DEFINE new == [suite |-> h.suite, kids |-> h.kids, slots |-> region,
                   nonce |-> z.token.nonce, ct |-> z.token.ct]
<1>1. altered' = altered \cup {new} /\ tokens' = tokens
  BY DEF Alter
<1>2. /\ DOMAIN new = {"suite", "kids", "slots", "nonce", "ct"}
      /\ new.nonce = z.token.nonce /\ new.ct = z.token.ct /\ new.slots = region
  OBVIOUS
<1> HIDE DEF new
<1>3. IsBodyOf(z.token.ct, z)
  BY BodyOf DEF Inv
<1>4. IsRegionOf(region, y)
  <2>1. IsRegionOf(y.token.slots, y)
    BY OwnRegion DEF Inv
  <2> QED  BY <2>1, RegionOfRegion
<1>5. AlteredInv'
  BY <1>1, <1>2, <1>3, <1>4 DEF Inv, AlteredInv
<1> QED  BY <1>1, <1>5 DEF Inv, SealsInv

\* The store damages a body.
LEMMA DamageStep ==
    ASSUME Inv, NEW x \in tokens, Damage(x.token)
    PROVE  Inv'
<1> DEFINE new == [x.token EXCEPT !.ct.intact = FALSE]
<1>1. altered' = altered \cup {new} /\ tokens' = tokens
  BY DEF Damage
<1>2. x.token = SealMulti(x.token.nonce, x.recipients, x.context)
  BY DEF Inv, SealsInv
<1>3. DOMAIN x.token = {"suite", "kids", "slots", "nonce", "ct"}
  BY <1>2 DEF SealMulti
<1>4. /\ DOMAIN new = {"suite", "kids", "slots", "nonce", "ct"}
      /\ new.nonce = x.token.nonce /\ new.slots = x.token.slots
      /\ new.ct = [x.token.ct EXCEPT !.intact = FALSE]
  BY <1>3
<1> HIDE DEF new
<1>5. /\ IsBodyOf([x.token.ct EXCEPT !.intact = FALSE], x)
      /\ IsRegionOf(x.token.slots, x)
  BY BodyOf, OwnRegion DEF Inv
<1>6. AlteredInv'
  BY <1>1, <1>4, <1>5 DEF Inv, AlteredInv
<1> QED  BY <1>1, <1>6 DEF Inv, SealsInv

\* Every action keeps the invariant.
LEMMA NextInv == Inv /\ [Next]_vars => Inv'
<1> SUFFICES ASSUME Inv, [Next]_vars PROVE Inv'
  OBVIOUS
<1>1. CASE \E rs \in RecipientLists, c \in Context : Seal(rs, c)
  BY <1>1, SealStep
<1>2. CASE \E x, y, z \in tokens :
             \E h \in Headers(x.token), region \in SlotRegions(y.token) :
               Alter(h, region, z.token)
  BY <1>2, AlterStep
<1>3. CASE \E x \in tokens : Damage(x.token)
  BY <1>3, DamageStep
<1>4. CASE UNCHANGED vars
  BY <1>4 DEF vars, Inv, SealsInv, AlteredInv
<1> QED  BY <1>1, <1>2, <1>3, <1>4 DEF Next

\* Whatever a store makes of tokens, the body and the nonce of each are one call's
\* and its slots are one call's, damaged or not, and calls differ in their nonces.
THEOREM InvHolds == Spec => []Inv
<1> QED  BY InitInv, NextInv, PTL DEF Spec

\* Every variable has the shape the code gives it: a slot is for an entry of the
\* caller's list that can be used.
THEOREM TypeCorrect == Spec => []TypeOK
<1>1. Inv => TypeOK
  <2> SUFFICES ASSUME Inv PROVE TypeOK
    OBVIOUS
  <2>1. ASSUME NEW s \in tokens PROVE s.context \in Context /\ s.token.kids = Kids(s.recipients)
    <3>1. s.token = SealMulti(s.token.nonce, s.recipients, s.context) /\ s.context \in Context
      BY DEF Inv, SealsInv
    <3> QED  BY <3>1 DEF SealMulti
  <2>2. ASSUME NEW s \in tokens, NEW i \in DOMAIN s.token.slots
        PROVE  \E e \in Entry :
                 /\ Usable(e)
                 /\ e.key_id = s.token.slots[i].key_id
                 /\ e.hybrid_public_hex = s.token.slots[i].encap.mlkem.pub
    <3> DEFINE e == s.recipients[i]
    <3>1. i \in DOMAIN s.recipients /\ s.token.slots[i] = SealSlot(s.token.nonce, i, e)
      BY OwnRegion DEF Inv
    <3>2. e \in Entry
      <4>1. PICK n \in Nat : s.recipients \in [1..n -> Entry]
        BY RecipientsNumbered DEF Inv, SealsInv
      <4> QED  BY <3>1, <4>1
    <3>3. Usable(e)
      BY <3>1 DEF Inv, SealsInv, Seals, Usable
    <3>4. /\ e.key_id = s.token.slots[i].key_id
          /\ e.hybrid_public_hex = s.token.slots[i].encap.mlkem.pub
      BY <3>1 DEF SealSlot, Ciphertext
    <3> QED  BY <3>2, <3>3, <3>4
  <2>3. \A a \in altered : DOMAIN a = {"suite", "kids", "slots", "nonce", "ct"}
    BY DEF Inv, AlteredInv
  <2> QED  BY <2>1, <2>2, <2>3 DEF TypeOK
<1> QED  BY <1>1, InvHolds, PTL

----------------------------------------------------------------------------
(* What the envelope promises. *)

\* Every token in the store, sealed or altered, is made of parts of calls.
LEMMA InPlay ==
    ASSUME Inv, NEW t \in Tokens
    PROVE  /\ \E z \in tokens : t.nonce = z.token.nonce /\ IsBodyOf(t.ct, z)
           /\ \E y \in tokens : IsRegionOf(t.slots, y)
<1>1. CASE t \in altered
  BY <1>1 DEF Inv, AlteredInv
<1>2. CASE t \in {s.token : s \in tokens}
  <2>1. PICK s \in tokens : t = s.token
    BY <1>2
  <2> QED  BY <2>1, BodyOf, OwnRegion DEF Inv
<1> QED  BY <1>1, <1>2 DEF Tokens

\* A body, whatever became of it, names the call that sealed it.
LEMMA SealOfBody ==
    ASSUME SealsInv, NEW z \in tokens, NEW t, IsBodyOf(t.ct, z)
    PROVE  /\ SealOf(t) = z
           /\ t.ct.body = z.token.nonce /\ t.ct.key = <<"K", z.token.nonce>>
           /\ t.ct.aad = Bound(z.token.nonce,
                               Pqdm2Aad(HYBRID_SUITE, z.context, Kids(z.recipients)))
           /\ t.ct.intact => t.ct = z.token.ct
<1> DEFINE key == <<"K", z.token.nonce>>
           aad == Bound(z.token.nonce,
                        Pqdm2Aad(HYBRID_SUITE, z.context, Kids(z.recipients)))
<1>1. z.token.ct = [key |-> key, body |-> z.token.nonce, aad |-> aad, intact |-> TRUE]
  BY BodyOf
<1>2. PICK l \in BOOLEAN : t.ct = [z.token.ct EXCEPT !.intact = l]
  BY DEF IsBodyOf
<1> HIDE DEF key, aad
<1>3. t.ct = [key |-> key, body |-> z.token.nonce, aad |-> aad, intact |-> l]
  <2>1. \E i \in BOOLEAN :
          z.token.ct = [key |-> key, body |-> z.token.nonce, aad |-> aad, intact |-> i]
    BY <1>1
  <2>2. PICK i \in BOOLEAN :
          z.token.ct = [key |-> key, body |-> z.token.nonce, aad |-> aad, intact |-> i]
    BY <2>1
  <2>3. \A x, v : x = [key |-> key, body |-> z.token.nonce, aad |-> aad, intact |-> i] =>
          [x EXCEPT !.intact = v] =
            [key |-> key, body |-> z.token.nonce, aad |-> aad, intact |-> v]
    BY SetBox
  <2> QED  BY <1>2, <2>2, <2>3, Zenon
<1>4. /\ t.ct.body = z.token.nonce /\ t.ct.key = key /\ t.ct.aad = aad
      /\ t.ct.intact = l
  BY <1>3
<1>5. t.ct.intact => t.ct = z.token.ct
  <2>1. CASE l = TRUE
    BY <1>1, <1>3, <2>1, Zenon
  <2> QED  BY <1>4, <2>1
<1>6. \A s \in tokens : s.token.ct.body = s.token.nonce
  <2> SUFFICES ASSUME NEW s \in tokens PROVE s.token.ct.body = s.token.nonce
    OBVIOUS
  <2>1. s.token = SealMulti(s.token.nonce, s.recipients, s.context)
    BY DEF SealsInv
  <2> QED  BY <2>1 DEF SealMulti, AesGcmEncrypt
<1>7. z.token.ct.body = t.ct.body
  BY <1>4, <1>6
<1>8. \A s \in tokens : s.token.ct.body = t.ct.body => s = z
  BY <1>4, <1>6 DEF SealsInv
<1>9. SealOf(t) = z
  BY <1>7, <1>8 DEF SealOf
<1> QED  BY <1>4, <1>5, <1>9 DEF key, aad

\* A token opens only if slot, header and body are those of one call that sealed to
\* the device's key, and the names read as the caller's.
LEMMA OpensShows ==
    ASSUME Inv, NEW t \in Tokens, NEW e \in Device, NEW c \in Context,
           Opens(t, e.key_id, e.hybrid_public_hex, c)
    PROVE  /\ SealOf(t) \in tokens /\ t.ct = SealOf(t).token.ct
           /\ \E i \in DOMAIN SealOf(t).recipients :
                SealOf(t).recipients[i].hybrid_public_hex = e.hybrid_public_hex
           /\ Named(t.suite, c) = Named(HYBRID_SUITE, SealOf(t).context)
           /\ Joined(t.kids) = Joined(SealOf(t).token.kids)
<1>1. PICK z \in tokens : t.nonce = z.token.nonce /\ IsBodyOf(t.ct, z)
  BY InPlay
<1>2. PICK y \in tokens : IsRegionOf(t.slots, y)
  BY InPlay
<1>3. /\ SealOf(t) = z
      /\ t.ct.key = <<"K", z.token.nonce>>
      /\ t.ct.aad = Bound(z.token.nonce,
                          Pqdm2Aad(HYBRID_SUITE, z.context, Kids(z.recipients)))
      /\ t.ct.intact => t.ct = z.token.ct
  BY <1>1, SealOfBody DEF Inv
<1>4. PICK i \in DOMAIN t.slots :
        /\ Unwraps(t.slots[i], e.hybrid_public_hex, t.nonce)
        /\ AesGcmOpens(t.slots[i].wrapped.body, t.ct,
                       Bound(t.nonce, Pqdm2Aad(t.suite, c, t.kids)))
  BY DEF Opens, Mine, Unwraps
<1> DEFINE slot == t.slots[i]
<1>5. IsSlotOf(slot, y)
  BY <1>2 DEF IsRegionOf, ToSet
<1>6. Unwraps(slot, e.hybrid_public_hex, t.nonce)
  BY <1>4
<1>7. /\ t.nonce = y.token.nonce
      /\ \E j \in DOMAIN y.recipients : e.hybrid_public_hex = y.recipients[j].hybrid_public_hex
  <2> HIDE DEF slot
  <2> QED  BY <1>5, <1>6, UnwrapsExact
<1>8. y = z
  BY <1>1, <1>7 DEF Inv, SealsInv
<1>9. /\ t.ct.intact
      /\ Bound(t.nonce, Pqdm2Aad(t.suite, c, t.kids)) =
           Bound(z.token.nonce, Pqdm2Aad(HYBRID_SUITE, z.context, Kids(z.recipients)))
  BY <1>3, <1>4 DEF AesGcmOpens
<1>10. /\ Named(t.suite, c) = Named(HYBRID_SUITE, z.context)
       /\ Joined(t.kids) = Joined(Kids(z.recipients))
  BY <1>9 DEF Bound, Pqdm2Aad
<1>11. z.token.kids = Kids(z.recipients)
  <2>1. z.token = SealMulti(z.token.nonce, z.recipients, z.context)
    BY DEF Inv, SealsInv
  <2> QED  BY <2>1 DEF SealMulti
<1> QED  BY <1>3, <1>7, <1>8, <1>9, <1>10, <1>11

----------------------------------------------------------------------------
(* Headers. *)

\* Whatever a store writes for headers, they are texts.
HeadersInv == \A a \in altered : a.suite \in Text /\ a.kids \in Seq(Text)

\* So are the headers of calls.
LEMMA SealedHeader ==
    ASSUME SealsInv, NEW s \in tokens
    PROVE  s.token.suite \in Text /\ s.token.kids \in Seq(Text)
<1>1. PICK n \in Nat : s.recipients \in [1..n -> Entry]
  BY RecipientsNumbered DEF SealsInv
<1>2. s.token.kids = Kids(s.recipients) /\ s.token.suite = HYBRID_SUITE
  <2>1. s.token = SealMulti(s.token.nonce, s.recipients, s.context)
    BY DEF SealsInv
  <2> QED  BY <2>1 DEF SealMulti
<1>3. Kids(s.recipients) = [i \in 1..n |-> s.recipients[i].key_id]
  <2>1. DOMAIN s.recipients = 1..n
    BY <1>1
  <2> QED  BY <2>1 DEF Kids
<1>4. \A i \in 1..n : s.recipients[i].key_id \in Text
  <2> SUFFICES ASSUME NEW i \in 1..n PROVE s.recipients[i].key_id \in Text
    OBVIOUS
  <2>1. i \in DOMAIN s.recipients /\ s.recipients[i] \in Entry
    BY <1>1
  <2>2. s.recipients[i].key_id \notin {NoKeyId, LongKeyId}
    BY <2>1 DEF SealsInv, Seals
  <2> QED  BY <2>1, <2>2, EntryAssumption
<1>5. [i \in 1..n |-> s.recipients[i].key_id] \in Seq(Text)
  BY <1>4
<1> QED  BY <1>2, <1>3, <1>5, SuiteAssumption

\* Every action keeps the altered headers texts.
LEMMA NextHeaders == Inv /\ HeadersInv /\ [Next]_vars => HeadersInv'
<1> SUFFICES ASSUME Inv, HeadersInv, [Next]_vars PROVE HeadersInv'
  OBVIOUS
<1>1. CASE \E rs \in RecipientLists, c \in Context : Seal(rs, c)
  BY <1>1 DEF Seal, HeadersInv
<1>2. ASSUME NEW x \in tokens, NEW y \in tokens, NEW z \in tokens,
             NEW h \in Headers(x.token), NEW region \in SlotRegions(y.token),
             Alter(h, region, z.token)
      PROVE  HeadersInv'
  <2>1. h.suite \in Text /\ h.kids \in Seq(Text)
    <3>1. /\ h.suite \in {x.token.suite} \cup Suites
          /\ h.kids \in {x.token.kids} \cup KidLists
      BY DEF Headers
    <3> QED  BY <3>1, SealedHeader, HeaderAssumption DEF Inv
  <2> DEFINE b == [suite |-> h.suite, kids |-> h.kids, slots |-> region,
                   nonce |-> z.token.nonce, ct |-> z.token.ct]
  <2>2. altered' = altered \cup {b} /\ b.suite = h.suite /\ b.kids = h.kids
    BY <1>2 DEF Alter
  <2> HIDE DEF b
  <2> QED  BY <2>1, <2>2 DEF HeadersInv
<1>3. ASSUME NEW x \in tokens, Damage(x.token) PROVE HeadersInv'
  <2> DEFINE b == [x.token EXCEPT !.ct.intact = FALSE]
  <2>1. altered' = altered \cup {b}
    BY <1>3 DEF Damage
  <2>2. b.kids = x.token.kids /\ b.suite = x.token.suite
    <3>1. x.token = SealMulti(x.token.nonce, x.recipients, x.context)
      BY DEF Inv, SealsInv
    <3>2. DOMAIN x.token = {"suite", "kids", "slots", "nonce", "ct"}
      BY <3>1 DEF SealMulti
    <3> QED  BY <3>2
  <2> HIDE DEF b
  <2> QED  BY <2>1, <2>2, SealedHeader DEF HeadersInv, Inv
<1>4. CASE UNCHANGED vars
  BY <1>4 DEF vars, HeadersInv
<1> QED  BY <1>1, <1>2, <1>3, <1>4 DEF Next

\* In every reachable state all headers are texts.
LEMMA HeadersHold == Spec => [](Inv /\ HeadersInv)
<1>1. Init => Inv /\ HeadersInv
  BY InitInv DEF Init, HeadersInv
<1> QED  BY <1>1, NextInv, NextHeaders, PTL DEF Spec

\* The header of any token is made of texts.
LEMMA HeaderInPlay ==
    ASSUME Inv, HeadersInv, NEW t \in Tokens
    PROVE  t.suite \in Text /\ t.kids \in Seq(Text)
<1>1. CASE t \in altered
  BY <1>1 DEF HeadersInv
<1>2. CASE t \in {s.token : s \in tokens}
  BY <1>2, SealedHeader DEF Inv
<1> QED  BY <1>1, <1>2 DEF Tokens

\* Names that read the same are the same, if no identifier has a "|".
LEMMA NamedExact ==
    ASSUME NEW p \in Text, NEW q \in Text, NEW c \in Context, NEW d \in Context,
           Separable(c), Separable(d), Named(p, c) = Named(q, d)
    PROVE  p = q /\ c = d
<1>1. /\ c.sender \in Seq(Nat) /\ c.recipient \in Seq(Nat)
      /\ d.sender \in Seq(Nat) /\ d.recipient \in Seq(Nat)
      /\ p \in Seq(Nat) /\ q \in Seq(Nat) /\ Bar \in Nat
  BY ContextAssumption, SuiteAssumption DEF Text
<1>2. /\ Bar \notin ToSet(c.sender) /\ Bar \notin ToSet(c.recipient)
      /\ Bar \notin ToSet(d.sender) /\ Bar \notin ToSet(d.recipient)
  BY DEF Separable
<1> DEFINE a  == c.sender
           a2 == d.sender
           u  == c.recipient
           u2 == d.recipient
           x  == p \o <<Bar>> \o a
           x2 == q \o <<Bar>> \o a2
<1>3. x \in Seq(Nat) /\ x2 \in Seq(Nat)
  BY <1>1
<1>4. SplitAt(Nat, Bar, x, x2, u, u2)
  <2>1. x \o <<Bar>> \o u = x2 \o <<Bar>> \o u2
    BY DEF Named
  <2> HIDE DEF x, x2
  <2> QED  BY <1>1, <1>2, <1>3, <2>1 DEF SplitAt
<1>5. x = x2 /\ u = u2
  <2> HIDE DEF x, x2, u, u2
  <2> QED  BY <1>4, SeparatorSplits
<1>6. SplitAt(Nat, Bar, p, q, a, a2)
  BY <1>1, <1>2, <1>5 DEF SplitAt
<1>7. p = q /\ a = a2
  <2> HIDE DEF a, a2
  <2> QED  BY <1>6, SeparatorSplits
<1>8. /\ c = [sender |-> c.sender, recipient |-> c.recipient]
      /\ d = [sender |-> d.sender, recipient |-> d.recipient]
  BY ContextAssumption
<1>9. c = d
  BY <1>5, <1>7, <1>8, Zenon
<1> QED  BY <1>7, <1>9

\* Whatever a store does, a device gets a body out only if it was sealed to its key,
\* with the names reading as it names them; for any number of recipients, tokens and
\* alterations, any headers a store writes and any identifiers.
THEOREM OpensOnlySealed == Spec => []OpensOnlyWhatWasSealed
<1>1. Inv /\ HeadersInv => OpensOnlyWhatWasSealed
  <2> SUFFICES ASSUME Inv, HeadersInv, NEW t \in Tokens, NEW e \in Device, NEW c \in Context,
                      Opens(t, e.key_id, e.hybrid_public_hex, c)
               PROVE  /\ t.ct = SealOf(t).token.ct
                      /\ \E i \in DOMAIN SealOf(t).recipients :
                           SealOf(t).recipients[i].hybrid_public_hex = e.hybrid_public_hex
                      /\ Named(t.suite, c) = Named(HYBRID_SUITE, SealOf(t).context)
                      /\ Separable(c) /\ Separable(SealOf(t).context) =>
                           c = SealOf(t).context /\ t.suite = HYBRID_SUITE
    BY DEF OpensOnlyWhatWasSealed
  <2>1. /\ SealOf(t) \in tokens /\ t.ct = SealOf(t).token.ct
        /\ \E i \in DOMAIN SealOf(t).recipients :
             SealOf(t).recipients[i].hybrid_public_hex = e.hybrid_public_hex
        /\ Named(t.suite, c) = Named(HYBRID_SUITE, SealOf(t).context)
    BY OpensShows
  <2>2. SealOf(t).context \in Context
    BY <2>1 DEF Inv, SealsInv
  <2>3. t.suite \in Text /\ HYBRID_SUITE \in Text
    BY HeaderInPlay, SuiteAssumption
  <2>4. ASSUME Separable(c), Separable(SealOf(t).context)
        PROVE  c = SealOf(t).context /\ t.suite = HYBRID_SUITE
    BY <2>1, <2>2, <2>3, <2>4, NamedExact
  <2> QED  BY <2>1, <2>4
<1> QED  BY <1>1, HeadersHold, PTL

----------------------------------------------------------------------------
(* The header's list of devices. *)

\* Of two lists of one length that differ, one is before the other.
LEMMA BeforeTotal ==
    ASSUME NEW n \in Nat, NEW x \in [1..n -> Nat], NEW y \in [1..n -> Nat], x # y
    PROVE  Before(x, y) \/ Before(y, x)
<1> DEFINE T == {i \in 1..n : x[i] # y[i]}
<1>1. T \subseteq Nat /\ T # {}
  OBVIOUS
<1>2. PICK k \in T : \A i \in T : k <= i
  <2> HIDE DEF T
  <2> QED  BY <1>1, LeastExists
<1>3. /\ k \in 1..n /\ x[k] \in Nat /\ y[k] \in Nat /\ x[k] # y[k]
      /\ Len(x) = n /\ Len(y) = n
  OBVIOUS
<1>4. \A i \in 1..(k - 1) : i \in 1..n /\ x[i] = y[i] /\ i <= n
  BY <1>2, <1>3
<1>5. CASE x[k] < y[k]
  BY <1>3, <1>4, <1>5 DEF Before
<1>6. CASE y[k] < x[k]
  BY <1>3, <1>4, <1>6 DEF Before
<1> QED  BY <1>3, <1>5, <1>6

\* Where one list of numbers of length n is before another.
LEMMA BeforeParts ==
    ASSUME NEW n \in Nat, NEW x \in [1..n -> Nat], NEW y \in [1..n -> Nat]
    PROVE  Before(x, y) <=> \E k \in 1..n : /\ \A i \in 1..(k - 1) : x[i] = y[i]
                                            /\ x[k] < y[k]
<1>1. Len(x) = n /\ Len(y) = n
  OBVIOUS
<1>2. \A k \in 1..n : \A i \in 1..(k - 1) : i <= n
  OBVIOUS
<1>3. ASSUME Before(x, y)
      PROVE  \E k \in 1..n : (\A i \in 1..(k - 1) : x[i] = y[i]) /\ x[k] < y[k]
  <2>1. PICK k \in 1..n : /\ \A i \in 1..(k - 1) : i <= n /\ x[i] = y[i]
                          /\ k <= n => x[k] < y[k]
    BY <1>1, <1>3 DEF Before
  <2> QED  BY <2>1
<1>4. ASSUME NEW k \in 1..n, \A i \in 1..(k - 1) : x[i] = y[i], x[k] < y[k]
      PROVE  Before(x, y)
  BY <1>1, <1>2, <1>4 DEF Before
<1> QED  BY <1>3, <1>4

\* No list is before itself, and what is before a list is before those after it.
LEMMA BeforeOrders ==
    ASSUME NEW n \in Nat, NEW x \in [1..n -> Nat], NEW y \in [1..n -> Nat],
           NEW z \in [1..n -> Nat]
    PROVE  /\ ~Before(x, x)
           /\ Before(x, y) /\ Before(y, z) => Before(x, z)
<1>1. ~Before(x, x)
  <2>1. \A k \in 1..n : x[k] \in Nat
    OBVIOUS
  <2>2. ASSUME Before(x, x) PROVE FALSE
    <3>1. PICK k \in 1..n : x[k] < x[k]
      BY <2>2, BeforeParts
    <3> QED  BY <2>1, <3>1
  <2> QED  BY <2>2
<1>2. ASSUME Before(x, y), Before(y, z) PROVE Before(x, z)
  <2>1. PICK k \in 1..n : (\A i \in 1..(k - 1) : x[i] = y[i]) /\ x[k] < y[k]
    BY <1>2, BeforeParts
  <2>2. PICK l \in 1..n : (\A i \in 1..(l - 1) : y[i] = z[i]) /\ y[l] < z[l]
    BY <1>2, BeforeParts
  <2>3. \A i \in 1..n : x[i] \in Nat /\ y[i] \in Nat /\ z[i] \in Nat
    OBVIOUS
  <2>4. CASE k <= l
    <3>1. x[k] < z[k]
      <4>1. k = l \/ k \in 1..(l - 1)
        BY <2>4
      <4> QED  BY <2>1, <2>2, <2>3, <4>1
    <3>2. \A i \in 1..(k - 1) : x[i] = z[i]
      <4>1. \A i \in 1..(k - 1) : i \in 1..(l - 1)
        BY <2>4
      <4> QED  BY <2>1, <2>2, <4>1
    <3> QED  BY <3>1, <3>2, BeforeParts
  <2>5. CASE l < k
    <3>1. x[l] < z[l]
      <4>1. l \in 1..(k - 1)
        BY <2>5
      <4> QED  BY <2>1, <2>2, <4>1
    <3>2. \A i \in 1..(l - 1) : x[i] = z[i]
      <4>1. \A i \in 1..(l - 1) : i \in 1..(k - 1)
        BY <2>5
      <4> QED  BY <2>1, <2>2, <4>1
    <3> QED  BY <3>1, <3>2, BeforeParts
  <2> QED  BY <2>4, <2>5
<1> QED  BY <1>1, <1>2

\* The elements that come no later than element i.
UpToElement(s, i) == {j \in DOMAIN s : Before(s[j], s[i]) \/ (s[j] = s[i] /\ j <= i)}

\* An element that comes no later than another has a smaller place.
LEMMA PlaceLess ==
    ASSUME NEW n \in Nat, NEW s \in Seq([1..n -> Nat]), NEW i \in DOMAIN s, NEW j \in DOMAIN s,
           i # j, i \in UpToElement(s, j)
    PROVE  Place(s, i) < Place(s, j)
<1> DEFINE K == [1..n -> Nat]
           A == UpToElement(s, i)
           B == UpToElement(s, j)
<1>1. DOMAIN s = 1..Len(s) /\ Len(s) \in Nat
  OBVIOUS
<1>2. \A k \in DOMAIN s : s[k] \in K
  <2> HIDE DEF K
  <2>1. s \in Seq(K)
    BY DEF K
  <2> QED  BY <1>1, <2>1, ElementOfSeq
<1>3. /\ \A x \in K : ~Before(x, x)
      /\ \A x, y, z \in K : Before(x, y) /\ Before(y, z) => Before(x, z)
  BY BeforeOrders
<1> HIDE DEF K
<1>4. A \subseteq B
  <2> SUFFICES ASSUME NEW k \in A PROVE k \in B
    OBVIOUS
  <2>1. /\ k \in DOMAIN s
        /\ Before(s[k], s[i]) \/ (s[k] = s[i] /\ k <= i)
        /\ Before(s[i], s[j]) \/ (s[i] = s[j] /\ i <= j)
    BY DEF UpToElement
  <2>2. s[k] \in K /\ s[i] \in K /\ s[j] \in K
    BY <1>2, <2>1
  <2>3. Before(s[k], s[j]) \/ (s[k] = s[j] /\ k <= j)
    <3>1. k <= i /\ i <= j => k <= j
      BY <1>1, <2>1
    <3> QED  BY <1>3, <2>1, <2>2, <3>1
  <2> QED  BY <2>1, <2>3 DEF UpToElement
<1>5. j \in B /\ j \notin A
  <2>1. j \in B
    BY <1>1 DEF UpToElement
  <2>2. ASSUME j \in A PROVE FALSE
    <3>1. /\ Before(s[j], s[i]) \/ (s[j] = s[i] /\ j <= i)
          /\ Before(s[i], s[j]) \/ (s[i] = s[j] /\ i <= j)
      BY <2>2 DEF UpToElement
    <3>2. s[i] \in K /\ s[j] \in K
      BY <1>2
    <3>3. ~(j <= i /\ i <= j)
      BY <1>1
    <3> QED  BY <1>3, <3>1, <3>2, <3>3
  <2> QED  BY <2>1, <2>2
<1>6. IsFiniteSet(B) /\ B \in SUBSET (1..Len(s))
  <2>1. B \in SUBSET (1..Len(s))
    BY <1>1 DEF UpToElement
  <2>2. IsFiniteSet(1..Len(s))
    BY <1>1, FS_Interval
  <2> HIDE DEF B
  <2> QED  BY <2>1, <2>2, FS_Subset
<1>7. IsFiniteSet(A) /\ Cardinality(A) <= Cardinality(B) /\ Cardinality(A) # Cardinality(B)
  <2> HIDE DEF A, B
  <2> QED  BY <1>4, <1>5, <1>6, FS_Subset
<1>8. Cardinality(A) \in Nat /\ Cardinality(B) \in Nat
  <2> HIDE DEF A, B
  <2> QED  BY <1>6, <1>7, FS_CardinalityType
<1>9. Place(s, i) = Cardinality(A) /\ Place(s, j) = Cardinality(B)
  BY DEF Place, UpToElement
<1> HIDE DEF A, B
<1> QED  BY <1>7, <1>8, <1>9

\* The places of a list are a permutation of its indices.
LEMMA PlacePermutes ==
    ASSUME NEW n \in Nat, NEW s \in Seq([1..n -> Nat])
    PROVE  [i \in DOMAIN s |-> Place(s, i)] \in Bijection(DOMAIN s, DOMAIN s)
<1> DEFINE K == [1..n -> Nat]
           D == DOMAIN s
           p == [i \in D |-> Place(s, i)]
<1>1. D = 1..Len(s) /\ Len(s) \in Nat
  OBVIOUS
<1>2. \A k \in D : s[k] \in K
  <2> HIDE DEF K
  <2>1. s \in Seq(K)
    BY DEF K
  <2> QED  BY <1>1, <2>1, ElementOfSeq
<1>3. IsFiniteSet(D) /\ Cardinality(D) = Len(s)
  <2> HIDE DEF D
  <2> QED  BY <1>1, FS_Interval
<1>4. ASSUME NEW i \in D PROVE Place(s, i) \in D
  <2> DEFINE A == UpToElement(s, i)
  <2>1. A \in SUBSET D /\ i \in A
    BY <1>1 DEF UpToElement
  <2>2. Place(s, i) = Cardinality(A)
    BY DEF Place, UpToElement
  <2> HIDE DEF A, D
  <2>3. IsFiniteSet(A) /\ Cardinality(A) <= Len(s)
    BY <1>3, <2>1, FS_Subset
  <2>4. Cardinality(A) \in Nat
    BY <2>3, FS_CardinalityType
  <2>5. Cardinality(A) # 0
    BY <2>1, <2>3, FS_EmptySet
  <2> QED  BY <1>1, <2>2, <2>3, <2>4, <2>5
<1>5. ASSUME NEW i \in D, NEW j \in D, i # j PROVE Place(s, i) # Place(s, j)
  <2>1. i \in UpToElement(s, j) \/ j \in UpToElement(s, i)
    <3>1. i <= j \/ j <= i
      BY <1>1
    <3>2. s[i] # s[j] => Before(s[i], s[j]) \/ Before(s[j], s[i])
      <4>1. \A x, y \in K : x # y => Before(x, y) \/ Before(y, x)
        BY BeforeTotal
      <4> HIDE DEF K
      <4> QED  BY <1>2, <4>1
    <3> QED  BY <3>1, <3>2 DEF UpToElement
  <2>2. Place(s, i) < Place(s, j) \/ Place(s, j) < Place(s, i)
    <3>1. CASE i \in UpToElement(s, j)
      BY <1>5, <3>1, PlaceLess
    <3>2. CASE j \in UpToElement(s, i)
      BY <1>5, <3>2, PlaceLess
    <3> QED  BY <2>1, <3>1, <3>2
  <2>3. Place(s, i) \in Int /\ Place(s, j) \in Int
    BY <1>1, <1>4
  <2> QED  BY <2>2, <2>3
<1>6. p \in Injection(D, D)
  <2> HIDE DEF D
  <2> QED  BY <1>4, <1>5 DEF Injection, IsInjective
<1>7. p \in Surjection(D, D)
  <2> HIDE DEF D, p
  <2> QED  BY <1>3, <1>6, FS_Injection
<1> QED  BY <1>6, <1>7 DEF Bijection

\* Sorting puts each element at its place.
LEMMA SortedAt ==
    ASSUME NEW n \in Nat, NEW s \in Seq([1..n -> Nat])
    PROVE  /\ Sorted(s) \in Seq([1..n -> Nat]) /\ Len(Sorted(s)) = Len(s)
           /\ \A i \in DOMAIN s : Place(s, i) \in DOMAIN s /\ Sorted(s)[Place(s, i)] = s[i]
<1> DEFINE K == [1..n -> Nat]
           D == DOMAIN s
           p == [i \in D |-> Place(s, i)]
           at == [k \in D |-> CHOOSE i \in D : Place(s, i) = k]
<1>1. D = 1..Len(s) /\ Len(s) \in Nat
  OBVIOUS
<1>2. \A k \in D : s[k] \in K
  <2> HIDE DEF K
  <2>1. s \in Seq(K)
    BY DEF K
  <2> QED  BY <1>1, <2>1, ElementOfSeq
<1>3. /\ \A i \in D : Place(s, i) \in D
      /\ \A i, j \in D : Place(s, i) = Place(s, j) => i = j
      /\ \A k \in D : \E i \in D : Place(s, i) = k
  <2>1. p \in Bijection(D, D)
    BY PlacePermutes
  <2> HIDE DEF D
  <2> QED  BY <2>1 DEF Bijection, Injection, Surjection, IsInjective
<1>4. \A k \in D : at[k] \in D /\ Place(s, at[k]) = k
  <2> HIDE DEF D
  <2> QED  BY <1>3
<1>5. Sorted(s) = [k \in D |-> s[at[k]]]
  BY DEF Sorted
<1> HIDE DEF at, D, K
<1>6. \A k \in D : Sorted(s)[k] = s[at[k]] /\ s[at[k]] \in K
  BY <1>2, <1>4, <1>5
<1>7. Sorted(s) \in Seq(K) /\ Len(Sorted(s)) = Len(s)
  <2>1. Sorted(s) \in [1..Len(s) -> K]
    BY <1>1, <1>5, <1>6
  <2>2. \A k \in Nat : \A f \in [1..k -> K] : f \in Seq(K) /\ Len(f) = k
    OBVIOUS
  <2> QED  BY <1>1, <2>1, <2>2
<1>8. ASSUME NEW i \in D PROVE Place(s, i) \in D /\ Sorted(s)[Place(s, i)] = s[i]
  <2>1. Place(s, i) \in D
    BY <1>3
  <2>2. at[Place(s, i)] = i
    BY <1>3, <1>4, <2>1
  <2> QED  BY <1>6, <2>1, <2>2
<1> QED  BY <1>7, <1>8 DEF D, K

\* Lists of key ids of one length that sort to the same list are each other's
\* reordering.
LEMMA SortedReordered ==
    ASSUME NEW n \in Nat, NEW s \in Seq([1..n -> Nat]), NEW t \in Seq([1..n -> Nat]),
           Sorted(s) = Sorted(t)
    PROVE  Reordered(s, t)
<1> DEFINE D == DOMAIN s
           to == [i \in D |-> CHOOSE j \in D : Place(t, j) = Place(s, i)]
<1>1. Len(s) = Len(t) /\ DOMAIN t = D
  <2>1. Len(s) = Len(t)
    BY SortedAt
  <2> QED  BY <2>1
<1>2. /\ \A i \in D : Place(s, i) \in D
      /\ \A i, j \in D : Place(s, i) = Place(s, j) => i = j
      /\ \A k \in D : \E i \in D : Place(s, i) = k
  <2> DEFINE p == [i \in D |-> Place(s, i)]
  <2>1. p \in Bijection(D, D)
    BY PlacePermutes
  <2> HIDE DEF D
  <2> QED  BY <2>1 DEF Bijection, Injection, Surjection, IsInjective
<1>3. /\ \A i \in D : Place(t, i) \in D
      /\ \A i, j \in D : Place(t, i) = Place(t, j) => i = j
      /\ \A k \in D : \E i \in D : Place(t, i) = k
  <2> DEFINE p == [i \in D |-> Place(t, i)]
  <2>1. p \in Bijection(D, D)
    BY <1>1, PlacePermutes
  <2> HIDE DEF D
  <2> QED  BY <2>1 DEF Bijection, Injection, Surjection, IsInjective
<1>4. /\ \A i \in D : Sorted(s)[Place(s, i)] = s[i]
      /\ \A j \in D : Sorted(t)[Place(t, j)] = t[j]
  BY <1>1, SortedAt
<1> HIDE DEF D
<1>5. \A i \in D : to[i] \in D /\ Place(t, to[i]) = Place(s, i)
  BY <1>2, <1>3
<1>6. to \in [D -> D]
  BY <1>5
<1>7. \A i, j \in D : to[i] = to[j] => i = j
  BY <1>2, <1>5
<1>8. ASSUME NEW k \in D PROVE \E i \in D : to[i] = k
  <2>1. PICK i \in D : Place(s, i) = Place(t, k)
    BY <1>2, <1>3
  <2>2. to[i] = k
    BY <1>3, <1>5, <2>1
  <2> QED  BY <2>2
<1>9. \A i \in D : s[i] = t[to[i]]
  <2> SUFFICES ASSUME NEW i \in D PROVE s[i] = t[to[i]]
    OBVIOUS
  <2> HIDE DEF to
  <2>1. to[i] \in D /\ Place(t, to[i]) = Place(s, i)
    BY <1>5
  <2>2. Sorted(t)[Place(t, to[i])] = t[to[i]]
    BY <1>4, <2>1
  <2>3. Sorted(t)[Place(t, to[i])] = Sorted(s)[Place(s, i)]
    BY <2>1
  <2> QED  BY <1>4, <2>2, <2>3
<1> HIDE DEF to
<1>10. to \in Bijection(D, D)
  BY <1>6, <1>7, <1>8 DEF Bijection, Injection, Surjection, IsInjective
<1> QED  BY <1>1, <1>9, <1>10 DEF Reordered, D

\* Lists of strings of one length have blocks of one length.
LEMMA OneLengthBlocks ==
    ASSUME NEW a \in Seq(Text), NEW b \in Seq(Text),
           OfOneLength(ToSet(a) \cup ToSet(b))
    PROVE  \E n \in Nat \ {0} : a \in Seq([1..n -> Nat]) /\ b \in Seq([1..n -> Nat])
<1> DEFINE S == ToSet(a) \cup ToSet(b)
<1>1. \A x \in S : x \in Seq(Nat)
  <2>1. /\ \A i \in DOMAIN a : a[i] \in Text
        /\ \A i \in DOMAIN b : b[i] \in Text
    BY ElementOfSeq
  <2> QED  BY <2>1 DEF ToSet, Text
<1>2. \A x, y \in S : Len(x) = Len(y) /\ x # <<>>
  BY DEF OfOneLength
<1>3. \E n \in Nat \ {0} : \A x \in S : x \in [1..n -> Nat]
  <2> HIDE DEF S
  <2>1. CASE S = {}
    BY <2>1
  <2>2. CASE S # {}
    <3>1. PICK y \in S : TRUE
      BY <2>2
    <3>2. Len(y) \in Nat \ {0}
      BY <1>1, <1>2, <3>1
    <3>3. \A x \in S : x \in [1..Len(y) -> Nat]
      <4> SUFFICES ASSUME NEW x \in S PROVE x \in [1..Len(y) -> Nat]
        OBVIOUS
      <4>1. x \in Seq(Nat) /\ Len(x) = Len(y)
        BY <1>1, <1>2, <3>1
      <4> QED  BY <4>1
    <3> QED  BY <3>2, <3>3
  <2> QED  BY <2>1, <2>2
<1>4. PICK n \in Nat \ {0} : \A x \in S : x \in [1..n -> Nat]
  BY <1>3
<1> DEFINE K == [1..n -> Nat]
<1>5. /\ \A i \in DOMAIN a : a[i] \in K
      /\ \A i \in DOMAIN b : b[i] \in K
  BY <1>4 DEF ToSet
<1>6. /\ Len(a) \in Nat /\ a = [i \in 1..Len(a) |-> a[i]] /\ DOMAIN a = 1..Len(a)
      /\ Len(b) \in Nat /\ b = [i \in 1..Len(b) |-> b[i]] /\ DOMAIN b = 1..Len(b)
  <2> HIDE DEF K, S
  <2>1. \A T : \A x \in Seq(T) : Len(x) \in Nat /\ x = [i \in 1..Len(x) |-> x[i]]
                                /\ DOMAIN x = 1..Len(x)
    OBVIOUS
  <2> QED  BY <2>1, Zenon
<1>7. a \in Seq(K) /\ b \in Seq(K)
  <2> HIDE DEF K, S
  <2> QED  BY <1>5, <1>6
<1> QED  BY <1>4, <1>7

\* The header's list of devices is bound to the body: a token opens only with a list
\* that sorts and joins to the text of the list it was sealed with, which among lists
\* of strings of one length is that list in some order.  For any number of devices,
\* calls and alterations, and any lists of strings a store writes.
THEOREM HeaderIsBound == Spec => []HeaderBound
<1>1. Inv /\ HeadersInv => HeaderBound
  <2> SUFFICES ASSUME Inv, HeadersInv, NEW t \in Tokens, NEW e \in Device, NEW c \in Context,
                      Opens(t, e.key_id, e.hybrid_public_hex, c)
               PROVE  /\ Joined(t.kids) = Joined(SealOf(t).token.kids)
                      /\ OfOneLength(ToSet(t.kids) \cup ToSet(SealOf(t).token.kids)) =>
                           Reordered(t.kids, SealOf(t).token.kids)
    BY DEF HeaderBound
  <2>1. SealOf(t) \in tokens /\ Joined(t.kids) = Joined(SealOf(t).token.kids)
    BY OpensShows
  <2> DEFINE a == t.kids
             b == SealOf(t).token.kids
  <2>2. a \in Seq(Text) /\ b \in Seq(Text)
    BY <2>1, HeaderInPlay, SealedHeader DEF Inv
  <2>3. ASSUME OfOneLength(ToSet(a) \cup ToSet(b)) PROVE Reordered(a, b)
    <3>1. FlattenSeq(Sorted(a)) = FlattenSeq(Sorted(b))
      BY <2>1 DEF Joined
    <3> HIDE DEF a, b
    <3>2. PICK n \in Nat \ {0} : a \in Seq([1..n -> Nat]) /\ b \in Seq([1..n -> Nat])
      BY <2>2, <2>3, OneLengthBlocks
    <3>3. Sorted(a) \in Seq([1..n -> Nat]) /\ Sorted(b) \in Seq([1..n -> Nat])
      BY <3>2, SortedAt
    <3>4. Sorted(a) = Sorted(b)
      <4> DEFINE u == Sorted(a)
                 v == Sorted(b)
      <4>1. u \in Seq([1..n -> Nat]) /\ v \in Seq([1..n -> Nat]) /\ FlattenSeq(u) = FlattenSeq(v)
        BY <3>1, <3>3
      <4>2. n \in Nat /\ n >= 1
        OBVIOUS
      <4> HIDE DEF u, v
      <4>3. u = v
        BY <4>1, <4>2, FlattenExact
      <4> QED  BY <4>3 DEF u, v
    <3> QED  BY <3>2, <3>4, SortedReordered
  <2> QED  BY <2>1, <2>3
<1> QED  BY <1>1, HeadersHold, PTL

----------------------------------------------------------------------------
(* Slots. *)

\* A token with header, nonce and body as sealed opens for the recipient of a slot
\* that is as sealed, the first of its key id, and within reach.
LEMMA SoundSlotOpens ==
    ASSUME Inv, NEW s \in tokens, NEW t,
           t.suite = s.token.suite, t.kids = s.token.kids,
           t.nonce = s.token.nonce, t.ct = s.token.ct,
           NEW i \in DOMAIN t.slots, NEW k \in DOMAIN s.recipients,
           t.slots[i] = s.token.slots[k], Reached(t, i),
           \A j \in Mine(t, s.recipients[k].key_id) : i <= j
    PROVE  Opens(t, s.recipients[k].key_id, s.recipients[k].hybrid_public_hex, s.context)
<1> DEFINE r    == s.recipients[k]
           n    == s.token.nonce
           slot == t.slots[i]
<1>1. slot = SealSlot(n, k, r)
  BY OwnRegion DEF Inv
<1>2. /\ Unwraps(slot, r.hybrid_public_hex, n)
      /\ slot.wrapped.body = <<"K", n>> /\ slot.key_id = r.key_id
  <2> HIDE DEF slot, r, n
  <2> QED  BY <1>1, SoundUnwraps
<1>3. s.token = SealMulti(n, s.recipients, s.context)
  BY DEF Inv, SealsInv
<1>4. t.suite = HYBRID_SUITE /\ t.kids = Kids(s.recipients)
  BY <1>3 DEF SealMulti
<1>5. t.ct = AesGcmEncrypt(<<"K", n>>, n,
               Bound(n, Pqdm2Aad(HYBRID_SUITE, s.context, Kids(s.recipients))))
  BY <1>3 DEF SealMulti
<1>6. AesGcmOpens(slot.wrapped.body, t.ct,
                  Bound(t.nonce, Pqdm2Aad(t.suite, s.context, t.kids)))
  <2> HIDE DEF slot
  <2> QED  BY <1>2, <1>4, <1>5 DEF AesGcmOpens, AesGcmEncrypt
<1>7. AesGcmOpens(Pqdm2WrapKey(HybridDecap(slot.encap, r.hybrid_public_hex)),
                  slot.wrapped, Bound(t.nonce, <<>>))
  BY <1>2 DEF Unwraps
<1>8. i \in Mine(t, r.key_id)
  BY <1>2 DEF Mine
<1> QED  BY <1>6, <1>7, <1>8 DEF Opens

\* seal_multi followed by open_multi is the identity for every device of the list,
\* unless an earlier device has its key id.
THEOREM EveryDeviceOpensIt == Spec => []EveryDeviceOpens
<1>1. Inv => EveryDeviceOpens
  <2> SUFFICES ASSUME Inv, NEW s \in tokens, NEW i \in DOMAIN s.recipients,
                      \A j \in 1..(i - 1) :
                        s.recipients[j].key_id = s.recipients[i].key_id
                          => s.recipients[j] = s.recipients[i]
               PROVE  Opens(s.token, s.recipients[i].key_id,
                            s.recipients[i].hybrid_public_hex, s.context)
    BY DEF EveryDeviceOpens
  <2> DEFINE e == s.recipients[i]
             t == s.token
  <2>1. PICK n \in Nat : s.recipients \in [1..n -> Entry]
    BY RecipientsNumbered DEF Inv, SealsInv
  <2>2. DOMAIN t.slots = DOMAIN s.recipients /\ DOMAIN s.recipients = 1..n
    BY <2>1, OwnRegion DEF Inv
  <2>3. ASSUME NEW j \in 1..n
        PROVE  t.slots[j].whole /\ t.slots[j].key_id = s.recipients[j].key_id
    <3>1. t.slots[j] = SealSlot(t.nonce, j, s.recipients[j])
      BY <2>2, OwnRegion DEF Inv
    <3> QED  BY <3>1 DEF SealSlot
  <2>4. i \in Mine(t, e.key_id) /\ Mine(t, e.key_id) \subseteq Nat
    BY <2>2, <2>3 DEF Mine
  <2>5. PICK k \in Mine(t, e.key_id) : \A j \in Mine(t, e.key_id) : k <= j
    <3> HIDE DEF t, e
    <3> QED  BY <2>4, LeastExists
  <2>6. k \in 1..n /\ k <= i /\ s.recipients[k].key_id = e.key_id
    BY <2>2, <2>3, <2>4, <2>5 DEF Mine
  <2>7. s.recipients[k] = e
    <3>1. k = i \/ k \in 1..(i - 1)
      BY <2>2, <2>6
    <3> QED  BY <2>6, <3>1
  <2>8. Reached(t, k)
    BY <2>3, <2>6 DEF Reached
  <2>9. Opens(t, s.recipients[k].key_id, s.recipients[k].hybrid_public_hex, s.context)
    <3>1. /\ k \in DOMAIN t.slots /\ k \in DOMAIN s.recipients
          /\ \A j \in Mine(t, s.recipients[k].key_id) : k <= j
      BY <2>2, <2>5, <2>6
    <3> QED  BY <2>8, <3>1, SoundSlotOpens
  <2> QED  BY <2>7, <2>9
<1> QED  BY <1>1, InvHolds, PTL

\* What becomes of other slots takes the body from no device with a sound slot.
THEOREM SlotsAreIndependent == Spec => []IndependentSlots
<1>1. Inv => IndependentSlots
  <2> SUFFICES ASSUME Inv, NEW t \in altered, NEW i \in DOMAIN t.slots,
                      [t EXCEPT !.slots = SealOf(t).token.slots] = SealOf(t).token,
                      \A j \in 1..i : t.slots[j].whole,
                      \A j \in 1..(i - 1) : t.slots[j].key_id # t.slots[i].key_id,
                      NEW k \in DOMAIN SealOf(t).recipients,
                      t.slots[i] = SealOf(t).token.slots[k]
               PROVE  Opens(t, SealOf(t).recipients[k].key_id,
                            SealOf(t).recipients[k].hybrid_public_hex, SealOf(t).context)
    BY DEF IndependentSlots
  <2> DEFINE s == SealOf(t)
  <2>1. s \in tokens
    <3>1. PICK z \in tokens : IsBodyOf(t.ct, z)
      BY DEF Inv, AlteredInv
    <3> QED  BY <3>1, SealOfBody DEF Inv
  <2>2. DOMAIN t = {"suite", "kids", "slots", "nonce", "ct"}
    BY DEF Inv, AlteredInv
  <2>3. /\ t.suite = s.token.suite /\ t.kids = s.token.kids
        /\ t.nonce = s.token.nonce /\ t.ct = s.token.ct
    BY <2>2
  <2>4. t.slots[i].key_id = s.recipients[k].key_id
    <3>1. s.token.slots[k] = SealSlot(s.token.nonce, k, s.recipients[k])
      BY <2>1, OwnRegion DEF Inv
    <3> QED  BY <3>1 DEF SealSlot
  <2>5. DOMAIN t.slots \subseteq Nat \ {0}
    <3>1. PICK y \in tokens : IsRegionOf(t.slots, y)
      BY DEF Inv, AlteredInv
    <3>2. t.slots \in Seq(ToSet(t.slots))
      BY <3>1 DEF IsRegionOf
    <3> QED  BY <3>2
  <2>6. \A j \in Mine(t, s.recipients[k].key_id) : i <= j
    <3> SUFFICES ASSUME NEW j \in Mine(t, s.recipients[k].key_id) PROVE ~(j < i)
      BY <2>5 DEF Mine
    <3>1. j \in Nat \ {0} /\ i \in Nat \ {0} /\ t.slots[j].key_id = t.slots[i].key_id
      BY <2>4, <2>5 DEF Mine
    <3> QED  BY <3>1
  <2>7. Reached(t, i)
    BY DEF Reached
  <2> HIDE DEF s
  <2>8. Opens(t, s.recipients[k].key_id, s.recipients[k].hybrid_public_hex, s.context)
    <3>1. k \in DOMAIN s.recipients /\ t.slots[i] = s.token.slots[k]
      BY DEF s
    <3> QED  BY <2>1, <2>3, <2>6, <2>7, <3>1, SoundSlotOpens
  <2> QED  BY <2>8 DEF s
<1> QED  BY <1>1, InvHolds, PTL

============================================================================
