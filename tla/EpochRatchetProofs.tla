------------------------- MODULE EpochRatchetProofs -------------------------
(* Theorems about EpochRatchet, for every value of its constants. *)
EXTENDS EpochRatchet, FiniteSetTheorems, TLAPS

----------------------------------------------------------------------------
(* Facts about the derivations. *)

\* _u64 is the identity below its modulus.
LEMMA U64Small ==
    ASSUME NEW n \in 0..(U64Mod - 1)
    PROVE  U64(n) = n
BY BoundAssumption DEF U64

\* derive_message_key: equal keys come from equal secrets, epochs and indices
\* (mod 2^64).
LEMMA MessageKeyInjective ==
    ASSUME NEW s, NEW e, NEW i, NEW t, NEW f, NEW j,
           DeriveMessageKey(s, e, i) = DeriveMessageKey(t, f, j)
    PROVE  s = t /\ U64(e) = U64(f) /\ U64(i) = U64(j)
<1>1. /\ DeriveMessageKey(s, e, i).ikm = s
      /\ DeriveMessageKey(t, f, j).ikm = t
      /\ DeriveMessageKey(s, e, i).salt[3] = U64(e)
      /\ DeriveMessageKey(t, f, j).salt[3] = U64(f)
      /\ DeriveMessageKey(s, e, i).info[3] = U64(i)
      /\ DeriveMessageKey(t, f, j).info[3] = U64(j)
  BY DEF DeriveMessageKey, HKDF
<1> QED  BY <1>1

\* Only the key a payload was wrapped to reaches its wrap key, whatever the
\* KEM ciphertext that is decapsulated (implicit rejection included).
LEMMA WrapKeyOwner ==
    ASSUME NEW ct, NEW p, NEW q, NEW eph,
           WrapKey(HybridDecap(ct, p)) = WrapKey(HybridEncap(q, eph))
    PROVE  p = q
<1>1. /\ WrapKey(HybridDecap(ct, p)).ikm.ikm[2].key = p
      /\ WrapKey(HybridEncap(q, eph)).ikm.ikm[2].key = q
  BY DEF WrapKey, HybridDecap, HybridEncap, Combine, HKDF, MlKemSecret
<1> QED  BY <1>1

----------------------------------------------------------------------------
(* The inductive invariant. *)

\* The caller's epoch labels can be relied on.
LabelsIntact == "label" \notin WrapDamage

\* Epoch secrets are drawn once each, for a roster that the distributor is in.
MintedInv ==
    /\ \A e \in 0..epoch : minted[e].secret < drawn /\ Distributor \in minted[e].roster
    /\ \A e, f \in 0..epoch : minted[e].secret = minted[f].secret => e = f

\* A payload holds the secret of its epoch, sealed to a reader of that epoch; a
\* damaged one still holds that secret under that key.
WrapInv ==
    /\ \A w \in wraps :
         /\ w.epoch \in 0..epoch
         /\ w.to \in minted[w.epoch].roster \cap KeyHolders
         /\ w = WrapEpochSecret(w.epoch, minted[w.epoch].secret, w.to)
    /\ \A x \in damagedWraps : \E w \in wraps :
         /\ x.epoch \in 0..epoch
         /\ x.to = w.to
         /\ x.sealed.key = w.sealed.key
         /\ x.sealed.body = w.sealed.body
         /\ LabelsIntact => x.epoch = w.epoch

\* The secret p holds under label g is that of an epoch p is a reader of, and
\* of epoch g itself unless a label may have been altered on the way to p.
Entitled(p, s, g) ==
    \E e \in 0..epoch :
      /\ s = minted[e].secret
      /\ p \in Readers[e]
      /\ LabelsIntact \/ p = Distributor => g = e

RatchetInv ==
    \A p \in Member : \A r \in ratchets[p] :
      r.epoch \in 0..epoch /\ Entitled(p, r.epoch_secret, r.epoch)

\* A message is sealed under a secret its sender was entitled to.
SentInv ==
    \A m \in sent :
      /\ m = [epoch |-> m.epoch, index |-> m.index, sender |-> m.sender,
              at |-> m.at, sealed |-> m.sealed]
      /\ m.sealed = AesGcmEncrypt(m.sealed.key, m.sealed.body, NoAad)
      /\ m.sender \in Senders
      /\ m.sealed.body \in 0..(MaxSent - 1)
      /\ \E s \in Nat :
           /\ m.sealed.key = DeriveMessageKey(s, m.epoch, m.index)
           /\ Entitled(m.sender, s, m.epoch)

\* A damaged message keeps the key and the body it was sealed with.
DamagedMsgInv ==
    \A x \in damagedMsgs : \E m \in sent :
      /\ x.sender = m.sender
      /\ x.sealed.key = m.sealed.key
      /\ x.sealed.body = m.sealed.body

Inv ==
    /\ TypeOK
    /\ IsFiniteSet(sent)
    /\ MintedInv
    /\ WrapInv
    /\ RatchetInv
    /\ SentInv
    /\ DamagedMsgInv

----------------------------------------------------------------------------
(* Its proof. *)

\* The first epoch, known to the distributor alone, satisfies it.
LEMMA InitInv == Init => Inv
<1> SUFFICES ASSUME Init PROVE Inv
  OBVIOUS
<1>1. PICK R \in Rosters : minted = [e \in 0..0 |-> [secret |-> 0, roster |-> R, at |-> 0]]
  BY DEF Init
<1>2. R \in SUBSET Member /\ Distributor \in R
  BY <1>1 DEF Rosters
<1>3. minted \in [0..0 -> [secret : Nat, roster : SUBSET Member, at : Nat]]
  BY <1>1, <1>2
<1>4. TypeOK
  BY <1>3, MemberAssumption DEF Init, TypeOK, Ratchet
<1>5. IsFiniteSet(sent)
  BY FS_EmptySet DEF Init
<1>6. MintedInv
  BY <1>1, <1>2 DEF Init, MintedInv
<1>7. WrapInv /\ SentInv /\ DamagedMsgInv
  BY DEF Init, WrapInv, SentInv, DamagedMsgInv
<1>8. RatchetInv
  BY <1>1, <1>2, MemberAssumption DEF Init, RatchetInv, Entitled, Readers
<1> QED  BY <1>4, <1>5, <1>6, <1>7, <1>8 DEF Inv

\* A step that leaves the epochs alone changes nobody's entitlement.
LEMMA EntitledUnchanged ==
    ASSUME UNCHANGED <<epoch, minted>>, NEW p, NEW s, NEW g
    PROVE  Entitled(p, s, g)' <=> Entitled(p, s, g)
BY DEF Entitled, Readers

\* Where the ratchets of a member come from once q has taken x in.
LEMMA KeepRatchet ==
    ASSUME TypeOK, NEW q \in Member, NEW x \in Ratchet,
           ratchets' = [ratchets EXCEPT ![q] = Keep(@, x)]
    PROVE  /\ ratchets' \in [Member -> SUBSET Ratchet]
           /\ \A p \in Member : \A r \in ratchets'[p] :
                r \in ratchets[p] \/ (p = q /\ r = x)
<1>1. ratchets \in [Member -> SUBSET Ratchet]
  BY DEF TypeOK
<1>2. Keep(ratchets[q], x) \in SUBSET Ratchet
  BY <1>1 DEF Keep
<1>3. \A r \in Keep(ratchets[q], x) : r \in ratchets[q] \/ r = x
  BY DEF Keep
<1>4. ratchets'[q] = Keep(ratchets[q], x) /\ \A p \in Member \ {q} : ratchets'[p] = ratchets[p]
  BY <1>1
<1>5. ratchets' \in [Member -> SUBSET Ratchet]
  BY <1>1, <1>2
<1> QED  BY <1>3, <1>4, <1>5

\* A rekey adds an epoch and keeps the earlier ones.
LEMMA StartEpochMinted ==
    ASSUME Inv, NEW R \in Rosters, StartEpoch(R)
    PROVE  /\ epoch' = epoch + 1
           /\ R \in SUBSET Member /\ Distributor \in R
           /\ minted' \in [0..epoch' -> [secret : Nat, roster : SUBSET Member, at : Nat]]
           /\ \A e \in 0..epoch : e \in 0..epoch' /\ minted'[e] = minted[e]
           /\ minted'[epoch + 1] = [secret |-> drawn, roster |-> R, at |-> now]
           /\ \A p, s, g : Entitled(p, s, g) => Entitled(p, s, g)'
<1>1. /\ epoch \in Nat
      /\ now \in Nat
      /\ drawn \in Nat
      /\ minted \in [0..epoch -> [secret : Nat, roster : SUBSET Member, at : Nat]]
  BY DEF Inv, TypeOK
<1>2. epoch' = epoch + 1
  BY DEF StartEpoch
<1>3. R \in SUBSET Member /\ Distributor \in R
  BY DEF Rosters
<1>4. minted' \in [0..epoch' -> [secret : Nat, roster : SUBSET Member, at : Nat]]
  BY <1>1, <1>3 DEF StartEpoch, NewEpochSecret
<1>5. \A e \in 0..epoch : e \in 0..epoch' /\ minted'[e] = minted[e]
  BY <1>1 DEF StartEpoch
<1>6. minted'[epoch + 1] = [secret |-> drawn, roster |-> R, at |-> now]
  BY <1>1 DEF StartEpoch, NewEpochSecret
<1>7. ASSUME NEW p, NEW s, NEW g, Entitled(p, s, g)
      PROVE  Entitled(p, s, g)'
  <2>1. PICK e \in 0..epoch : /\ s = minted[e].secret
                              /\ p \in Readers[e]
                              /\ LabelsIntact \/ p = Distributor => g = e
    BY <1>7 DEF Entitled
  <2>2. p \in Readers'[e]
    BY <2>1, <1>5 DEF Readers
  <2> QED  BY <2>1, <2>2, <1>5 DEF Entitled
<1> QED  BY <1>2, <1>3, <1>4, <1>5, <1>6, <1>7

\* A rekey keeps it: the new secret is drawn for the new roster.
LEMMA StartEpochInv ==
    ASSUME Inv, NEW R \in Rosters, StartEpoch(R)
    PROVE  Inv'
<1> DEFINE new == NewRatchet(epoch + 1, drawn)
<1>0. /\ epoch' = epoch + 1
      /\ R \in SUBSET Member /\ Distributor \in R
      /\ minted' \in [0..epoch' -> [secret : Nat, roster : SUBSET Member, at : Nat]]
      /\ \A e \in 0..epoch : e \in 0..epoch' /\ minted'[e] = minted[e]
      /\ minted'[epoch + 1] = [secret |-> drawn, roster |-> R, at |-> now]
      /\ \A p, s, g : Entitled(p, s, g) => Entitled(p, s, g)'
  BY StartEpochMinted
<1>1. TypeOK
  BY DEF Inv
<1>2. epoch \in Nat /\ drawn \in Nat /\ now \in Nat
  BY <1>1 DEF TypeOK
<1>3. new \in Ratchet /\ new.epoch = epoch + 1 /\ new.epoch_secret = drawn
  BY <1>2 DEF NewRatchet, Ratchet
<1>4. /\ ratchets' \in [Member -> SUBSET Ratchet]
      /\ \A p \in Member : \A r \in ratchets'[p] :
           r \in ratchets[p] \/ (p = Distributor /\ r = new)
  BY <1>1, <1>3, KeepRatchet, MemberAssumption DEF StartEpoch, NewEpochSecret
<1>5. TypeOK'
  <2>1. now' \in Nat /\ drawn' \in Nat /\ epoch' \in Nat
    BY <1>2 DEF StartEpoch
  <2>2. /\ \A w \in (wraps \cup damagedWraps)' :
             w.epoch \in 0..epoch' /\ w.to \in Member /\ w.sealed.body \in Nat
        /\ \A m \in (sent \cup damagedMsgs)' :
             m.epoch \in 0..epoch' /\ m.index \in Nat /\ m.sealed.body \in Nat
        /\ opened' \subseteq [to : Member, epoch : Nat, body : Nat]
    BY <1>0, <1>1 DEF TypeOK, StartEpoch
  <2> QED  BY <2>1, <2>2, <1>0, <1>4 DEF TypeOK
<1>6. IsFiniteSet(sent)'
  BY DEF Inv, StartEpoch
<1>7. MintedInv'
  <2>1. \A e \in 0..epoch' : e \in 0..epoch \/ e = epoch + 1
    BY <1>0, <1>2
  <2>2. drawn' = drawn + 1 /\ \A e \in 0..epoch : minted'[e].secret < drawn
    BY <1>0 DEF Inv, MintedInv, StartEpoch
  <2>3. minted'[epoch + 1].secret = drawn
    BY <1>0
  <2>4. \A e \in 0..epoch : minted'[e].secret \in Nat
    BY <1>0, <1>1 DEF TypeOK
  <2>5. \A e \in 0..epoch' : minted'[e].secret < drawn'
    BY <2>1, <2>2, <2>3, <2>4, <1>2
  <2>6. \A e \in 0..epoch' : Distributor \in minted'[e].roster
    BY <1>0, <2>1 DEF Inv, MintedInv
  <2>7. \A e, f \in 0..epoch : minted'[e].secret = minted'[f].secret => e = f
    BY <1>0 DEF Inv, MintedInv
  <2>8. ASSUME NEW e \in 0..epoch', NEW f \in 0..epoch',
               minted'[e].secret = minted'[f].secret
        PROVE  e = f
    <3>1. CASE e \in 0..epoch /\ f \in 0..epoch
      BY <3>1, <2>7, <2>8
    <3>2. CASE e = epoch + 1 /\ f \in 0..epoch
      BY <3>2, <2>8, <2>2, <2>3, <2>4, <1>2
    <3>3. CASE e \in 0..epoch /\ f = epoch + 1
      BY <3>3, <2>8, <2>2, <2>3, <2>4, <1>2
    <3> QED  BY <3>1, <3>2, <3>3, <2>1
  <2> QED  BY <2>5, <2>8, <2>6 DEF MintedInv
<1>8. WrapInv'
  <2>1. wraps' = wraps /\ damagedWraps' = damagedWraps
    BY DEF StartEpoch
  <2>2. ASSUME NEW w \in wraps
        PROVE  /\ w.epoch \in 0..epoch'
               /\ w.to \in minted'[w.epoch].roster \cap KeyHolders
               /\ w = WrapEpochSecret(w.epoch, minted'[w.epoch].secret, w.to)
    <3>1. /\ w.epoch \in 0..epoch
          /\ w.to \in minted[w.epoch].roster \cap KeyHolders
          /\ w = WrapEpochSecret(w.epoch, minted[w.epoch].secret, w.to)
      BY <2>2 DEF Inv, WrapInv
    <3>2. minted'[w.epoch] = minted[w.epoch] /\ w.epoch \in 0..epoch'
      BY <1>0, <3>1
    <3> QED  BY <3>1, <3>2
  <2>3. ASSUME NEW x \in damagedWraps
        PROVE  \E w \in wraps : /\ x.epoch \in 0..epoch'
                                /\ x.to = w.to
                                /\ x.sealed.key = w.sealed.key
                                /\ x.sealed.body = w.sealed.body
                                /\ LabelsIntact => x.epoch = w.epoch
    BY <1>0 DEF Inv, WrapInv
  <2> QED  BY <2>1, <2>2, <2>3 DEF WrapInv, WrapEpochSecret, LabelsIntact
<1>9. RatchetInv'
  <2>1. ASSUME NEW s, s = drawn, NEW g, g = epoch + 1
        PROVE  Entitled(Distributor, s, g)'
    <3>1. Distributor \in Readers'[epoch + 1]
      BY <1>0, <1>2 DEF Readers
    <3>2. epoch + 1 \in 0..epoch' /\ drawn = minted'[epoch + 1].secret
      BY <1>0, <1>2
    <3> QED  BY <2>1, <3>1, <3>2 DEF Entitled
  <2>2. ASSUME NEW p \in Member, NEW r \in ratchets'[p]
        PROVE  r.epoch \in 0..epoch' /\ Entitled(p, r.epoch_secret, r.epoch)'
    <3>1. CASE r \in ratchets[p]
      BY <1>0, <3>1 DEF Inv, RatchetInv
    <3>2. CASE p = Distributor /\ r = new
      BY <1>0, <3>2, <1>2, <1>3, <2>1
    <3> QED  BY <3>1, <3>2, <1>4
  <2> QED  BY <2>2 DEF RatchetInv
<1>10. SentInv'
  BY <1>0 DEF Inv, SentInv, StartEpoch
<1>11. DamagedMsgInv'
  BY DEF Inv, DamagedMsgInv, StartEpoch
<1> QED  BY <1>5, <1>6, <1>7, <1>8, <1>9, <1>10, <1>11 DEF Inv

\* The parts of the invariant that a step keeps when it leaves the variables
\* they speak of alone.
LEMMA FrameInv ==
    ASSUME Inv, UNCHANGED <<drawn, epoch, minted>>
    PROVE  /\ MintedInv'
           /\ UNCHANGED <<wraps, damagedWraps>> => WrapInv'
           /\ UNCHANGED ratchets => RatchetInv'
           /\ UNCHANGED sent => (IsFiniteSet(sent)' /\ SentInv')
           /\ UNCHANGED <<sent, damagedMsgs>> => DamagedMsgInv'
<1>1. MintedInv'
  BY DEF Inv, MintedInv
<1>2. ASSUME UNCHANGED <<wraps, damagedWraps>> PROVE WrapInv'
  BY <1>2 DEF Inv, WrapInv, LabelsIntact, WrapEpochSecret
<1>3. ASSUME UNCHANGED ratchets PROVE RatchetInv'
  BY <1>3, EntitledUnchanged DEF Inv, RatchetInv
<1>4. ASSUME UNCHANGED sent PROVE IsFiniteSet(sent)' /\ SentInv'
  BY <1>4, EntitledUnchanged DEF Inv, SentInv, DeriveMessageKey
<1>5. ASSUME UNCHANGED <<sent, damagedMsgs>> PROVE DamagedMsgInv'
  BY <1>5 DEF Inv, DamagedMsgInv
<1> QED  BY <1>1, <1>2, <1>3, <1>4, <1>5

\* The payload wrap_epoch_secret returns, part by part.
LEMMA WrapFields ==
    ASSUME NEW e, NEW s, NEW p
    PROVE  /\ WrapEpochSecret(e, s, p).epoch = e
           /\ WrapEpochSecret(e, s, p).to = p
           /\ WrapEpochSecret(e, s, p).sealed.key = WrapKey(HybridEncap(p, <<e, p>>))
           /\ WrapEpochSecret(e, s, p).sealed.body = s
BY DEF WrapEpochSecret, AesGcmEncrypt

\* A round of the distribution loop keeps it: the payload is sealed to a reader.
LEMMA WrapInvariant ==
    ASSUME Inv, NEW p \in Member, NEW r \in ratchets[Distributor], Wrap(p, r)
    PROVE  Inv'
<1> DEFINE w == WrapEpochSecret(r.epoch, r.epoch_secret, p)
<1>1. /\ UNCHANGED <<now, drawn, epoch, minted, ratchets, damagedWraps, sent,
                     damagedMsgs, opened>>
      /\ wraps' = wraps \cup {w}
      /\ p \in minted[r.epoch].roster \cap KeyHolders
  BY DEF Wrap
<1>2. TypeOK /\ WrapInv
  BY DEF Inv
<1>3. r \in Ratchet /\ r.epoch \in 0..epoch /\ r.epoch_secret = minted[r.epoch].secret
  <2>1. r \in Ratchet
    BY <1>2, MemberAssumption DEF TypeOK
  <2>2. r.epoch \in 0..epoch /\ Entitled(Distributor, r.epoch_secret, r.epoch)
    BY MemberAssumption DEF Inv, RatchetInv
  <2> QED  BY <2>1, <2>2 DEF Entitled
<1>4. w.epoch = r.epoch /\ w.to = p /\ w.sealed.body = r.epoch_secret
  BY DEF WrapEpochSecret, AesGcmEncrypt
<1>5. TypeOK'
  <2>1. w.sealed.body \in Nat
    BY <1>3, <1>4 DEF Ratchet
  <2>2. \A v \in (wraps \cup damagedWraps)' :
          v.epoch \in 0..epoch' /\ v.to \in Member /\ v.sealed.body \in Nat
    BY <1>1, <1>2, <1>3, <1>4, <2>1 DEF TypeOK
  <2> QED  BY <1>1, <1>2, <2>2 DEF TypeOK
<1>6. WrapInv'
  <2>1. \A v \in wraps' : /\ v.epoch \in 0..epoch
                          /\ v.to \in minted[v.epoch].roster \cap KeyHolders
                          /\ v = WrapEpochSecret(v.epoch, minted[v.epoch].secret, v.to)
    BY <1>1, <1>2, <1>3, <1>4 DEF WrapInv
  <2>2. \A x \in damagedWraps : \E v \in wraps' :
          /\ x.epoch \in 0..epoch
          /\ x.to = v.to
          /\ x.sealed.key = v.sealed.key
          /\ x.sealed.body = v.sealed.body
          /\ LabelsIntact => x.epoch = v.epoch
    BY <1>1, <1>2 DEF WrapInv
  <2> QED  BY <1>1, <2>1, <2>2 DEF WrapInv, WrapEpochSecret, LabelsIntact
<1> QED  BY <1>1, <1>5, <1>6, FrameInv DEF Inv

\* Whatever payload p can unwrap, its content was meant for p.
LEMMA UnwrapEntitled ==
    ASSUME Inv, NEW w \in wraps \cup damagedWraps, NEW p, Unwraps(w, p),
           p # Distributor
    PROVE  p \in KeyHolders /\ Entitled(p, w.sealed.body, w.epoch)
<1>1. PICK v \in wraps : /\ w.sealed.key = v.sealed.key
                         /\ w.sealed.body = v.sealed.body
                         /\ LabelsIntact => w.epoch = v.epoch
  BY DEF Inv, WrapInv
<1>2. /\ v.epoch \in 0..epoch
      /\ v.to \in minted[v.epoch].roster \cap KeyHolders
      /\ v = WrapEpochSecret(v.epoch, minted[v.epoch].secret, v.to)
  BY DEF Inv, WrapInv
<1>3. /\ v.sealed.key = WrapKey(HybridEncap(v.to, <<v.epoch, v.to>>))
      /\ v.sealed.body = minted[v.epoch].secret
  BY <1>2, WrapFields
<1>4. w.sealed.key = WrapKey(HybridDecap(w.ct, p))
  BY DEF Unwraps, AesGcmOpens
<1>5. p = v.to
  BY <1>1, <1>3, <1>4, WrapKeyOwner
<1>6. p \in Readers[v.epoch]
  BY <1>2, <1>5 DEF Readers
<1> QED  BY <1>1, <1>2, <1>3, <1>5, <1>6 DEF Entitled

\* unwrap_epoch_secret keeps it: what it returns the member is entitled to.
LEMMA UnwrapInvariant ==
    ASSUME Inv, NEW p \in Member, NEW w \in wraps \cup damagedWraps, Unwrap(p, w)
    PROVE  Inv'
<1> DEFINE new == NewRatchet(w.epoch, w.sealed.body)
<1>1. /\ UNCHANGED <<now, drawn, epoch, minted, wraps, damagedWraps, sent,
                     damagedMsgs, opened>>
      /\ p # Distributor
      /\ Unwraps(w, p)
      /\ ratchets' = [ratchets EXCEPT ![p] = Keep(@, new)]
  BY DEF Unwrap
<1>2. TypeOK /\ RatchetInv
  BY DEF Inv
<1>3. new \in Ratchet /\ new.epoch = w.epoch /\ new.epoch_secret = w.sealed.body
  BY <1>2 DEF TypeOK, NewRatchet, Ratchet
<1>4. /\ ratchets' \in [Member -> SUBSET Ratchet]
      /\ \A q \in Member : \A r \in ratchets'[q] :
           r \in ratchets[q] \/ (q = p /\ r = new)
  BY <1>1, <1>2, <1>3, KeepRatchet
<1>5. TypeOK'
  BY <1>1, <1>2, <1>4 DEF TypeOK
<1>6. RatchetInv'
  <2>1. w.epoch \in 0..epoch /\ Entitled(p, w.sealed.body, w.epoch)
    BY <1>1, <1>2, UnwrapEntitled DEF TypeOK
  <2>2. ASSUME NEW q \in Member, NEW r \in ratchets'[q]
        PROVE  r.epoch \in 0..epoch /\ Entitled(q, r.epoch_secret, r.epoch)
    <3>1. CASE r \in ratchets[q]
      BY <3>1, <1>2 DEF RatchetInv
    <3>2. CASE q = p /\ r = new
      BY <3>2, <2>1, <1>3
    <3> QED  BY <3>1, <3>2, <1>4
  <2> QED  BY <1>1, <2>2, EntitledUnchanged DEF RatchetInv
<1> QED  BY <1>1, <1>5, <1>6, FrameInv DEF Inv

\* next_outbound_key and the sealing of a message keep it.
LEMMA SendInvariant ==
    ASSUME Inv, NEW p \in Member, NEW r \in ratchets[p], Send(p, r)
    PROVE  Inv'
<1> DEFINE new == [r EXCEPT !.message_index = @ + 1]
           msg == SealMessage(p, r, Cardinality(sent))
<1>1. /\ UNCHANGED <<now, drawn, epoch, minted, wraps, damagedWraps, damagedMsgs,
                     opened>>
      /\ p \in Senders
      /\ Cardinality(sent) < MaxSent
      /\ sent' = sent \cup {msg}
      /\ ratchets' = [ratchets EXCEPT ![p] = Keep(@, new)]
  BY DEF Send
<1>2. TypeOK /\ RatchetInv /\ SentInv /\ IsFiniteSet(sent) /\ DamagedMsgInv
  BY DEF Inv
<1>3. r \in Ratchet /\ r.epoch \in 0..epoch /\ Entitled(p, r.epoch_secret, r.epoch)
  BY <1>2 DEF TypeOK, RatchetInv
<1>4. new \in Ratchet /\ new.epoch = r.epoch /\ new.epoch_secret = r.epoch_secret
  BY <1>3 DEF Ratchet
<1>5. /\ ratchets' \in [Member -> SUBSET Ratchet]
      /\ \A q \in Member : \A x \in ratchets'[q] :
           x \in ratchets[q] \/ (q = p /\ x = new)
  BY <1>1, <1>2, <1>4, KeepRatchet
<1>6. Cardinality(sent) \in 0..(MaxSent - 1)
  BY <1>1, <1>2, FS_CardinalityType, BoundAssumption
<1>7. /\ msg = [epoch |-> msg.epoch, index |-> msg.index, sender |-> msg.sender,
                at |-> msg.at, sealed |-> msg.sealed]
      /\ msg.epoch = r.epoch
      /\ msg.index = r.message_index
      /\ msg.sender = p
      /\ msg.sealed = AesGcmEncrypt(msg.sealed.key, msg.sealed.body, NoAad)
      /\ msg.sealed.key = DeriveMessageKey(r.epoch_secret, r.epoch, r.message_index)
      /\ msg.sealed.body = Cardinality(sent)
  BY DEF SealMessage, AesGcmEncrypt, MessageKey
<1>8. TypeOK'
  <2>1. msg.epoch \in 0..epoch /\ msg.index \in Nat /\ msg.sealed.body \in Nat
    BY <1>3, <1>6, <1>7 DEF Ratchet
  <2>2. \A m \in (sent \cup damagedMsgs)' :
          m.epoch \in 0..epoch' /\ m.index \in Nat /\ m.sealed.body \in Nat
    BY <1>1, <1>2, <2>1 DEF TypeOK
  <2> QED  BY <1>1, <1>2, <1>5, <2>2 DEF TypeOK
<1>9. IsFiniteSet(sent)'
  BY <1>1, <1>2, FS_AddElement
<1>10. RatchetInv'
  <2>1. ASSUME NEW q \in Member, NEW x \in ratchets'[q]
        PROVE  x.epoch \in 0..epoch /\ Entitled(q, x.epoch_secret, x.epoch)
    <3>1. CASE x \in ratchets[q]
      BY <3>1, <1>2 DEF RatchetInv
    <3>2. CASE q = p /\ x = new
      BY <3>2, <1>3, <1>4
    <3> QED  BY <3>1, <3>2, <1>5
  <2> QED  BY <1>1, <2>1, EntitledUnchanged DEF RatchetInv
<1>11. SentInv'
  <2> DEFINE Good(m) ==
        /\ m = [epoch |-> m.epoch, index |-> m.index, sender |-> m.sender,
                at |-> m.at, sealed |-> m.sealed]
        /\ m.sealed = AesGcmEncrypt(m.sealed.key, m.sealed.body, NoAad)
        /\ m.sender \in Senders
        /\ m.sealed.body \in 0..(MaxSent - 1)
        /\ \E s \in Nat :
             /\ m.sealed.key = DeriveMessageKey(s, m.epoch, m.index)
             /\ Entitled(m.sender, s, m.epoch)
  <2>1. \A m \in sent : Good(m)
    BY <1>2 DEF SentInv
  <2>2. \E s \in Nat : /\ msg.sealed.key = DeriveMessageKey(s, msg.epoch, msg.index)
                       /\ Entitled(msg.sender, s, msg.epoch)
    BY <1>3, <1>7 DEF Ratchet
  <2>3. Good(msg)
    BY <1>1, <1>6, <1>7, <2>2
  <2>4. \A m \in sent' : Good(m)
    BY <1>1, <2>1, <2>3
  <2> QED  BY <1>1, <2>4, EntitledUnchanged DEF SentInv, AesGcmEncrypt, DeriveMessageKey, NoAad
<1>12. DamagedMsgInv'
  BY <1>1, <1>2 DEF DamagedMsgInv
<1> QED  BY <1>1, <1>8, <1>9, <1>10, <1>11, <1>12, FrameInv DEF Inv

\* Opening a message keeps it: the invariant does not depend on what was read.
LEMMA ReceiveInvariant ==
    ASSUME Inv, NEW p \in Member, NEW m \in sent \cup damagedMsgs, Receive(p, m)
    PROVE  Inv'
<1>1. /\ UNCHANGED <<now, drawn, epoch, minted, ratchets, wraps, damagedWraps, sent,
                     damagedMsgs>>
      /\ opened' = opened \cup {[to |-> p, epoch |-> m.epoch, body |-> m.sealed.body]}
  BY DEF Receive
<1>2. TypeOK'
  BY <1>1 DEF Inv, TypeOK
<1> QED  BY <1>1, <1>2, FrameInv DEF Inv

\* An altered payload keeps it: its key and its body are the genuine ones.
LEMMA DamageWrapInvariant ==
    ASSUME Inv, DamageWrap
    PROVE  Inv'
<1>1. UNCHANGED <<now, drawn, epoch, minted, ratchets, wraps, sent, damagedMsgs, opened>>
  BY DEF DamageWrap
<1>2. PICK w \in wraps, part \in WrapDamage, e \in 0..epoch :
        damagedWraps' = damagedWraps \cup {AlteredWrap(w, part, e)}
  BY DEF DamageWrap
<1> DEFINE x == AlteredWrap(w, part, e)
<1>3. TypeOK /\ WrapInv
  BY DEF Inv
<1>4. w = WrapEpochSecret(w.epoch, minted[w.epoch].secret, w.to)
  BY <1>3 DEF WrapInv
<1>5. /\ x.epoch \in 0..epoch
      /\ x.to = w.to
      /\ x.sealed.key = w.sealed.key
      /\ x.sealed.body = w.sealed.body
      /\ LabelsIntact => x.epoch = w.epoch
  <2>1. w.epoch \in 0..epoch
    BY <1>3 DEF TypeOK
  <2>2. /\ w = [epoch |-> w.epoch, to |-> w.to, ct |-> w.ct, sealed |-> w.sealed]
        /\ w.sealed = [key |-> w.sealed.key, body |-> w.sealed.body,
                       aad |-> w.sealed.aad, intact |-> w.sealed.intact]
    BY <1>4 DEF WrapEpochSecret, AesGcmEncrypt
  <2>3. CASE part = "x25519"
    BY <2>1, <2>2, <2>3 DEF AlteredWrap
  <2>4. CASE part = "mlkem"
    BY <2>1, <2>2, <2>4 DEF AlteredWrap
  <2>5. CASE part = "sealed"
    BY <2>1, <2>2, <2>5 DEF AlteredWrap
  <2>6. CASE part = "label"
    BY <2>1, <2>2, <2>6 DEF AlteredWrap, LabelsIntact
  <2> QED  BY <2>3, <2>4, <2>5, <2>6, DamageAssumption
<1> HIDE DEF x
<1>6. TypeOK'
  <2>1. x.to \in Member /\ x.sealed.body \in Nat
    BY <1>3, <1>5 DEF TypeOK
  <2>2. \A v \in (wraps \cup damagedWraps)' :
          v.epoch \in 0..epoch' /\ v.to \in Member /\ v.sealed.body \in Nat
    BY <1>1, <1>2, <1>3, <1>5, <2>1 DEF TypeOK, x
  <2> QED  BY <1>1, <1>3, <2>2 DEF TypeOK
<1>7. WrapInv'
  <2>1. \A y \in damagedWraps' : \E v \in wraps :
          /\ y.epoch \in 0..epoch
          /\ y.to = v.to
          /\ y.sealed.key = v.sealed.key
          /\ y.sealed.body = v.sealed.body
          /\ LabelsIntact => y.epoch = v.epoch
    BY <1>2, <1>3, <1>5 DEF WrapInv, x
  <2> QED  BY <1>1, <1>3, <2>1 DEF WrapInv, WrapEpochSecret, LabelsIntact
<1> QED  BY <1>1, <1>6, <1>7, FrameInv DEF Inv

\* An altered message keeps it, likewise.
LEMMA DamageMsgInvariant ==
    ASSUME Inv, DamageMsg
    PROVE  Inv'
<1>1. UNCHANGED <<now, drawn, epoch, minted, ratchets, wraps, damagedWraps, sent, opened>>
  BY DEF DamageMsg
<1>2. PICK m \in sent : \E x \in AlteredMsgs(m) : damagedMsgs' = damagedMsgs \cup {x}
  BY DEF DamageMsg
<1>3. PICK x \in AlteredMsgs(m) : damagedMsgs' = damagedMsgs \cup {x}
  BY <1>2
<1>4. TypeOK /\ SentInv /\ DamagedMsgInv
  BY DEF Inv
<1>5. /\ m.epoch \in 0..epoch /\ m.index \in Nat /\ m.sealed.body \in Nat
      /\ m = [epoch |-> m.epoch, index |-> m.index, sender |-> m.sender,
              at |-> m.at, sealed |-> m.sealed]
      /\ m.sealed = [key |-> m.sealed.key, body |-> m.sealed.body,
                     aad |-> m.sealed.aad, intact |-> m.sealed.intact]
  BY <1>4 DEF TypeOK, SentInv, AesGcmEncrypt
<1>6. /\ x.epoch \in 0..epoch
      /\ x.index \in Nat
      /\ x.sender = m.sender
      /\ x.sealed.key = m.sealed.key
      /\ x.sealed.body = m.sealed.body
  <2>1. CASE x = [m EXCEPT !.sealed.intact = FALSE]
    BY <1>5, <2>1
  <2>2. ASSUME NEW i \in 0..MaxSent, x = [m EXCEPT !.index = i]
        PROVE  <1>6!1 /\ <1>6!2 /\ <1>6!3 /\ <1>6!4 /\ <1>6!5
    BY <1>5, <2>2, BoundAssumption
  <2>3. ASSUME NEW e \in 0..epoch, x = [m EXCEPT !.epoch = e]
        PROVE  <1>6!1 /\ <1>6!2 /\ <1>6!3 /\ <1>6!4 /\ <1>6!5
    BY <1>5, <2>3
  <2> QED  BY <2>1, <2>2, <2>3 DEF AlteredMsgs
<1>7. TypeOK'
  BY <1>1, <1>3, <1>4, <1>5, <1>6 DEF TypeOK
<1>8. DamagedMsgInv'
  BY <1>1, <1>3, <1>4, <1>6 DEF DamagedMsgInv
<1> QED  BY <1>1, <1>7, <1>8, FrameInv DEF Inv

\* Every step of the ratchets and of the network keeps the invariant.
LEMMA NextInv == Inv /\ [Next]_vars => Inv'
<1> SUFFICES ASSUME Inv, [Next]_vars PROVE Inv'
  OBVIOUS
<1>1. ASSUME NEW R \in Rosters, StartEpoch(R) PROVE Inv'
  BY <1>1, StartEpochInv
<1>2. ASSUME NEW p \in Member, NEW r \in ratchets[Distributor], Wrap(p, r) PROVE Inv'
  BY <1>2, WrapInvariant
<1>3. ASSUME NEW p \in Member, NEW w \in wraps \cup damagedWraps, Unwrap(p, w) PROVE Inv'
  BY <1>3, UnwrapInvariant
<1>4. ASSUME NEW p \in Member, NEW r \in ratchets[p], Send(p, r) PROVE Inv'
  BY <1>4, SendInvariant
<1>5. ASSUME NEW p \in Member, NEW m \in sent \cup damagedMsgs, Receive(p, m) PROVE Inv'
  BY <1>5, ReceiveInvariant
<1>6. ASSUME DamageWrap PROVE Inv'
  BY <1>6, DamageWrapInvariant
<1>7. ASSUME DamageMsg PROVE Inv'
  BY <1>7, DamageMsgInvariant
<1>8. ASSUME Tick PROVE Inv'
  <2>1. TypeOK'
    BY <1>8 DEF Tick, Inv, TypeOK
  <2> QED  BY <1>8, <2>1, FrameInv DEF Tick, Inv
<1>9. ASSUME UNCHANGED vars PROVE Inv'
  <2>1. TypeOK'
    BY <1>9 DEF vars, Inv, TypeOK
  <2> QED  BY <1>9, <2>1, FrameInv DEF vars, Inv
<1> QED  BY <1>1, <1>2, <1>3, <1>4, <1>5, <1>6, <1>7, <1>8, <1>9 DEF Next

\* The inductive invariant holds throughout every execution.
THEOREM InvHolds == Spec => []Inv
BY InitInv, NextInv, PTL DEF Spec

\* Every variable keeps its type.
THEOREM TypeCorrect == Spec => []TypeOK
<1>1. Inv => TypeOK
  BY DEF Inv
<1> QED  BY <1>1, InvHolds, PTL

----------------------------------------------------------------------------
(* Agreement and delivery, when epoch labels arrive as they were sent. *)

\* The secret under every ratchet and every message is that of its epoch.
LEMMA HeldSecret ==
    ASSUME Inv, NEW p \in Member, NEW r \in ratchets[p],
           LabelsIntact \/ p = Distributor
    PROVE  r.epoch \in 0..epoch /\ r.epoch_secret = minted[r.epoch].secret
BY DEF Inv, RatchetInv, Entitled

\* The setting in which a message's epoch is the epoch of its key: labels are
\* intact, or only the distributor, which needs none, sends.
LabelsOrSoleSender == LabelsIntact \/ Senders \subseteq {Distributor}

\* A message key comes from one secret, that of an epoch the sender reads.
LEMMA SealedSecret ==
    ASSUME Inv, LabelsOrSoleSender, NEW m \in sent
    PROVE  /\ m.epoch \in 0..epoch
           /\ m.sender \in Readers[m.epoch]
           /\ m.sealed.key = DeriveMessageKey(minted[m.epoch].secret, m.epoch, m.index)
BY DEF Inv, SentInv, Entitled, LabelsOrSoleSender

\* Any two ratchets of one epoch hold one secret, for every group, network
\* behaviour and number of rekeys.
THEOREM AgreementHolds == Spec => []EpochAgreement
<1>1. Inv => EpochAgreement
  BY HeldSecret DEF EpochAgreement, LabelsIntact
<1> QED  BY <1>1, InvHolds, PTL

\* A holder of a message's epoch opens it, whatever was lost or reordered.
THEOREM DeliveryHolds == Spec => []LossReorderTolerant
<1>1. Inv => LossReorderTolerant
  <2> SUFFICES ASSUME Inv, LabelsIntact, NEW m \in sent, NEW p \in Member,
                      NEW r \in ratchets[p], r.epoch = m.epoch
               PROVE  CanOpen(p, m)
    BY DEF LossReorderTolerant, LabelsIntact
  <2>1. m.sealed.key = DeriveMessageKey(minted[m.epoch].secret, m.epoch, m.index)
    BY SealedSecret DEF LabelsOrSoleSender
  <2>2. r.epoch_secret = minted[m.epoch].secret
    BY HeldSecret
  <2>3. MessageKey(r, m.index) = m.sealed.key
    BY <2>1, <2>2 DEF MessageKey
  <2>4. m.sealed = AesGcmEncrypt(m.sealed.key, m.sealed.body, NoAad)
    BY DEF Inv, SentInv
  <2>5. m.sealed.intact /\ m.sealed.aad = NoAad
    BY <2>4 DEF AesGcmEncrypt
  <2> QED  BY <2>3, <2>5 DEF CanOpen, AesGcmOpens
<1> QED  BY <1>1, InvHolds, PTL

----------------------------------------------------------------------------
(* Secrecy across rosters and across epochs. *)

\* A secret p can reach is that of an epoch with p among its readers.
LEMMA ReachEntitled ==
    ASSUME Inv, NEW p \in Member, NEW s \in SecretsWithinReach(p)
    PROVE  \E e \in 0..epoch : s = minted[e].secret /\ p \in minted[e].roster
<1>1. CASE \E r \in ratchets[p] : s = r.epoch_secret
  BY <1>1 DEF Inv, RatchetInv, Entitled, Readers
<1>2. CASE \E w \in wraps \cup damagedWraps : Unwraps(w, p) /\ s = w.sealed.body
  <2>1. CASE p = Distributor
    <3>1. PICK w \in wraps \cup damagedWraps : s = w.sealed.body
      BY <1>2
    <3>2. PICK v \in wraps : w.sealed.body = v.sealed.body
      BY <3>1 DEF Inv, WrapInv
    <3>3. /\ v.epoch \in 0..epoch
          /\ v = WrapEpochSecret(v.epoch, minted[v.epoch].secret, v.to)
      BY DEF Inv, WrapInv
    <3>4. v.sealed = AesGcmEncrypt(WrapKey(HybridEncap(v.to, <<v.epoch, v.to>>)),
                                   minted[v.epoch].secret, NoAad)
      BY <3>3 DEF WrapEpochSecret
    <3>5. v.sealed.body = minted[v.epoch].secret
      BY <3>4 DEF AesGcmEncrypt
    <3> QED  BY <2>1, <3>1, <3>2, <3>3, <3>5 DEF Inv, MintedInv
  <2>2. CASE p # Distributor
    BY <1>2, <2>2, UnwrapEntitled DEF Entitled, Readers
  <2> QED  BY <2>1, <2>2
<1> QED  BY <1>1, <1>2 DEF SecretsWithinReach

\* From the secret of epoch e only messages of epoch e can be derived.
LEMMA DerivesOwnEpoch ==
    ASSUME Inv, LabelsOrSoleSender, NEW m \in sent, NEW S, Derives(S, m)
    PROVE  minted[m.epoch].secret \in S
<1>1. PICK s \in S, e \in 0..epoch, i \in 0..MaxSent :
        DeriveMessageKey(s, e, i) = m.sealed.key
  BY DEF Derives
<1>2. m.sealed.key = DeriveMessageKey(minted[m.epoch].secret, m.epoch, m.index)
  BY SealedSecret
<1> QED  BY <1>1, <1>2, MessageKeyInjective

\* A member outside the roster of an epoch derives none of its message keys,
\* even where labels go wrong as long as the distributor alone sends.
THEOREM RosterOnlyHolds ==
    ASSUME LabelsOrSoleSender
    PROVE  Spec => []RosterOnly
<1>1. Inv => RosterOnly
  <2> SUFFICES ASSUME Inv, NEW m \in sent, NEW p \in Member,
                      Derives(SecretsWithinReach(p), m)
               PROVE  p \in minted[m.epoch].roster
    BY DEF RosterOnly
  <2>1. minted[m.epoch].secret \in SecretsWithinReach(p)
    BY DerivesOwnEpoch
  <2>2. PICK e \in 0..epoch : /\ minted[m.epoch].secret = minted[e].secret
                              /\ p \in minted[e].roster
    BY <2>1, ReachEntitled
  <2>3. e = m.epoch
    BY <2>2, SealedSecret DEF Inv, MintedInv
  <2> QED  BY <2>2, <2>3
<1> QED  BY <1>1, InvHolds, PTL

\* Leaked epoch secrets reveal no message of another epoch.
THEOREM LeakContainedHolds ==
    ASSUME LabelsOrSoleSender
    PROVE  Spec => []LeakContained
<1>1. Inv => LeakContained
  <2> SUFFICES ASSUME Inv, NEW leaked \in SUBSET (0..epoch), NEW m \in sent,
                      Derives({minted[e].secret : e \in leaked}, m)
               PROVE  m.epoch \in leaked
    BY DEF LeakContained
  <2>1. PICK e \in leaked : minted[m.epoch].secret = minted[e].secret
    BY DerivesOwnEpoch
  <2> QED  BY <2>1, SealedSecret DEF Inv, MintedInv
<1> QED  BY <1>1, InvHolds, PTL

----------------------------------------------------------------------------
(* Rekey bounds and key uniqueness, when only the distributor sends and asks *)
(* should_rekey before it does.                                             *)

SoleSender ==
    /\ Senders \subseteq {Distributor}
    /\ ConsultRekey
    /\ RekeyMsgBound <= U64Mod

\* The distributor's ratchets are one per epoch, born with it, and count every
\* message of the epoch.
SoleSenderInv ==
    /\ \A r \in ratchets[Distributor] :
         /\ r.message_index <= RekeyMsgBound
         /\ r.epoch_started_at = minted[r.epoch].at
    /\ \A r, q \in ratchets[Distributor] : r.epoch = q.epoch => r = q
    /\ \A m \in sent :
         /\ m.at - minted[m.epoch].at < RekeyAge
         /\ m.index < RekeyMsgBound
         /\ \E r \in ratchets[Distributor] :
              r.epoch = m.epoch /\ m.index < r.message_index
    /\ \A m, n \in sent : m.epoch = n.epoch /\ m.index = n.index => m = n

\* Nothing is sent at first.
LEMMA InitSoleSender == Init => SoleSenderInv
<1> SUFFICES ASSUME Init PROVE SoleSenderInv
  OBVIOUS
<1>1. minted[0].at = 0
  BY DEF Init
<1>2. ratchets[Distributor] = {[epoch |-> 0, epoch_secret |-> 0, message_index |-> 0,
                                epoch_started_at |-> 0]}
  BY MemberAssumption DEF Init
<1> QED  BY <1>1, <1>2, BoundAssumption DEF Init, SoleSenderInv

\* A rekey keeps the sole sender's counters and clocks in step.
LEMMA StartEpochSoleSender ==
    ASSUME Inv, SoleSenderInv, NEW R \in Rosters, StartEpoch(R)
    PROVE  SoleSenderInv'
<1> DEFINE new == NewRatchet(epoch + 1, drawn)
<1>1. /\ \A e \in 0..epoch : minted'[e] = minted[e]
      /\ minted'[epoch + 1] = [secret |-> drawn, roster |-> R, at |-> now]
  BY StartEpochMinted
<1>2. TypeOK /\ epoch \in Nat
  BY DEF Inv, TypeOK
<1>3. \A r \in ratchets[Distributor] : r.epoch \in 0..epoch
  BY MemberAssumption DEF Inv, RatchetInv
<1>4. new.epoch = epoch + 1 /\ new.message_index = 0 /\ new.epoch_started_at = now
  BY DEF NewRatchet
<1>5. ratchets'[Distributor] = ratchets[Distributor] \cup {new}
  <2>1. ratchets'[Distributor] = Keep(ratchets[Distributor], new)
    BY <1>2, MemberAssumption DEF StartEpoch, NewEpochSecret, TypeOK
  <2>2. \A r \in ratchets[Distributor] : r.epoch # new.epoch
    BY <1>2, <1>3, <1>4
  <2> QED  BY <2>1, <2>2 DEF Keep
<1>6. sent' = sent /\ \A m \in sent : m.epoch \in 0..epoch
  BY <1>2 DEF StartEpoch, TypeOK
<1>7. \A r \in ratchets'[Distributor] :
        r.message_index <= RekeyMsgBound /\ r.epoch_started_at = minted'[r.epoch].at
  BY <1>1, <1>3, <1>4, <1>5, BoundAssumption DEF SoleSenderInv
<1>8. \A r, q \in ratchets'[Distributor] : r.epoch = q.epoch => r = q
  BY <1>2, <1>3, <1>4, <1>5 DEF SoleSenderInv
<1>9. \A m \in sent' :
         /\ m.at - minted'[m.epoch].at < RekeyAge
         /\ m.index < RekeyMsgBound
         /\ \E r \in ratchets'[Distributor] :
              r.epoch = m.epoch /\ m.index < r.message_index
  BY <1>1, <1>5, <1>6 DEF SoleSenderInv
<1> QED  BY <1>6, <1>7, <1>8, <1>9 DEF SoleSenderInv

\* next_outbound_key keeps them in step: the index just used is passed.
LEMMA SendSoleSender ==
    ASSUME SoleSender, Inv, SoleSenderInv, NEW p \in Member, NEW r \in ratchets[p],
           Send(p, r)
    PROVE  SoleSenderInv'
<1> DEFINE new == [r EXCEPT !.message_index = @ + 1]
           msg == SealMessage(p, r, Cardinality(sent))
<1>1. /\ p = Distributor
      /\ ~ShouldRekey(r)
      /\ sent' = sent \cup {msg}
      /\ ratchets' = [ratchets EXCEPT ![p] = Keep(@, new)]
      /\ UNCHANGED <<epoch, minted>>
  BY DEF Send, SoleSender
<1>2. /\ TypeOK
      /\ r \in Ratchet
      /\ r.epoch \in 0..epoch
      /\ \A q \in ratchets[p] : q \in Ratchet
      /\ \A m \in sent : m.index \in Nat
  BY DEF Inv, RatchetInv, TypeOK
<1>3. r.message_index < RekeyMsgBound /\ now - r.epoch_started_at < RekeyAge
  BY <1>1, <1>2, BoundAssumption DEF ShouldRekey, Ratchet, TypeOK
<1>4. /\ new.epoch = r.epoch
      /\ new.message_index = r.message_index + 1
      /\ new.epoch_started_at = r.epoch_started_at
  BY <1>2 DEF Ratchet
<1>5. msg.epoch = r.epoch /\ msg.index = r.message_index /\ msg.at = now
  BY DEF SealMessage
<1>6. ratchets'[p] = {q \in ratchets[p] : q.epoch # r.epoch} \cup {new}
  BY <1>1, <1>2, <1>4 DEF Keep, TypeOK
<1>7. \A q \in ratchets'[p] :
        q.message_index <= RekeyMsgBound /\ q.epoch_started_at = minted[q.epoch].at
  BY <1>1, <1>2, <1>3, <1>4, <1>6, BoundAssumption DEF SoleSenderInv, Ratchet
<1>8. \A q, x \in ratchets'[p] : q.epoch = x.epoch => q = x
  BY <1>1, <1>4, <1>6 DEF SoleSenderInv
<1>9. ASSUME NEW m \in sent
      PROVE  /\ m.at - minted[m.epoch].at < RekeyAge
             /\ m.index < RekeyMsgBound
             /\ \E q \in ratchets'[p] : q.epoch = m.epoch /\ m.index < q.message_index
  <2>1. PICK q \in ratchets[p] : q.epoch = m.epoch /\ m.index < q.message_index
    BY <1>1 DEF SoleSenderInv
  <2>2. CASE q.epoch = r.epoch
    <3>1. q = r
      BY <1>1, <2>2 DEF SoleSenderInv
    <3>2. m.index < new.message_index
      BY <1>2, <1>4, <2>1, <3>1 DEF Ratchet
    <3> QED  BY <1>4, <1>6, <2>1, <2>2, <3>2 DEF SoleSenderInv
  <2>3. CASE q.epoch # r.epoch
    BY <1>6, <2>1, <2>3 DEF SoleSenderInv
  <2> QED  BY <2>2, <2>3
<1>10. /\ msg.at - minted[msg.epoch].at < RekeyAge
       /\ msg.index < RekeyMsgBound
       /\ \E q \in ratchets'[p] : q.epoch = msg.epoch /\ msg.index < q.message_index
  <2>1. r.epoch_started_at = minted[r.epoch].at
    BY <1>1 DEF SoleSenderInv
  <2>2. r.message_index < new.message_index
    BY <1>2, <1>4 DEF Ratchet
  <2> QED  BY <1>3, <1>4, <1>5, <1>6, <2>1, <2>2
<1>11. \A m \in sent : m.epoch = msg.epoch => m.index # msg.index
  <2> SUFFICES ASSUME NEW m \in sent, m.epoch = r.epoch
               PROVE  m.index # r.message_index
    BY <1>5
  <2>1. PICK q \in ratchets[p] : q.epoch = m.epoch /\ m.index < q.message_index
    BY <1>1 DEF SoleSenderInv
  <2>2. q = r
    BY <1>1, <2>1 DEF SoleSenderInv
  <2> QED  BY <1>2, <2>1, <2>2 DEF Ratchet
<1>12. \A m, n \in sent' : m.epoch = n.epoch /\ m.index = n.index => m = n
  BY <1>1, <1>11 DEF SoleSenderInv
<1>13. \A m \in sent' :
         /\ m.at - minted[m.epoch].at < RekeyAge
         /\ m.index < RekeyMsgBound
         /\ \E q \in ratchets'[p] : q.epoch = m.epoch /\ m.index < q.message_index
  BY <1>1, <1>9, <1>10
<1> QED  BY <1>1, <1>7, <1>8, <1>12, <1>13 DEF SoleSenderInv

\* Every other step leaves the distributor's ratchets and the messages alone.
LEMMA NextSoleSender ==
    ASSUME SoleSender, Inv, SoleSenderInv, [Next]_vars
    PROVE  SoleSenderInv'
<1>1. ASSUME UNCHANGED <<minted, sent>>, ratchets'[Distributor] = ratchets[Distributor]
      PROVE  SoleSenderInv'
  BY <1>1 DEF SoleSenderInv
<1>2. ASSUME NEW p \in Member, NEW w \in wraps \cup damagedWraps, Unwrap(p, w)
      PROVE  SoleSenderInv'
  <2>1. UNCHANGED <<minted, sent>> /\ p # Distributor
    BY <1>2 DEF Unwrap
  <2>2. ratchets' = [ratchets EXCEPT ![p] = Keep(@, NewRatchet(w.epoch, w.sealed.body))]
    BY <1>2 DEF Unwrap
  <2>3. ratchets'[Distributor] = ratchets[Distributor]
    BY <2>1, <2>2, MemberAssumption DEF Inv, TypeOK
  <2> QED  BY <1>1, <2>1, <2>3
<1>3. ASSUME \/ \E p \in Member : \E r \in ratchets[Distributor] : Wrap(p, r)
             \/ \E p \in Member : \E m \in sent \cup damagedMsgs : Receive(p, m)
             \/ DamageWrap \/ DamageMsg \/ Tick \/ UNCHANGED vars
      PROVE  SoleSenderInv'
  <2>1. UNCHANGED <<minted, sent, ratchets>>
    BY <1>3 DEF Wrap, Receive, DamageWrap, DamageMsg, Tick, vars
  <2> QED  BY <1>1, <2>1
<1> QED  BY <1>2, <1>3, StartEpochSoleSender, SendSoleSender DEF Next

\* With one sender that heeds should_rekey, message_index counts the messages
\* of its epoch and epoch_started_at is the birth of the epoch, always.
THEOREM SoleSenderHolds ==
    ASSUME SoleSender
    PROVE  Spec => []SoleSenderInv
<1>1. Inv /\ SoleSenderInv /\ [Next]_vars => SoleSenderInv'
  BY NextSoleSender
<1> QED  BY <1>1, InitSoleSender, InvHolds, PTL DEF Spec

\* No key seals two messages, in any number of epochs, provided a rekey comes
\* before the index wraps around.
THEOREM KeyUniqueHolds ==
    ASSUME SoleSender
    PROVE  Spec => []MessageKeyUnique
<1>1. Inv /\ SoleSenderInv => MessageKeyUnique
  <2> SUFFICES ASSUME Inv, SoleSenderInv, NEW m \in sent, NEW n \in sent,
                      m.sealed.key = n.sealed.key
               PROVE  m = n
    BY DEF MessageKeyUnique
  <2>1. LabelsOrSoleSender
    BY DEF LabelsOrSoleSender, SoleSender
  <2>2. /\ m.epoch \in 0..epoch /\ n.epoch \in 0..epoch
        /\ m.sealed.key = DeriveMessageKey(minted[m.epoch].secret, m.epoch, m.index)
        /\ n.sealed.key = DeriveMessageKey(minted[n.epoch].secret, n.epoch, n.index)
    BY <2>1, SealedSecret
  <2>3. minted[m.epoch].secret = minted[n.epoch].secret /\ U64(m.index) = U64(n.index)
    <3>1. DeriveMessageKey(minted[m.epoch].secret, m.epoch, m.index)
          = DeriveMessageKey(minted[n.epoch].secret, n.epoch, n.index)
      BY <2>2
    <3> QED  BY <3>1, MessageKeyInjective
  <2>4. m.epoch = n.epoch
    BY <2>2, <2>3 DEF Inv, MintedInv
  <2>5. m.index \in 0..(U64Mod - 1) /\ n.index \in 0..(U64Mod - 1)
    BY BoundAssumption DEF Inv, TypeOK, SoleSenderInv, SoleSender
  <2>6. m.index = n.index
    BY <2>3, <2>5, U64Small
  <2> QED  BY <2>4, <2>6 DEF SoleSenderInv
<1> QED  BY <1>1, InvHolds, SoleSenderHolds, PTL

\* An epoch carries at most rekey_msg_bound messages.
THEOREM MsgBoundHolds ==
    ASSUME SoleSender
    PROVE  Spec => []EpochMsgBound
<1>1. Inv /\ SoleSenderInv => EpochMsgBound
  <2> SUFFICES ASSUME Inv, SoleSenderInv, NEW e \in 0..epoch
               PROVE  Cardinality({m \in sent : m.epoch = e}) <= RekeyMsgBound
    BY DEF EpochMsgBound
  <2> DEFINE S == {m \in sent : m.epoch = e}
             T == 0..(RekeyMsgBound - 1)
             index == [m \in S |-> m.index]
  <2>1. RekeyMsgBound \in Nat
    BY BoundAssumption
  <2>2. IsFiniteSet(S)
    BY FS_Subset DEF Inv
  <2>3. IsFiniteSet(T) /\ Cardinality(T) = RekeyMsgBound
    BY <2>1, FS_Interval
  <2>4. index \in [S -> T]
    BY <2>1 DEF Inv, TypeOK, SoleSenderInv
  <2>5. \A m, n \in S : index[m] = index[n] => m = n
    BY DEF SoleSenderInv
  <2> HIDE DEF S, T, index
  <2>6. ~(Cardinality(T) < Cardinality(S))
    BY <2>2, <2>3, <2>4, <2>5, FS_PigeonHole
  <2>7. Cardinality(S) \in Nat
    BY <2>2, FS_CardinalityType
  <2>8. Cardinality(S) <= RekeyMsgBound
    BY <2>1, <2>3, <2>6, <2>7
  <2> QED  BY <2>8 DEF S
<1> QED  BY <1>1, InvHolds, SoleSenderHolds, PTL

\* No message is sealed in an epoch of age rekey_age_seconds or more.
THEOREM AgeBoundHolds ==
    ASSUME SoleSender
    PROVE  Spec => []EpochAgeBound
<1>1. SoleSenderInv => EpochAgeBound
  BY DEF SoleSenderInv, EpochAgeBound
<1> QED  BY <1>1, SoleSenderHolds, PTL

----------------------------------------------------------------------------
(* The refinement. *)

\* Labels can be relied on, or the distributor alone sends and the salt tells
\* all epochs apart.
ChannelAssumption ==
    LabelsIntact \/ (Senders \subseteq {Distributor} /\ MaxEpoch < U64Mod)

\* epoch never exceeds the bound of the model.
LEMMA EpochBounded == Spec => [](epoch <= MaxEpoch)
<1> DEFINE B == epoch \in Nat /\ epoch <= MaxEpoch
<1>1. Init => B
  BY BoundAssumption DEF Init
<1>2. B /\ [Next]_vars => B'
  <2> SUFFICES ASSUME B, [Next]_vars PROVE B'
    OBVIOUS
  <2>1. ASSUME NEW R \in Rosters, StartEpoch(R) PROVE B'
    BY <2>1, BoundAssumption DEF StartEpoch
  <2>2. ASSUME UNCHANGED epoch PROVE B'
    BY <2>2
  <2> QED  BY <2>1, <2>2 DEF Next, Wrap, Unwrap, Send, Receive, DamageWrap, DamageMsg, Tick, vars
<1>3. B => epoch <= MaxEpoch
  OBVIOUS
<1> QED  BY <1>1, <1>2, <1>3, PTL DEF Spec

\* What `receive' returns was sent under the epoch the message carries, to a
\* roster with the receiver in it.
LEMMA ReceiveGenuine ==
    ASSUME ChannelAssumption, Inv, epoch <= MaxEpoch, NEW p \in Member,
           NEW x \in sent \cup damagedMsgs, CanOpen(p, x)
    PROVE  \E m \in sent : /\ x.epoch = m.epoch
                           /\ x.sealed.body = m.sealed.body
                           /\ p \in Readers[m.epoch]
<1>1. LabelsOrSoleSender
  BY DEF ChannelAssumption, LabelsOrSoleSender
<1>2. PICK m \in sent : x.sealed.key = m.sealed.key /\ x.sealed.body = m.sealed.body
  BY DEF Inv, DamagedMsgInv
<1>3. PICK r \in ratchets[p] : /\ r.epoch = x.epoch
                               /\ x.sealed.key = MessageKey(r, x.index)
  BY DEF CanOpen, AesGcmOpens
<1>4. /\ m.epoch \in 0..epoch
      /\ m.sealed.key = DeriveMessageKey(minted[m.epoch].secret, m.epoch, m.index)
  BY <1>1, SealedSecret
<1>5. /\ r.epoch_secret = minted[m.epoch].secret
      /\ U64(x.epoch) = U64(m.epoch)
  <2>1. DeriveMessageKey(r.epoch_secret, x.epoch, x.index)
        = DeriveMessageKey(minted[m.epoch].secret, m.epoch, m.index)
    BY <1>2, <1>3, <1>4 DEF MessageKey
  <2> QED  BY <2>1, MessageKeyInjective
<1>6. PICK e \in 0..epoch : /\ r.epoch_secret = minted[e].secret
                            /\ p \in Readers[e]
                            /\ LabelsIntact \/ p = Distributor => r.epoch = e
  BY DEF Inv, RatchetInv, Entitled
<1>7. e = m.epoch
  BY <1>4, <1>5, <1>6 DEF Inv, MintedInv
<1>8. x.epoch = m.epoch
  <2>1. CASE LabelsIntact
    BY <1>3, <1>6, <1>7, <2>1
  <2>2. CASE MaxEpoch < U64Mod
    <3>1. epoch \in Nat /\ x.epoch \in 0..epoch
      BY DEF Inv, TypeOK
    <3>2. m.epoch \in 0..(U64Mod - 1) /\ x.epoch \in 0..(U64Mod - 1)
      BY <1>4, <2>2, <3>1, BoundAssumption
    <3> QED  BY <1>5, <3>2, U64Small
  <2> QED  BY <2>1, <2>2 DEF ChannelAssumption
<1> QED  BY <1>2, <1>6, <1>7, <1>8

\* The first epoch is a channel with nothing posted.
LEMMA ChannelInit == Init => Channel!Init
<1> SUFFICES ASSUME Init PROVE Channel!Init
  OBVIOUS
<1>1. epoch = 0 /\ sent = {} /\ opened = {}
  BY DEF Init
<1>2. Readers \in [0..0 -> SUBSET Member]
  BY <1>1, MemberAssumption DEF Readers
<1> QED  BY <1>1, <1>2 DEF Channel!Init

\* Every step of the ratchets is a step of the channel or changes nothing there.
LEMMA ChannelStep ==
    ASSUME ChannelAssumption, Inv, epoch <= MaxEpoch, [Next]_vars
    PROVE  [Channel!Next]_(Channel!vars)
<1> DEFINE Posted(S) == {[epoch |-> m.epoch, sender |-> m.sender,
                          body |-> m.sealed.body] : m \in S}
<1>1. ASSUME NEW R \in Rosters, StartEpoch(R) PROVE Channel!Rekey
  <2>1. epoch \in Nat /\ epoch' = epoch + 1 /\ sent' = sent /\ opened' = opened
    BY <1>1 DEF StartEpoch, Inv, TypeOK
  <2>2. \A e \in 0..epoch : minted'[e] = minted[e]
    BY <1>1, StartEpochMinted
  <2>3. minted'[epoch + 1].roster \in SUBSET Member
    <3>1. R \in SUBSET Member
      BY DEF Rosters
    <3>2. minted'[epoch + 1] = [secret |-> drawn, roster |-> R, at |-> now]
      BY <1>1, StartEpochMinted
    <3> QED  BY <3>1, <3>2
  <2>4. Readers' = [e \in 0..(epoch + 1) |->
                      IF e \in 0..epoch THEN Readers[e]
                      ELSE minted'[epoch + 1].roster \cap (KeyHolders \cup {Distributor})]
    BY <2>1, <2>2 DEF Readers
  <2> QED  BY <2>1, <2>3, <2>4 DEF Channel!Rekey
<1>2. ASSUME NEW p \in Member, NEW r \in ratchets[p], Send(p, r)
      PROVE  \E e \in 0..epoch, b \in 0..(MaxSent - 1) : Channel!Post(p, e, b)
  <2>1. /\ UNCHANGED <<epoch, minted, opened>>
        /\ sent' = sent \cup {SealMessage(p, r, Cardinality(sent))}
        /\ p \in Senders
        /\ Cardinality(sent) < MaxSent
    BY <1>2 DEF Send
  <2>2. Cardinality(sent) \in 0..(MaxSent - 1)
    BY <2>1, FS_CardinalityType, BoundAssumption DEF Inv
  <2>3. r.epoch \in 0..epoch /\ p \in Readers[r.epoch]
    BY <2>1 DEF Inv, RatchetInv, Entitled, ChannelAssumption
  <2>4. Posted(sent') = Posted(sent) \cup {[epoch |-> r.epoch, sender |-> p,
                                            body |-> Cardinality(sent)]}
    <3>1. /\ SealMessage(p, r, Cardinality(sent)).epoch = r.epoch
          /\ SealMessage(p, r, Cardinality(sent)).sender = p
          /\ SealMessage(p, r, Cardinality(sent)).sealed.body = Cardinality(sent)
      BY DEF SealMessage, AesGcmEncrypt
    <3> QED  BY <2>1, <3>1
  <2>5. Readers' = Readers
    BY <2>1 DEF Readers
  <2> QED  BY <2>1, <2>2, <2>3, <2>4, <2>5 DEF Channel!Post
<1>3. ASSUME NEW p \in Member, NEW x \in sent \cup damagedMsgs, Receive(p, x)
      PROVE  \E m \in Posted(sent) : Channel!Read(p, m)
  <2>1. /\ UNCHANGED <<epoch, minted, sent>>
        /\ CanOpen(p, x)
        /\ opened' = opened \cup {[to |-> p, epoch |-> x.epoch, body |-> x.sealed.body]}
    BY <1>3 DEF Receive
  <2>2. PICK m \in sent : /\ x.epoch = m.epoch
                          /\ x.sealed.body = m.sealed.body
                          /\ p \in Readers[m.epoch]
    BY <2>1, ReceiveGenuine
  <2>3. Readers' = Readers
    BY <2>1 DEF Readers
  <2> QED  BY <2>1, <2>2, <2>3 DEF Channel!Read
<1>4. ASSUME UNCHANGED <<epoch, minted, sent, opened>> PROVE UNCHANGED Channel!vars
  BY <1>4 DEF Channel!vars, Readers
<1>5. ASSUME \/ \E p \in Member : \E r \in ratchets[Distributor] : Wrap(p, r)
             \/ \E p \in Member : \E w \in wraps \cup damagedWraps : Unwrap(p, w)
             \/ DamageWrap \/ DamageMsg \/ Tick \/ UNCHANGED vars
      PROVE  UNCHANGED <<epoch, minted, sent, opened>>
  BY <1>5 DEF Wrap, Unwrap, DamageWrap, DamageMsg, Tick, vars
<1> QED  BY <1>1, <1>2, <1>3, <1>4, <1>5 DEF Next, Channel!Next

\* The ratchets implement the channel: what a member reads was posted, in that
\* epoch, to it.
THEOREM ChannelImplemented ==
    ASSUME ChannelAssumption
    PROVE  Spec => ImplementsChannel
<1>1. Inv /\ epoch <= MaxEpoch /\ [Next]_vars => [Channel!Next]_(Channel!vars)
  BY ChannelStep
<1> QED  BY <1>1, ChannelInit, InvHolds, EpochBounded, PTL
         DEF Spec, ImplementsChannel, Channel!Spec

============================================================================
