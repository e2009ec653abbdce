----------------------------- MODULE PqDmProofs -----------------------------
(* Theorems about PqDm, for every value of its constants. *)
EXTENDS PqDm, PqKemProofs, FiniteSetTheorems

----------------------------------------------------------------------------
(* The inductive invariant. *)

\* The blob of attempt s to prekey k after the network has had it: cut or not,
\* its legs and body intact (i, j, l) or not.
CopyOf(s, k, cut, i, j, l) ==
    [ct     |-> [x25519 |-> [eph |-> <<s.body>>, intact |-> i],
                 mlkem  |-> [pub |-> k, coins |-> <<s.body>>, intact |-> j]],
     sealed |-> [key    |-> WrapKey(HybridEncap(k, <<s.body>>),
                                    DowngradeLockAad(HYBRID_SUITE, s.context)),
                 body   |-> s.body,
                 aad    |-> DowngradeLockAad(HYBRID_SUITE, s.context),
                 intact |-> l],
     short  |-> cut,
     key    |-> k]

Original(s, k) == CopyOf(s, k, FALSE, TRUE, TRUE, TRUE)

IsSpoilt(d, s, k) ==
    \E cut \in BOOLEAN, i \in BOOLEAN, j \in BOOLEAN, l \in BOOLEAN :
      (cut \/ ~i \/ ~j \/ ~l) /\ d = CopyOf(s, k, cut, i, j, l)

\* Whatever the record lost, it names no prekey but one that was generated; so
\* does the sender's bundle, however old.
KeysInv ==
    {FromDict(directory).hybrid_public_hex, bundle.hybrid_public_hex} \subseteq
      generated \cup {NoHex, BadHex}

\* Attempts are numbered one after another; the recorded suite decides the path.
SendsInv ==
    /\ IsFiniteSet(sends)
    /\ \A s \in sends : /\ s.body < Cardinality(sends) /\ s.body < MaxSends
                        /\ s.outcome = "sealed" => s.recorded = HYBRID_SUITE
                        /\ (s.outcome = "classical") <=> (s.recorded = CLASSICAL_SUITE)
    /\ \A s, t \in sends : s.body = t.body => s = t

\* Each sealed attempt has one blob, to a generated prekey, and there are no others.
BlobsInv ==
    /\ \A b \in blobs : \E s \in sends, k \in generated :
         s.outcome = "sealed" /\ b = Original(s, k)
    /\ \A s \in sends : s.outcome = "sealed" => \E b \in blobs : b.sealed.body = s.body
    /\ \A b, c \in blobs : b.sealed.body = c.sealed.body => b = c

DamagedInv == \A d \in damaged : \E s \in sends, k \in generated :
                s.outcome = "sealed" /\ IsSpoilt(d, s, k)

OpensInv ==
    \A o \in opens : /\ o.blob \in blobs \cup damaged
                     /\ o.key \in generated /\ o.context \in Context
                     /\ o.expected \in Suite /\ o.backend \in BOOLEAN
                     /\ o.raised = OpenRaises(o.blob, o.key, o.context, o.expected,
                                              o.backend)

Inv == TypeOK /\ KeysInv /\ SendsInv /\ BlobsInv /\ DamagedInv /\ OpensInv

----------------------------------------------------------------------------
(* Facts about the functions of the module. *)

\* The two suites are told apart.
LEMMA TwoSuites == HYBRID_SUITE # CLASSICAL_SUITE
BY DEF HYBRID_SUITE, CLASSICAL_SUITE, SUITE_ID

\* What seal returns, if it does: the prekey of the bundle was published.
LEMMA SealIsOriginal ==
    ASSUME NEW b, NEW s
    PROVE  Seal(s.body, b, s.context) = Original(s, b.hybrid_public_hex)
BY DEF Seal, Original, CopyOf, Ciphertext, AesGcmEncrypt

\* The record decides between seal and the classical path; an error of seal is
\* neither.
LEMMA OutcomeCases ==
    ASSUME NEW suite \in Suite, NEW b, NEW backend \in BOOLEAN
    PROVE  /\ Outcome(suite, b, backend) \in Raised \cup {"sealed", "classical"}
           /\ Outcome(suite, b, backend) = "sealed" =>
                suite = HYBRID_SUITE /\ b.hybrid_public_hex \notin {NoHex, BadHex}
           /\ (Outcome(suite, b, backend) = "classical") <=> (suite = CLASSICAL_SUITE)
<1>1. SealRaises(b, backend) \in {"none", "PqDmFormatError", "PqKemUnavailable"}
  BY DEF SealRaises
<1>2. SealRaises(b, backend) = "none" => b.hybrid_public_hex \notin {NoHex, BadHex}
  BY DEF SealRaises, HasHybridPublic
<1>3. CASE suite = CLASSICAL_SUITE
  BY <1>3, TwoSuites DEF Outcome
<1>4. CASE suite = HYBRID_SUITE /\ SealRaises(b, backend) = "none"
  BY <1>2, <1>4, TwoSuites DEF Outcome
<1>5. CASE suite = HYBRID_SUITE /\ SealRaises(b, backend) # "none"
  <2>1. Outcome(suite, b, backend) = SealRaises(b, backend)
    BY <1>5, TwoSuites DEF Outcome
  <2> QED  BY <1>1, <1>5, <2>1, TwoSuites DEF Raised
<1> QED  BY <1>3, <1>4, <1>5 DEF Suite

\* The parts of a blob as seal returned it.
LEMMA OriginalParts ==
    ASSUME NEW s, NEW k
    PROVE  /\ Original(s, k).sealed.body = s.body
           /\ Original(s, k).sealed.aad = DowngradeLockAad(HYBRID_SUITE, s.context)
           /\ Original(s, k).key = k
           /\ Original(s, k).short = FALSE
BY DEF Original, CopyOf

\* A damaged copy keeps body and addressee and is no original.
LEMMA SpoiltParts ==
    ASSUME NEW d, NEW s, NEW k, IsSpoilt(d, s, k)
    PROVE  /\ d.sealed.body = s.body
           /\ d.key = k
           /\ d.short \in BOOLEAN
           /\ \A t, m : d # Original(t, m)
<1>1. PICK cut \in BOOLEAN, i \in BOOLEAN, j \in BOOLEAN, l \in BOOLEAN :
        (cut \/ ~i \/ ~j \/ ~l) /\ d = CopyOf(s, k, cut, i, j, l)
  BY DEF IsSpoilt
<1>2. d.sealed.body = s.body /\ d.key = k /\ d.short = cut
  BY <1>1 DEF CopyOf
<1>3. /\ d.ct.x25519.intact = i /\ d.ct.mlkem.intact = j /\ d.sealed.intact = l
  BY <1>1 DEF CopyOf
<1>4. ASSUME NEW t, NEW m PROVE d # Original(t, m)
  <2>1. /\ Original(t, m).short = FALSE
        /\ Original(t, m).ct.x25519.intact = TRUE
        /\ Original(t, m).ct.mlkem.intact = TRUE
        /\ Original(t, m).sealed.intact = TRUE
    BY DEF Original, CopyOf
  <2> QED  BY <1>1, <1>2, <1>3, <2>1
<1> QED  BY <1>2, <1>4

\* The damage of transit spoils a blob.
LEMMA DamageSpoils ==
    ASSUME NEW s, NEW k, NEW b, b = Original(s, k)
    PROVE  /\ IsSpoilt([b EXCEPT !.ct.x25519.intact = FALSE], s, k)
           /\ IsSpoilt([b EXCEPT !.ct.mlkem.intact = FALSE], s, k)
           /\ IsSpoilt([b EXCEPT !.sealed.intact = FALSE], s, k)
           /\ IsSpoilt([b EXCEPT !.short = TRUE], s, k)
<1>1. \E cut \in BOOLEAN, i \in BOOLEAN, j \in BOOLEAN, l \in BOOLEAN :
        b = CopyOf(s, k, cut, i, j, l)
  BY DEF Original
<1>2. PICK cut \in BOOLEAN, i \in BOOLEAN, j \in BOOLEAN, l \in BOOLEAN :
        b = CopyOf(s, k, cut, i, j, l)
  BY <1>1
<1>3. /\ [b EXCEPT !.ct.x25519.intact = FALSE] = CopyOf(s, k, cut, FALSE, j, l)
      /\ [b EXCEPT !.ct.mlkem.intact = FALSE] = CopyOf(s, k, cut, i, FALSE, l)
      /\ [b EXCEPT !.sealed.intact = FALSE] = CopyOf(s, k, cut, i, j, FALSE)
      /\ [b EXCEPT !.short = TRUE] = CopyOf(s, k, TRUE, i, j, l)
  <2> DEFINE leg(v) == [eph |-> <<s.body>>, intact |-> v]
             kem(v) == [pub |-> k, coins |-> <<s.body>>, intact |-> v]
             aad    == DowngradeLockAad(HYBRID_SUITE, s.context)
             key    == WrapKey(HybridEncap(k, <<s.body>>), aad)
             box(v) == [key |-> key, body |-> s.body, aad |-> aad, intact |-> v]
             ct0    == [x25519 |-> leg(i), mlkem |-> kem(j)]
  <2>1. b = [ct |-> ct0, sealed |-> box(l), short |-> cut, key |-> k]
    BY <1>2 DEF CopyOf
  <2>2. b.ct = ct0 /\ b.sealed = box(l)
    BY <2>1
  <2>3. /\ [b.ct EXCEPT !.x25519.intact = FALSE] = [x25519 |-> leg(FALSE), mlkem |-> kem(j)]
        /\ [b.ct EXCEPT !.mlkem.intact = FALSE] = [x25519 |-> leg(i), mlkem |-> kem(FALSE)]
    <3>1. \A ct : ct = [x25519 |-> leg(i), mlkem |-> kem(j)] =>
            /\ [ct EXCEPT !.x25519.intact = FALSE] = [x25519 |-> leg(FALSE), mlkem |-> kem(j)]
            /\ [ct EXCEPT !.mlkem.intact = FALSE] = [x25519 |-> leg(i), mlkem |-> kem(FALSE)]
      BY SpoiltCiphertext
    <3> QED  BY <2>2, <3>1, Zenon
  <2>4. [b.sealed EXCEPT !.intact = FALSE] = box(FALSE)
    <3>1. \A x, v : x = [key |-> key, body |-> s.body, aad |-> aad, intact |-> l] =>
            [x EXCEPT !.intact = v] = [key |-> key, body |-> s.body, aad |-> aad, intact |-> v]
      BY SetBox
    <3> QED  BY <2>2, <3>1, Zenon
  <2> HIDE DEF leg, kem, aad, key, box, ct0
  <2>5. \A v : [b EXCEPT !.ct = v] = [ct |-> v, sealed |-> box(l), short |-> cut, key |-> k]
    BY <2>1
  <2>6. \A v : [b EXCEPT !.sealed = v] = [ct |-> ct0, sealed |-> v, short |-> cut, key |-> k]
    BY <2>1
  <2>7. \A v : [b EXCEPT !.short = v] = [ct |-> ct0, sealed |-> box(l), short |-> v, key |-> k]
    BY <2>1
  <2>8. /\ [b EXCEPT !.ct.x25519.intact = FALSE] =
             [ct |-> [x25519 |-> leg(FALSE), mlkem |-> kem(j)], sealed |-> box(l),
              short |-> cut, key |-> k]
        /\ [b EXCEPT !.ct.mlkem.intact = FALSE] =
             [ct |-> [x25519 |-> leg(i), mlkem |-> kem(FALSE)], sealed |-> box(l),
              short |-> cut, key |-> k]
        /\ [b EXCEPT !.sealed.intact = FALSE] =
             [ct |-> ct0, sealed |-> box(FALSE), short |-> cut, key |-> k]
        /\ [b EXCEPT !.short = TRUE] =
             [ct |-> ct0, sealed |-> box(l), short |-> TRUE, key |-> k]
    BY <2>3, <2>4, <2>5, <2>6, <2>7, Zenon
  <2> QED  BY <2>8 DEF CopyOf, leg, kem, aad, key, box, ct0
<1>4. /\ IsSpoilt(CopyOf(s, k, cut, FALSE, j, l), s, k)
      /\ IsSpoilt(CopyOf(s, k, cut, i, FALSE, l), s, k)
      /\ IsSpoilt(CopyOf(s, k, cut, i, j, FALSE), s, k)
      /\ IsSpoilt(CopyOf(s, k, TRUE, i, j, l), s, k)
  BY DEF IsSpoilt
<1> QED  BY <1>3, <1>4, Zenon

\* open_sealed returns only what is whole, with the prekey it was sealed to, for
\* the parties and the suite it was sealed under.
LEMMA OpensWhole ==
    ASSUME NEW s, NEW k, NEW cut \in BOOLEAN, NEW i \in BOOLEAN, NEW j \in BOOLEAN,
           NEW l \in BOOLEAN, NEW b, b = CopyOf(s, k, cut, i, j, l),
           NEW private, NEW context, NEW suite, NEW backend \in BOOLEAN
    PROVE  OpenRaises(b, private, context, suite, backend) = "none" <=>
             /\ ~cut /\ i /\ j /\ l
             /\ private = k /\ context = s.context /\ suite = HYBRID_SUITE /\ backend
<1> DEFINE aad  == DowngradeLockAad(suite, context)
           aad0 == DowngradeLockAad(HYBRID_SUITE, s.context)
           key  == WrapKey(HybridDecap(b.ct, private), aad)
           key0 == WrapKey(HybridEncap(k, <<s.body>>), aad0)
<1>1. /\ b.short = cut
      /\ b.sealed.key = key0 /\ b.sealed.aad = aad0 /\ b.sealed.intact = l
  BY DEF CopyOf
<1>2. /\ b.ct.x25519 = [eph |-> <<s.body>>, intact |-> i]
      /\ b.ct.mlkem = [pub |-> k, coins |-> <<s.body>>, intact |-> j]
  BY DEF CopyOf
<1>3. OpenRaises(b, private, context, suite, backend) = "none" <=>
        ~b.short /\ backend /\ AesGcmOpens(key, b.sealed, aad)
  BY <1>1 DEF OpenRaises
<1>4. ASSUME AesGcmOpens(key, b.sealed, aad)
      PROVE  /\ i /\ j /\ l
             /\ private = k /\ context = s.context /\ suite = HYBRID_SUITE
  <2>1. l /\ key = key0 /\ aad = aad0
    BY <1>1, <1>4 DEF AesGcmOpens
  <2>2. suite = HYBRID_SUITE /\ context = s.context
    BY <2>1 DEF DowngradeLockAad
  <2>3. HybridDecap(b.ct, private) = HybridEncap(k, <<s.body>>)
    <3>1. key.ikm = HybridDecap(b.ct, private) /\ key0.ikm = HybridEncap(k, <<s.body>>)
      BY DEF WrapKey, HKDF
    <3> HIDE DEF key, key0
    <3> QED  BY <2>1, <3>1
  <2>4. /\ private = k
        /\ b.ct.mlkem = Ciphertext(k, <<s.body>>).mlkem
        /\ b.ct.x25519 = Ciphertext(k, <<s.body>>).x25519
    BY <2>3, DecapExact
  <2>5. i = TRUE /\ j = TRUE
    BY <1>2, <2>4 DEF Ciphertext
  <2> QED  BY <2>1, <2>2, <2>4, <2>5
<1>5. ASSUME i, j, l, private = k, context = s.context, suite = HYBRID_SUITE
      PROVE  AesGcmOpens(key, b.sealed, aad)
  <2>1. b.ct = Ciphertext(k, <<s.body>>)
    BY <1>5 DEF CopyOf, Ciphertext
  <2>2. HybridDecap(b.ct, private) = HybridEncap(k, <<s.body>>)
    BY <1>5, <2>1, DecapEncap
  <2> QED  BY <1>1, <1>5, <2>2 DEF AesGcmOpens
<1> QED  BY <1>1, <1>3, <1>4, <1>5

----------------------------------------------------------------------------
(* The invariant is inductive. *)

\* At the start nothing was sealed and the sender holds the classical bundle.
LEMMA InitInv == Init => Inv
<1> SUFFICES ASSUME Init PROVE Inv
  OBVIOUS
<1>1. FromDict(ClassicalBundle) = ClassicalBundle
  BY DEF FromDict, FieldOf, ClassicalBundle
<1>2. FromDict(directory) = ClassicalBundle /\ bundle = ClassicalBundle
  BY <1>1 DEF Init, ToDict
<1>3. ClassicalBundle \in Bundle /\ ClassicalBundle.hybrid_public_hex = NoHex
  BY DEF ClassicalBundle, Bundle, Suite, Hex
<1>4. DOMAIN directory \subseteq {"suite", "hybrid_public_hex"}
  BY DEF Init, ToDict, ClassicalBundle
<1>5. TypeOK
  BY <1>2, <1>3, <1>4 DEF Init, TypeOK, Suite
<1>6. KeysInv
  BY <1>2, <1>3 DEF KeysInv
<1>7. SendsInv
  BY FS_EmptySet DEF Init, SendsInv
<1>8. BlobsInv /\ DamagedInv /\ OpensInv
  BY DEF Init, BlobsInv, DamagedInv, OpensInv
<1> QED  BY <1>5, <1>6, <1>7, <1>8 DEF Inv

\* A step that sends nothing, damages nothing and opens nothing disturbs none of
\* the histories, whatever keys come and go.
LEMMA HistoryStands ==
    ASSUME Inv, UNCHANGED <<sends, blobs, damaged, opens>>, generated \subseteq generated',
           TypeOK', KeysInv'
    PROVE  Inv'
<1>1. SendsInv' /\ BlobsInv' /\ DamagedInv' /\ OpensInv'
  BY DEF Inv, SendsInv, BlobsInv, DamagedInv, OpensInv
<1> QED  BY <1>1 DEF Inv

\* What the record loses reads as a classical bundle's.
LEMMA FromDictTolerant ==
    ASSUME NEW data, NEW other,
           DOMAIN other \subseteq DOMAIN data,
           FromDict(data) \in Bundle,
           \A g \in DOMAIN other : other[g] = data[g] \/ (g = "hybrid_public_hex" /\ other[g] = BadHex)
    PROVE  /\ FromDict(other) \in Bundle
           /\ FromDict(other).hybrid_public_hex \in {FromDict(data).hybrid_public_hex, NoHex, BadHex}
<1>1. /\ FromDict(data).suite \in Suite
      /\ FromDict(data).hybrid_public_hex \in Hex
  BY DEF Bundle
<1>2. /\ FromDict(other).suite = FieldOf(other, "suite", CLASSICAL_SUITE)
      /\ FromDict(other).hybrid_public_hex = FieldOf(other, "hybrid_public_hex", NoHex)
      /\ FromDict(data).suite = FieldOf(data, "suite", CLASSICAL_SUITE)
      /\ FromDict(data).hybrid_public_hex = FieldOf(data, "hybrid_public_hex", NoHex)
  BY DEF FromDict
<1>3. FromDict(other).suite \in {FromDict(data).suite, CLASSICAL_SUITE}
  BY <1>2 DEF FieldOf
<1>4. FromDict(other).hybrid_public_hex \in {FromDict(data).hybrid_public_hex, NoHex, BadHex}
  BY <1>2 DEF FieldOf
<1>5. FromDict(other) = [suite |-> FromDict(other).suite,
                         hybrid_public_hex |-> FromDict(other).hybrid_public_hex]
  BY DEF FromDict
<1>6. CLASSICAL_SUITE \in Suite /\ NoHex \in Hex /\ BadHex \in Hex
  BY DEF Suite, Hex
<1>7. FromDict(other).suite \in Suite /\ FromDict(other).hybrid_public_hex \in Hex
  BY <1>1, <1>3, <1>4, <1>6
<1> HIDE DEF FromDict
<1>8. FromDict(other) \in Bundle
  BY <1>5, <1>7 DEF Bundle
<1> QED  BY <1>4, <1>8

\* What the recipient does to keys and record does not touch what was sealed.
LEMMA RecipientStep ==
    ASSUME Inv, (\E k \in Key : Rotate(k) \/ Erase(k)) \/ Withdraw \/ Fetch
    PROVE  Inv'
<1>1. CASE \E k \in Key : Rotate(k)
  <2>1. PICK k \in Key : Rotate(k)
    BY <1>1
  <2>2. /\ generated' = generated \cup {k} /\ held' = held \cup {k}
        /\ expected' = HYBRID_SUITE
        /\ directory' = [suite |-> HYBRID_SUITE, hybrid_public_hex |-> k]
        /\ UNCHANGED <<bundle, recorded, liboqs, sends, blobs, damaged, opens>>
    BY <2>1 DEF Rotate, ToDict
  <2>3. /\ FromDict(directory') = [suite |-> HYBRID_SUITE, hybrid_public_hex |-> k]
        /\ DOMAIN directory' = {"suite", "hybrid_public_hex"}
    BY <2>2 DEF FromDict, FieldOf
  <2>4. FromDict(directory') \in Bundle /\ FromDict(directory').hybrid_public_hex = k
    BY <2>3 DEF Bundle, Suite, Hex
  <2>5. TypeOK'
    BY <2>2, <2>3, <2>4 DEF Inv, TypeOK, Suite
  <2>6. KeysInv'
    BY <2>2, <2>4 DEF Inv, KeysInv
  <2> QED  BY <2>2, <2>5, <2>6, HistoryStands
<1>2. CASE \E k \in Key : Erase(k)
  <2>1. /\ UNCHANGED <<generated, expected, directory, bundle, recorded, liboqs, sends,
                       blobs, damaged, opens>>
        /\ held' \subseteq held
    BY <1>2 DEF Erase
  <2>2. TypeOK' /\ KeysInv'
    BY <2>1 DEF Inv, TypeOK, KeysInv
  <2> QED  BY <2>1, <2>2, HistoryStands
<1>3. CASE Withdraw
  <2>1. /\ UNCHANGED <<generated, held, bundle, recorded, liboqs, sends, blobs, damaged,
                       opens>>
        /\ expected' = CLASSICAL_SUITE
        /\ directory' = ClassicalBundle
    BY <1>3 DEF Withdraw, ToDict
  <2>2. /\ FromDict(directory') = ClassicalBundle
        /\ DOMAIN directory' = {"suite", "hybrid_public_hex"}
    BY <2>1 DEF FromDict, FieldOf, ClassicalBundle
  <2>3. FromDict(directory') \in Bundle /\ FromDict(directory').hybrid_public_hex = NoHex
    BY <2>2 DEF ClassicalBundle, Bundle, Suite, Hex
  <2>4. TypeOK'
    BY <2>1, <2>2, <2>3 DEF Inv, TypeOK, Suite
  <2>5. KeysInv'
    BY <2>1, <2>3 DEF Inv, KeysInv
  <2> QED  BY <2>1, <2>4, <2>5, HistoryStands
<1>4. CASE Fetch
  <2>1. /\ bundle' = FromDict(directory)
        /\ UNCHANGED <<generated, held, expected, directory, recorded, liboqs, sends,
                       blobs, damaged, opens>>
    BY <1>4 DEF Fetch
  <2>2. TypeOK' /\ KeysInv'
    BY <2>1 DEF Inv, TypeOK, KeysInv
  <2> QED  BY <2>1, <2>2, HistoryStands
<1> QED  BY <1>1, <1>2, <1>3, <1>4

\* Nor do a garbled record, a negotiation or a backend that comes and goes.
LEMMA SurroundingsStep ==
    ASSUME Inv, Garble \/ Negotiate \/ \E side \in {"sender", "recipient"} : Switch(side)
    PROVE  Inv'
<1>1. CASE Garble
  <2>1. UNCHANGED <<generated, held, expected, bundle, recorded, liboqs, sends, blobs,
                    damaged, opens>>
    BY <1>1 DEF Garble
  <2>2. /\ DOMAIN directory' \subseteq DOMAIN directory
        /\ \A g \in DOMAIN directory' :
             \/ directory'[g] = directory[g]
             \/ g = "hybrid_public_hex" /\ directory'[g] = BadHex
    <3>1. CASE \E f \in DOMAIN directory :
                 directory' = [g \in DOMAIN directory \ {f} |-> directory[g]]
      BY <3>1
    <3>2. CASE directory' = [directory EXCEPT !.hybrid_public_hex = BadHex]
      BY <3>2
    <3> QED  BY <1>1, <3>1, <3>2 DEF Garble
  <2>3. /\ FromDict(directory') \in Bundle
        /\ FromDict(directory').hybrid_public_hex \in
             {FromDict(directory).hybrid_public_hex, NoHex, BadHex}
    BY <2>2, FromDictTolerant DEF Inv, TypeOK
  <2>4. TypeOK' /\ KeysInv'
    BY <2>1, <2>2, <2>3 DEF Inv, TypeOK, KeysInv
  <2> QED  BY <2>1, <2>4, HistoryStands
<1>2. CASE Negotiate
  <2>1. /\ recorded' \in Suite
        /\ UNCHANGED <<generated, held, expected, directory, bundle, liboqs, sends, blobs,
                       damaged, opens>>
    BY <1>2 DEF Negotiate, NegotiateSuite, Suite
  <2>2. TypeOK' /\ KeysInv'
    BY <2>1 DEF Inv, TypeOK, KeysInv
  <2> QED  BY <2>1, <2>2, HistoryStands
<1>3. CASE \E side \in {"sender", "recipient"} : Switch(side)
  <2>1. /\ liboqs' \in [{"sender", "recipient"} -> BOOLEAN]
        /\ UNCHANGED <<generated, held, expected, directory, bundle, recorded, sends,
                       blobs, damaged, opens>>
    BY <1>3 DEF Switch, Inv, TypeOK
  <2>2. TypeOK' /\ KeysInv'
    BY <2>1 DEF Inv, TypeOK, KeysInv
  <2> QED  BY <2>1, <2>2, HistoryStands
<1> QED  BY <1>1, <1>2, <1>3

\* Damage adds a spoilt copy of a blob that was sent.
LEMMA DamageStep ==
    ASSUME Inv, Damage
    PROVE  Inv'
<1>1. PICK b \in blobs : \E x \in {[b EXCEPT !.ct.x25519.intact = FALSE],
                                   [b EXCEPT !.ct.mlkem.intact = FALSE],
                                   [b EXCEPT !.sealed.intact = FALSE],
                                   [b EXCEPT !.short = TRUE]} :
                             damaged' = damaged \cup {x}
  BY Zenon DEF Damage
<1>2. UNCHANGED <<generated, held, expected, directory, bundle, recorded, liboqs,
                  sends, blobs, opens>>
  BY DEF Damage
<1>3. PICK s \in sends, k \in generated : s.outcome = "sealed" /\ b = Original(s, k)
  BY DEF Inv, BlobsInv
<1>4. \E x : damaged' = damaged \cup {x} /\ IsSpoilt(x, s, k)
  <2>1. /\ IsSpoilt([b EXCEPT !.ct.x25519.intact = FALSE], s, k)
        /\ IsSpoilt([b EXCEPT !.ct.mlkem.intact = FALSE], s, k)
        /\ IsSpoilt([b EXCEPT !.sealed.intact = FALSE], s, k)
        /\ IsSpoilt([b EXCEPT !.short = TRUE], s, k)
    BY <1>3, DamageSpoils, Zenon
  <2> QED  BY <1>1, <2>1, Zenon
<1>5. PICK x : damaged' = damaged \cup {x} /\ IsSpoilt(x, s, k)
  BY <1>4
<1>6. x.key \in Key /\ x.short \in BOOLEAN
  BY <1>5, SpoiltParts DEF Inv, TypeOK
<1>7. TypeOK'
  BY <1>2, <1>5, <1>6 DEF Inv, TypeOK
<1>8. KeysInv' /\ SendsInv' /\ BlobsInv'
  BY <1>2 DEF Inv, KeysInv, SendsInv, BlobsInv
<1>9. DamagedInv'
  BY <1>2, <1>3, <1>5 DEF Inv, DamagedInv
<1>10. OpensInv'
  BY <1>2, <1>5 DEF Inv, OpensInv
<1> QED  BY <1>7, <1>8, <1>9, <1>10 DEF Inv

\* open_sealed records its own outcome and nothing else.
LEMMA OpenStep ==
    ASSUME Inv, NEW blob \in blobs \cup damaged, NEW k \in held, NEW c \in Context,
           Open(blob, k, c)
    PROVE  Inv'
<1> DEFINE new == [blob |-> blob, key |-> k, context |-> c, expected |-> expected,
                   backend |-> liboqs["recipient"],
                   raised |-> OpenRaises(blob, k, c, expected, liboqs["recipient"])]
<1>1. /\ opens' = opens \cup {new}
      /\ UNCHANGED <<generated, held, expected, directory, bundle, recorded, liboqs,
                     sends, blobs, damaged>>
  BY DEF Open
<1>2. /\ new.blob = blob /\ new.key = k /\ new.context = c /\ new.expected = expected
      /\ new.backend = liboqs["recipient"]
      /\ new.raised = OpenRaises(blob, k, c, expected, liboqs["recipient"])
  OBVIOUS
<1>3. expected \in Suite /\ liboqs["recipient"] \in BOOLEAN /\ k \in generated
  BY DEF Inv, TypeOK
<1>4. new.raised \in Raised
  <2>1. blob.short \in BOOLEAN
    BY DEF Inv, TypeOK
  <2> QED  BY <1>2, <1>3, <2>1 DEF OpenRaises, Raised
<1> HIDE DEF new
<1>5. OpensInv'
  BY <1>1, <1>2, <1>3 DEF Inv, OpensInv
<1>6. TypeOK'
  BY <1>1, <1>4 DEF Inv, TypeOK
<1>7. KeysInv' /\ SendsInv' /\ BlobsInv' /\ DamagedInv'
  BY <1>1 DEF Inv, KeysInv, SendsInv, BlobsInv, DamagedInv
<1> QED  BY <1>5, <1>6, <1>7 DEF Inv

\* An attempt takes the next number and, if it was sealed, leaves one blob.
LEMMA SendStep ==
    ASSUME Inv, NEW c \in Context, Send(c)
    PROVE  Inv'
<1> DEFINE n       == Cardinality(sends)
           outcome == Outcome(recorded, bundle, liboqs["sender"])
           new     == [body |-> n, context |-> c, recorded |-> recorded, outcome |-> outcome]
           pub     == bundle.hybrid_public_hex
<1>1. /\ recorded # NotNegotiated /\ n < MaxSends
      /\ sends' = sends \cup {new}
      /\ blobs' = blobs \cup (IF outcome = "sealed" THEN {Seal(n, bundle, c)} ELSE {})
      /\ UNCHANGED <<generated, held, expected, directory, bundle, recorded, liboqs,
                     damaged, opens>>
  BY DEF Send
<1>2. n \in Nat /\ IsFiniteSet(sends)
  BY FS_CardinalityType DEF Inv, SendsInv
<1>3. recorded \in Suite /\ liboqs["sender"] \in BOOLEAN
  BY <1>1 DEF Inv, TypeOK
<1>4. /\ outcome \in Raised \cup {"sealed", "classical"}
      /\ outcome = "sealed" => recorded = HYBRID_SUITE /\ pub \notin {NoHex, BadHex}
      /\ (outcome = "classical") <=> (recorded = CLASSICAL_SUITE)
  BY <1>3, OutcomeCases
<1> HIDE DEF outcome
<1>5. /\ new.body = n /\ new.context = c /\ new.recorded = recorded
      /\ new.outcome = outcome
  OBVIOUS
<1>6. new \in [body : Nat, context : Context, recorded : Suite,
               outcome : Raised \cup {"sealed", "classical"}]
  BY <1>2, <1>3, <1>4
<1> HIDE DEF new
<1>7. \A s \in sends : s.body \in Nat /\ s.body < n
  BY DEF Inv, TypeOK, SendsInv
<1>8. new \notin sends
  BY <1>2, <1>5, <1>7
<1>9. IsFiniteSet(sends') /\ Cardinality(sends') = n + 1
  BY <1>1, <1>2, <1>8, FS_AddElement
<1> HIDE DEF n
<1>10. SendsInv'
  <2>1. \A s \in sends' : /\ s.body < Cardinality(sends') /\ s.body < MaxSends
                          /\ s.outcome = "sealed" => s.recorded = HYBRID_SUITE
                          /\ (s.outcome = "classical") <=> (s.recorded = CLASSICAL_SUITE)
    <3>1. CASE sends = {}
      BY <1>1, <1>2, <1>4, <1>5, <1>9, <3>1
    <3> QED  BY <1>1, <1>2, <1>4, <1>5, <1>7, <1>9 DEF Inv, SendsInv
  <2>2. \A s, t \in sends' : s.body = t.body => s = t
    BY <1>1, <1>2, <1>5, <1>7 DEF Inv, SendsInv
  <2> QED  BY <1>9, <2>1, <2>2 DEF SendsInv
<1>11. Seal(n, bundle, c) = Original(new, pub)
  BY <1>5, SealIsOriginal
<1>12. outcome = "sealed" => pub \in generated
  BY <1>4 DEF Inv, KeysInv
<1>13. \A b \in blobs' : b \in blobs \/ (outcome = "sealed" /\ b = Original(new, pub))
  BY <1>1, <1>11
<1>14. /\ blobs \subseteq blobs' /\ sends \subseteq sends' /\ new \in sends'
       /\ outcome = "sealed" => Original(new, pub) \in blobs'
  BY <1>1, <1>11
<1>15. Original(new, pub).sealed.body = n
  BY <1>5, OriginalParts
<1>16. ASSUME NEW b \in blobs
       PROVE  b.sealed.body \in Nat /\ b.sealed.body < n
  <2>1. PICK s \in sends, k \in generated : b = Original(s, k)
    BY DEF Inv, BlobsInv
  <2>2. b.sealed.body = s.body
    BY <2>1, OriginalParts
  <2> QED  BY <1>7, <2>2
<1>17. BlobsInv'
  <2>1. \A b \in blobs' : \E s \in sends', k \in generated' :
          s.outcome = "sealed" /\ b = Original(s, k)
    BY <1>1, <1>5, <1>12, <1>13, <1>14 DEF Inv, BlobsInv
  <2>2. ASSUME NEW s \in sends', s.outcome = "sealed"
        PROVE  \E b \in blobs' : b.sealed.body = s.body
    <3>1. CASE s \in sends
      BY <1>14, <2>2, <3>1 DEF Inv, BlobsInv
    <3>2. CASE s = new
      BY <1>5, <1>14, <1>15, <2>2, <3>2
    <3> QED  BY <1>1, <3>1, <3>2
  <2>3. \A b, d \in blobs' : b.sealed.body = d.sealed.body => b = d
    BY <1>2, <1>13, <1>15, <1>16 DEF Inv, BlobsInv
  <2> QED  BY <2>1, <2>2, <2>3 DEF BlobsInv
<1>18. KeysInv' /\ DamagedInv' /\ OpensInv'
  BY <1>1, <1>14 DEF Inv, KeysInv, DamagedInv, OpensInv
<1>19. TypeOK'
  <2>1. ASSUME NEW b \in blobs'
        PROVE  b.key \in Key /\ b.short \in BOOLEAN
    <3>1. CASE b \in blobs
      BY <3>1 DEF Inv, TypeOK
    <3>2. CASE outcome = "sealed" /\ b = Original(new, pub)
      <4>1. b.key = pub /\ b.short = FALSE
        BY <3>2, OriginalParts
      <4> QED  BY <1>12, <3>2, <4>1 DEF Inv, TypeOK
    <3> QED  BY <1>13, <3>1, <3>2
  <2>2. sends' \subseteq [body : Nat, context : Context, recorded : Suite,
                          outcome : Raised \cup {"sealed", "classical"}]
    BY <1>1, <1>6 DEF Inv, TypeOK
  <2> QED  BY <1>1, <2>1, <2>2 DEF Inv, TypeOK
<1> QED  BY <1>10, <1>17, <1>18, <1>19 DEF Inv

\* Every action keeps the invariant.
LEMMA NextInv == Inv /\ [Next]_vars => Inv'
<1> SUFFICES ASSUME Inv, [Next]_vars PROVE Inv'
  OBVIOUS
<1>1. CASE (\E k \in Key : Rotate(k) \/ Erase(k)) \/ Withdraw \/ Fetch
  BY <1>1, RecipientStep
<1>2. CASE Garble \/ Negotiate \/ \E side \in {"sender", "recipient"} : Switch(side)
  BY <1>2, SurroundingsStep
<1>3. CASE \E blob \in blobs \cup damaged, k \in held, c \in Context : Open(blob, k, c)
  BY <1>3, OpenStep
<1>4. CASE \E c \in Context : Send(c)
  BY <1>4, SendStep
<1>5. CASE Damage
  BY <1>5, DamageStep
<1>6. CASE UNCHANGED vars
  BY <1>6, HistoryStands DEF vars, Inv, TypeOK, KeysInv
<1> QED  BY <1>1, <1>2, <1>3, <1>4, <1>5, <1>6 DEF Next

\* In every state, each sealed attempt has exactly one blob, to a generated prekey,
\* and whatever is on the network is one of those blobs or a damaged copy of one.
THEOREM InvHolds == Spec => []Inv
<1> QED  BY InitInv, NextInv, PTL DEF Spec

\* Every variable keeps the shape the code gives it, whatever the record lost.
THEOREM TypeCorrect == Spec => []TypeOK
<1> QED  BY InvHolds, PTL DEF Inv

----------------------------------------------------------------------------
(* What the conversation promises. *)

\* Whatever the network did to it, a blob names the attempt that sealed it.
LEMMA SendOfBlob ==
    ASSUME SendsInv, NEW s \in sends, NEW b, b.sealed.body = s.body
    PROVE  SendOf(b) = s
BY DEF SendOf, SendsInv

\* A call of seal left one hybrid blob to a published key, or none.
LEMMA InvNoDowngrade == Inv => NoSilentDowngrade
<1> SUFFICES ASSUME Inv, NEW s \in sends
    PROVE LET its == {b \in blobs : b.sealed.body = s.body}
          IN  IF s.outcome = "sealed"
              THEN /\ s.recorded = HYBRID_SUITE
                   /\ \E b \in its : /\ its = {b}
                                     /\ b.key \in generated
                                     /\ b.sealed.aad = DowngradeLockAad(s.recorded, s.context)
              ELSE /\ its = {}
                   /\ (s.outcome = "classical") <=> (s.recorded = CLASSICAL_SUITE)
  BY DEF NoSilentDowngrade
<1> DEFINE its == {b \in blobs : b.sealed.body = s.body}
<1>1. ASSUME NEW b \in its
      PROVE  /\ s.outcome = "sealed"
             /\ \E k \in generated : b = Original(s, k)
  <2>1. PICK t \in sends, k \in generated : t.outcome = "sealed" /\ b = Original(t, k)
    BY DEF Inv, BlobsInv
  <2>2. b.sealed.body = t.body /\ b.sealed.body = s.body
    BY <2>1, OriginalParts
  <2>3. t = s
    BY <2>2 DEF Inv, SendsInv
  <2> QED  BY <2>1, <2>3
<1>2. CASE s.outcome = "sealed"
  <2>1. s.recorded = HYBRID_SUITE
    BY <1>2 DEF Inv, SendsInv
  <2>2. PICK b \in its : TRUE
    BY <1>2 DEF Inv, BlobsInv
  <2>3. its = {b}
    BY <2>2 DEF Inv, BlobsInv
  <2>4. b.key \in generated /\ b.sealed.aad = DowngradeLockAad(s.recorded, s.context)
    <3>1. PICK k \in generated : b = Original(s, k)
      BY <1>1
    <3> QED  BY <2>1, <3>1, OriginalParts
  <2> QED  BY <1>2, <2>1, <2>3, <2>4
<1>3. CASE s.outcome # "sealed"
  <2>1. its = {}
    BY <1>1, <1>3
  <2>2. (s.outcome = "classical") <=> (s.recorded = CLASSICAL_SUITE)
    BY DEF Inv, SendsInv
  <2> QED  BY <1>3, <2>1, <2>2
<1> QED  BY <1>2, <1>3

\* No interleaving of rotations, withdrawals, lost fields, stale bundles and missing
\* backends sends a message below the recorded suite.
THEOREM NeverSilentlyDowngraded == Spec => []NoSilentDowngrade
<1> QED  BY InvHolds, InvNoDowngrade, PTL

\* What an opening shows of a blob or of a damaged copy.
LEMMA OpensCase ==
    ASSUME Inv, NEW b \in blobs \cup damaged,
           NEW private, NEW context, NEW suite, NEW backend \in BOOLEAN
    PROVE  OpenRaises(b, private, context, suite, backend) = "none" <=>
             /\ b \in blobs
             /\ private = b.key /\ context = SendOf(b).context
             /\ suite = SendOf(b).recorded /\ backend
<1>1. CASE b \in blobs
  <2>1. PICK s \in sends, k \in generated : s.outcome = "sealed" /\ b = Original(s, k)
    BY <1>1 DEF Inv, BlobsInv
  <2>2. b.sealed.body = s.body /\ b.key = k
    BY <2>1, OriginalParts
  <2>3. SendOf(b) = s /\ s.recorded = HYBRID_SUITE
    BY <2>1, <2>2, SendOfBlob DEF Inv, SendsInv
  <2>4. OpenRaises(b, private, context, suite, backend) = "none" <=>
          private = k /\ context = s.context /\ suite = HYBRID_SUITE /\ backend
    <3>1. \E cut \in BOOLEAN, i \in BOOLEAN, j \in BOOLEAN, l \in BOOLEAN :
            ~cut /\ i /\ j /\ l /\ b = CopyOf(s, k, cut, i, j, l)
      BY <2>1 DEF Original
    <3>2. PICK cut \in BOOLEAN, i \in BOOLEAN, j \in BOOLEAN, l \in BOOLEAN :
            ~cut /\ i /\ j /\ l /\ b = CopyOf(s, k, cut, i, j, l)
      BY <3>1
    <3>3. OpenRaises(b, private, context, suite, backend) = "none" <=>
            /\ ~cut /\ i /\ j /\ l
            /\ private = k /\ context = s.context /\ suite = HYBRID_SUITE /\ backend
      <4>1. b = CopyOf(s, k, cut, i, j, l)
        BY <3>2
      <4> QED  BY <4>1, OpensWhole
    <3> QED  BY <3>2, <3>3
  <2> QED  BY <1>1, <2>2, <2>3, <2>4
<1>2. CASE b \in damaged
  <2>1. PICK s \in sends, k \in generated : s.outcome = "sealed" /\ IsSpoilt(b, s, k)
    BY <1>2 DEF Inv, DamagedInv
  <2>2. b \notin blobs
    BY <2>1, SpoiltParts DEF Inv, BlobsInv
  <2>3. PICK cut \in BOOLEAN, i \in BOOLEAN, j \in BOOLEAN, l \in BOOLEAN :
          (cut \/ ~i \/ ~j \/ ~l) /\ b = CopyOf(s, k, cut, i, j, l)
    BY <2>1 DEF IsSpoilt
  <2>4. OpenRaises(b, private, context, suite, backend) # "none"
    BY <2>3, OpensWhole
  <2> QED  BY <2>2, <2>4
<1> QED  BY <1>1, <1>2

\* The outcome of every open follows from what the blob was sealed with.
LEMMA InvOpens == Inv => OpenExact /\ AlarmExplained
<1> SUFFICES ASSUME Inv PROVE OpenExact /\ AlarmExplained
  OBVIOUS
<1>1. ASSUME NEW o \in opens
      PROVE  (o.raised = "none") <=> /\ o.blob \in blobs
                                     /\ o.key = o.blob.key
                                     /\ o.context = SendOf(o.blob).context
                                     /\ o.expected = SendOf(o.blob).recorded
                                     /\ o.backend
  BY OpensCase DEF Inv, OpensInv
<1>2. ASSUME NEW o \in opens, o.raised = "DowngradeDetected"
      PROVE  o.backend
  <2>1. /\ o.raised = OpenRaises(o.blob, o.key, o.context, o.expected, o.backend)
        /\ o.backend \in BOOLEAN /\ o.blob.short \in BOOLEAN
    BY DEF Inv, OpensInv, TypeOK
  <2> QED  BY <1>2, <2>1 DEF OpenRaises
<1>3. OpenExact
  BY <1>1 DEF OpenExact
<1>4. AlarmExplained
  BY <1>1, <1>2 DEF AlarmExplained
<1> QED  BY <1>3, <1>4

\* open_sealed returns a body exactly when blob, key, parties, suite and backend
\* are those of the sealing call.
THEOREM OpensExactly == Spec => []OpenExact
<1> QED  BY InvHolds, InvOpens, PTL

\* A downgrade alarm has a cause on the wire or at the recipient, and a missing
\* backend is none.
THEOREM AlarmsAreExplained == Spec => []AlarmExplained
<1> QED  BY InvHolds, InvOpens, PTL

\* No key still held is the one an orphaned blob was sealed to.
LEMMA InvErased == Inv => ErasedIsGone
<1> SUFFICES ASSUME Inv, NEW b \in blobs \cup damaged, b.key \notin held,
                    NEW k \in held, NEW c \in Context, NEW s \in Suite
             PROVE  OpenRaises(b, k, c, s, TRUE) # "none"
  BY DEF ErasedIsGone
<1>1. \A backend \in BOOLEAN : OpenRaises(b, k, c, s, backend) # "none"
  BY OpensCase
<1> QED  BY <1>1

\* What was sealed to an erased prekey stays closed.
THEOREM ErasedStaysGone == Spec => []ErasedIsGone
<1> QED  BY InvHolds, InvErased, PTL

----------------------------------------------------------------------------
(* The conversation implements a letterbox. *)

\* The letter an opening takes out, those put in and those taken out.
Taken(o) == [reader  |-> o.key,
             context |-> <<o.expected, o.context>>,
             body    |-> o.blob.sealed.body]

Posted == {[reader  |-> b.key,
            context |-> <<SendOf(b).recorded, SendOf(b).context>>,
            body    |-> b.sealed.body] : b \in blobs}

ReadOut == {Taken(o) : o \in {x \in opens : x.raised = "none"}}

PostedAreLetters == Posted \subseteq Box!Letter

\* The letters posted are to a generated prekey, in a conversation of the callers.
LEMMA PostedLetters == Inv => PostedAreLetters
<1> SUFFICES ASSUME Inv, NEW b \in blobs
             PROVE  [reader  |-> b.key,
                     context |-> <<SendOf(b).recorded, SendOf(b).context>>,
                     body    |-> b.sealed.body] \in Box!Letter
  BY DEF PostedAreLetters, Posted
<1>1. PICK s \in sends, k \in generated : s.outcome = "sealed" /\ b = Original(s, k)
  BY DEF Inv, BlobsInv
<1>2. b.sealed.body = s.body /\ b.key = k
  BY <1>1, OriginalParts
<1>3. SendOf(b) = s
  BY <1>2, SendOfBlob DEF Inv
<1>4. /\ s.body \in Nat /\ s.body < MaxSends /\ MaxSends \in Nat
      /\ s.recorded \in Suite /\ s.context \in Context /\ k \in Key
  BY SendAssumption DEF Inv, TypeOK, SendsInv
<1>5. s.body \in 0..(MaxSends - 1)
  BY <1>4
<1> QED  BY <1>2, <1>3, <1>4, <1>5 DEF Box!Letter

\* An attempt posts one letter, or none goes out sealed.
LEMMA SendPosts ==
    ASSUME Inv, Inv', NEW c \in Context, Send(c)
    PROVE  /\ ReadOut' = ReadOut
           /\ Posted' = Posted \/ \E l \in Box!Letter : Posted' = Posted \cup {l}
<1> DEFINE n       == Cardinality(sends)
           outcome == Outcome(recorded, bundle, liboqs["sender"])
           new     == [body |-> n, context |-> c, recorded |-> recorded, outcome |-> outcome]
           blob    == Seal(n, bundle, c)
<1>1. /\ sends' = sends \cup {new}
      /\ blobs' = blobs \cup (IF outcome = "sealed" THEN {blob} ELSE {})
      /\ opens' = opens
  BY DEF Send
<1>2. ReadOut' = ReadOut
  BY <1>1 DEF ReadOut, Taken
<1>3. ASSUME NEW b \in blobs
      PROVE  SendOf(b)' = SendOf(b)
  <2>1. PICK s \in sends : b.sealed.body = s.body
    <3>1. PICK s \in sends, k \in generated : b = Original(s, k)
      BY DEF Inv, BlobsInv
    <3>2. b.sealed.body = s.body
      BY <3>1, OriginalParts
    <3> QED  BY <3>2
  <2>2. SendOf(b) = s
    BY <2>1, SendOfBlob DEF Inv
  <2>3. s \in sends' /\ \A t \in sends' : t.body = s.body => t = s
    BY <1>1 DEF Inv, SendsInv
  <2> QED  BY <2>1, <2>2, <2>3 DEF SendOf
<1>4. PostedAreLetters'
  BY PostedLetters, PTL
<1>5. Posted' \subseteq Box!Letter
  BY <1>4 DEF PostedAreLetters
<1> HIDE DEF outcome, new, blob
<1> DEFINE Before(b) == [reader  |-> b.key,
                         context |-> <<SendOf(b).recorded, SendOf(b).context>>,
                         body    |-> b.sealed.body]
           After(b)  == [reader  |-> b.key,
                         context |-> <<SendOf(b)'.recorded, SendOf(b)'.context>>,
                         body    |-> b.sealed.body]
<1>6. Posted = {Before(b) : b \in blobs} /\ Posted' = {After(b) : b \in blobs'}
  BY DEF Posted
<1>7. \A b \in blobs : After(b) = Before(b)
  BY <1>3
<1> HIDE DEF Before, After
<1>8. CASE outcome = "sealed"
  <2>1. blobs' = blobs \cup {blob}
    BY <1>1, <1>8
  <2>2. Posted' = Posted \cup {After(blob)}
    BY <1>6, <1>7, <2>1
  <2> QED  BY <1>2, <1>5, <2>2
<1>9. CASE outcome # "sealed"
  <2>1. blobs' = blobs
    BY <1>1, <1>9
  <2>2. Posted' = Posted
    BY <1>6, <1>7, <2>1
  <2> QED  BY <1>2, <2>2
<1> QED  BY <1>8, <1>9

\* open_sealed takes out a letter that was posted, or raises and takes none.
LEMMA OpenReads ==
    ASSUME Inv, NEW blob \in blobs \cup damaged, NEW k \in held, NEW c \in Context,
           Open(blob, k, c)
    PROVE  /\ Posted' = Posted
           /\ \/ ReadOut' = ReadOut
              \/ \E l \in Posted : ReadOut' = ReadOut \cup {l}
<1> DEFINE new == [blob |-> blob, key |-> k, context |-> c, expected |-> expected,
                   backend |-> liboqs["recipient"],
                   raised |-> OpenRaises(blob, k, c, expected, liboqs["recipient"])]
<1>1. opens' = opens \cup {new} /\ UNCHANGED <<sends, blobs>>
  BY DEF Open
<1>2. Posted' = Posted
  BY <1>1 DEF Posted, SendOf
<1>3. CASE new.raised # "none"
  <2> HIDE DEF new
  <2>1. ReadOut' = ReadOut
    BY <1>1, <1>3 DEF ReadOut, Taken
  <2> QED  BY <1>2, <2>1
<1>4. CASE new.raised = "none"
  <2>1. liboqs["recipient"] \in BOOLEAN
    BY DEF Inv, TypeOK
  <2>2. /\ blob \in blobs /\ k = blob.key
        /\ c = SendOf(blob).context /\ expected = SendOf(blob).recorded
    BY <1>4, <2>1, OpensCase
  <2>3. Taken(new) = [reader  |-> blob.key,
                      context |-> <<SendOf(blob).recorded, SendOf(blob).context>>,
                      body    |-> blob.sealed.body]
    BY <2>2 DEF Taken
  <2>4. Taken(new) \in Posted
    BY <2>2, <2>3 DEF Posted
  <2> HIDE DEF new
  <2>5. ReadOut' = ReadOut \cup {Taken(new)}
    BY <1>1, <1>4 DEF ReadOut
  <2> QED  BY <1>2, <2>4, <2>5
<1> QED  BY <1>3, <1>4

\* Every action is a step of the letterbox or leaves it alone.
LEMMA NextImplements ==
    ASSUME Inv, Inv', [Next]_vars
    PROVE  [Box!Next]_(Box!vars)
<1> SUFFICES \/ Posted' = Posted /\ ReadOut' = ReadOut
             \/ ReadOut' = ReadOut /\ \E l \in Box!Letter : Posted' = Posted \cup {l}
             \/ Posted' = Posted /\ \E l \in Posted : ReadOut' = ReadOut \cup {l}
  <2>1. Posted \subseteq Box!Letter
    BY PostedLetters DEF PostedAreLetters
  <2> QED  BY <2>1 DEF Box!Next, Box!vars, Box!Post, Box!Read, Posted, ReadOut, Taken
<1>1. CASE \E c \in Context : Send(c)
  BY <1>1, SendPosts
<1>2. CASE \E blob \in blobs \cup damaged, k \in held, c \in Context : Open(blob, k, c)
  BY <1>2, OpenReads
<1>3. CASE UNCHANGED <<sends, blobs, opens>>
  BY <1>3 DEF Posted, ReadOut, Taken, SendOf
<1>4. [Next]_vars => <1>1!1 \/ <1>2!1 \/ <1>3!1
  BY DEF Next, vars, Rotate, Erase, Withdraw, Fetch, Negotiate, Garble, Switch, Damage
<1> QED  BY <1>1, <1>2, <1>3, <1>4

\* The two ends, the record and the network together do what a letterbox does.
THEOREM DmImplementsLetterbox == Spec => ImplementsLetterbox
<1>1. Init => Box!Init
  BY DEF Init, Box!Init
<1>2. Inv /\ Inv' /\ [Next]_vars => [Box!Next]_(Box!vars)
  BY NextImplements
<1> QED  BY <1>1, <1>2, InvHolds, PTL DEF Spec, ImplementsLetterbox, Box!Spec

============================================================================
