--------------------------- MODULE PqRouteProofs ---------------------------
(* Theorems about PqRoute, for every value of its constants. *)
EXTENDS PqRoute, PqKemProofs, FiniteSetTheorems

----------------------------------------------------------------------------
(* The inductive invariant. *)

\* The envelope of call s after relays and transit have had it: any size and
\* header; legs and body intact (i, j, k) or not.
CopyOf(s, z, r, i, j, k) ==
    [size   |-> z,
     route  |-> r,
     ct     |-> [x25519 |-> [eph |-> <<s.n>>, intact |-> i],
                 mlkem  |-> [pub |-> s.dest, coins |-> <<s.n>>, intact |-> j]],
     sealed |-> [key    |-> SealRouted(s.n, s.dest, s.header).sealed.key,
                 body   |-> s.n,
                 aad    |-> Aad(Canonical(s.header)),
                 intact |-> k]]

IsCopyOf(e, s) ==
    \E z \in {"whole", "headless", "short"}, r \in RouteBytes,
       i \in BOOLEAN, j \in BOOLEAN, k \in BOOLEAN : e = CopyOf(s, z, r, i, j, k)

\* Calls are numbered one after another, and raise what seal_routed raises.
SealsInv ==
    /\ IsFiniteSet(seals)
    /\ \A s \in seals : /\ s.n < Cardinality(seals) /\ s.n < MaxSeals
                        /\ s.raised = SealRaises(s.dest, s.header, s.backend)
    /\ \A s, t \in seals : s.n = t.n => s = t

\* The sealed part of every envelope is that of one call, wherever it has been.
WireInv ==
    /\ \A e \in wire : \E s \in seals :
         s.raised = "none" /\ e = SealRouted(s.n, s.dest, s.header)
    /\ \A s \in seals :
         s.raised = "none" => SealRouted(s.n, s.dest, s.header) \in wire
CopiesInv == \A e \in copies : \E s \in seals : s.raised = "none" /\ IsCopyOf(e, s)

\* So is that of an envelope that was opened, with the outcome of open_routed.
OpensInv ==
    \A o \in opens :
      /\ \E s \in seals : s.raised = "none" /\ IsCopyOf(o.envelope, s)
      /\ o.private \in Key \cup {BadKey}
      /\ o.backend \in BOOLEAN
      /\ o.raised = OpenRaises(o.envelope, o.private, o.backend)

Inv == TypeOK /\ SealsInv /\ WireInv /\ CopiesInv /\ OpensInv

----------------------------------------------------------------------------
(* Facts about the functions of the module. *)

\* seal_routed returned: the key and the header were usable.
LEMMA SealedUsable ==
    ASSUME TypeOK, SealsInv, NEW s \in seals, s.raised = "none"
    PROVE  s.n \in Nat /\ s.dest \in Key /\ s.header \in Header
<1>1. /\ s.n \in Nat
      /\ s.dest \in Key \cup {BadKey}
      /\ s.header \in Header \cup {NotJson}
  BY DEF TypeOK
<1>2. s.dest # BadKey /\ s.header # NotJson
  BY DEF SealsInv, SealRaises
<1> QED  BY <1>1, <1>2

\* What seal_routed returns is a copy of itself.
LEMMA SealedIsCopy ==
    ASSUME NEW s, s.header \in Header
    PROVE  /\ IsCopyOf(SealRouted(s.n, s.dest, s.header), s)
           /\ SealRouted(s.n, s.dest, s.header) =
                CopyOf(s, "whole", Canonical(s.header), TRUE, TRUE, TRUE)
<1>1. SealRouted(s.n, s.dest, s.header) =
        CopyOf(s, "whole", Canonical(s.header), TRUE, TRUE, TRUE)
  BY DEF SealRouted, CopyOf, Ciphertext, AesGcmEncrypt
<1>2. Canonical(s.header) \in RouteBytes
  BY DEF Canonical, RouteBytes
<1> QED  BY <1>1, <1>2 DEF IsCopyOf

\* Relays and transit make copies of copies.
LEMMA CopyOfCopy ==
    ASSUME NEW e, NEW s, IsCopyOf(e, s)
    PROVE  /\ \A h \in Header : IsCopyOf(ReplaceRouteHeader(e, h), s)
           /\ IsCopyOf([e EXCEPT !.route.canonical = FALSE], s)
           /\ IsCopyOf([e EXCEPT !.route.header = NotJson], s)
           /\ IsCopyOf([e EXCEPT !.size = "headless"], s)
           /\ IsCopyOf([e EXCEPT !.size = "short"], s)
           /\ IsCopyOf([e EXCEPT !.ct.x25519.intact = FALSE], s)
           /\ IsCopyOf([e EXCEPT !.ct.mlkem.intact = FALSE], s)
           /\ IsCopyOf([e EXCEPT !.sealed.intact = FALSE], s)
<1>1. PICK z \in {"whole", "headless", "short"}, r \in RouteBytes,
           i \in BOOLEAN, j \in BOOLEAN, k \in BOOLEAN : e = CopyOf(s, z, r, i, j, k)
  BY DEF IsCopyOf
<1>2. /\ [r EXCEPT !.canonical = FALSE] \in RouteBytes
      /\ [r EXCEPT !.header = NotJson] \in RouteBytes
      /\ \A h \in Header : Canonical(h) \in RouteBytes
  BY DEF RouteBytes, Canonical
<1>3. \A h \in Header :
        ReplaceRouteHeader(e, h) = CopyOf(s, z, Canonical(h), i, j, k)
  BY <1>1 DEF ReplaceRouteHeader, CopyOf
<1>4. /\ [e EXCEPT !.route.canonical = FALSE] =
           CopyOf(s, z, [r EXCEPT !.canonical = FALSE], i, j, k)
      /\ [e EXCEPT !.route.header = NotJson] =
           CopyOf(s, z, [r EXCEPT !.header = NotJson], i, j, k)
  <2>1. e.route = r
    BY <1>1 DEF CopyOf
  <2>2. \A x : [e EXCEPT !.route = x] = CopyOf(s, z, x, i, j, k)
    BY <1>1 DEF CopyOf
  <2> QED  BY <2>1, <2>2, Zenon
<1>5. /\ [e EXCEPT !.size = "headless"] = CopyOf(s, "headless", r, i, j, k)
      /\ [e EXCEPT !.size = "short"] = CopyOf(s, "short", r, i, j, k)
  BY <1>1 DEF CopyOf
<1>6. /\ [e EXCEPT !.ct.x25519.intact = FALSE] = CopyOf(s, z, r, FALSE, j, k)
      /\ [e EXCEPT !.ct.mlkem.intact = FALSE] = CopyOf(s, z, r, i, FALSE, k)
      /\ [e EXCEPT !.sealed.intact = FALSE] = CopyOf(s, z, r, i, j, FALSE)
  <2> DEFINE leg(b) == [eph |-> <<s.n>>, intact |-> b]
             kem(b) == [pub |-> s.dest, coins |-> <<s.n>>, intact |-> b]
             key    == SealRouted(s.n, s.dest, s.header).sealed.key
             aad    == Aad(Canonical(s.header))
  <2>1. /\ e.ct = [x25519 |-> leg(i), mlkem |-> kem(j)]
        /\ e.sealed = [key |-> key, body |-> s.n, aad |-> aad, intact |-> k]
    BY <1>1 DEF CopyOf
  <2>2. /\ [e.ct EXCEPT !.x25519.intact = FALSE] = [x25519 |-> leg(FALSE), mlkem |-> kem(j)]
        /\ [e.ct EXCEPT !.mlkem.intact = FALSE] = [x25519 |-> leg(i), mlkem |-> kem(FALSE)]
    <3>1. \A ct : ct = [x25519 |-> leg(i), mlkem |-> kem(j)] =>
            /\ [ct EXCEPT !.x25519.intact = FALSE] = [x25519 |-> leg(FALSE), mlkem |-> kem(j)]
            /\ [ct EXCEPT !.mlkem.intact = FALSE] = [x25519 |-> leg(i), mlkem |-> kem(FALSE)]
      BY SpoiltCiphertext
    <3> QED  BY <2>1, <3>1, Zenon
  <2>3. [e.sealed EXCEPT !.intact = FALSE] =
          [key |-> key, body |-> s.n, aad |-> aad, intact |-> FALSE]
    <3>1. \A box, v : box = [key |-> key, body |-> s.n, aad |-> aad, intact |-> k] =>
            [box EXCEPT !.intact = v] = [key |-> key, body |-> s.n, aad |-> aad, intact |-> v]
      BY SetBox
    <3> QED  BY <2>1, <3>1, Zenon
  <2>4. /\ \A y : [e EXCEPT !.ct = y] =
                    [size |-> z, route |-> r, ct |-> y,
                     sealed |-> [key |-> key, body |-> s.n, aad |-> aad, intact |-> k]]
        /\ \A y : [e EXCEPT !.sealed = y] =
                    [size |-> z, route |-> r,
                     ct |-> [x25519 |-> leg(i), mlkem |-> kem(j)], sealed |-> y]
    BY <1>1 DEF CopyOf
  <2> HIDE DEF leg, kem, key, aad
  <2>5. /\ [e EXCEPT !.ct.x25519.intact = FALSE] =
             [size |-> z, route |-> r, ct |-> [x25519 |-> leg(FALSE), mlkem |-> kem(j)],
              sealed |-> [key |-> key, body |-> s.n, aad |-> aad, intact |-> k]]
        /\ [e EXCEPT !.ct.mlkem.intact = FALSE] =
             [size |-> z, route |-> r, ct |-> [x25519 |-> leg(i), mlkem |-> kem(FALSE)],
              sealed |-> [key |-> key, body |-> s.n, aad |-> aad, intact |-> k]]
        /\ [e EXCEPT !.sealed.intact = FALSE] =
             [size |-> z, route |-> r, ct |-> [x25519 |-> leg(i), mlkem |-> kem(j)],
              sealed |-> [key |-> key, body |-> s.n, aad |-> aad, intact |-> FALSE]]
    BY <2>2, <2>3, <2>4, Zenon
  <2> QED  BY <2>5 DEF CopyOf, leg, kem, key, aad
<1>7. \A h \in Header : IsCopyOf(ReplaceRouteHeader(e, h), s)
  BY <1>2, <1>3 DEF IsCopyOf
<1>8. /\ IsCopyOf([e EXCEPT !.route.canonical = FALSE], s)
      /\ IsCopyOf([e EXCEPT !.route.header = NotJson], s)
  <2>1. \A q \in RouteBytes : IsCopyOf(CopyOf(s, z, q, i, j, k), s)
    BY DEF IsCopyOf
  <2> QED  BY <1>2, <1>4, <2>1, Zenon
<1>9. /\ IsCopyOf([e EXCEPT !.size = "headless"], s)
      /\ IsCopyOf([e EXCEPT !.size = "short"], s)
  BY <1>5 DEF IsCopyOf
<1>10. /\ IsCopyOf([e EXCEPT !.ct.x25519.intact = FALSE], s)
       /\ IsCopyOf([e EXCEPT !.ct.mlkem.intact = FALSE], s)
       /\ IsCopyOf([e EXCEPT !.sealed.intact = FALSE], s)
  BY <1>6 DEF IsCopyOf
<1> QED  BY <1>7, <1>8, <1>9, <1>10

\* open_routed returns for the destination's key alone, and only for the envelope
\* as seal_routed returned it.
LEMMA OpensOriginal ==
    ASSUME NEW s, s.dest \in Key, s.header \in Header, NEW e, IsCopyOf(e, s),
           NEW private, NEW backend \in BOOLEAN
    PROVE  OpenRaises(e, private, backend) = "none" <=>
             /\ backend
             /\ private = s.dest
             /\ e = SealRouted(s.n, s.dest, s.header)
<1> DEFINE own == Canonical(s.header)
           opens1 == /\ HeaderReadable(e) /\ e.size # "short"
                     /\ Decapsulates(private, backend) /\ Decrypts(e, private)
<1>1. PICK z \in {"whole", "headless", "short"}, r \in RouteBytes,
           i \in BOOLEAN, j \in BOOLEAN, k \in BOOLEAN : e = CopyOf(s, z, r, i, j, k)
  BY DEF IsCopyOf
<1>2. OpenRaises(e, private, backend) = "none" <=> opens1
  BY DEF OpenRaises
<1>3. /\ e.size = z /\ e.route = r
      /\ e.sealed.intact = k /\ e.sealed.aad = Aad(own)
      /\ e.sealed.key = WrapKey(HybridEncap(s.dest, <<s.n>>), Aad(own))
  BY <1>1 DEF CopyOf, SealRouted, AesGcmEncrypt
<1>4. /\ e.ct.x25519 = [eph |-> <<s.n>>, intact |-> i]
      /\ e.ct.mlkem = [pub |-> s.dest, coins |-> <<s.n>>, intact |-> j]
  BY <1>1 DEF CopyOf
<1>5. ASSUME opens1
      PROVE  backend /\ private = s.dest /\ e = SealRouted(s.n, s.dest, s.header)
  <2>1. backend /\ z = "whole"
    BY <1>3, <1>5 DEF Decapsulates, HeaderReadable, Splits
  <2>2. /\ k
        /\ Aad(own) = Aad(r)
        /\ WrapKey(HybridEncap(s.dest, <<s.n>>), Aad(own)) =
             WrapKey(HybridDecap(e.ct, private), Aad(r))
    BY <1>3, <1>5 DEF Decrypts, AesGcmOpens
  <2>3. r = own
    BY <2>2 DEF Aad
  <2>4. HybridDecap(e.ct, private) = HybridEncap(s.dest, <<s.n>>)
    <3>1. /\ WrapKey(HybridEncap(s.dest, <<s.n>>), Aad(own)).ikm = HybridEncap(s.dest, <<s.n>>)
          /\ WrapKey(HybridDecap(e.ct, private), Aad(r)).ikm = HybridDecap(e.ct, private)
      BY DEF WrapKey, HKDF
    <3> QED  BY <2>2, <3>1
  <2>5. /\ private = s.dest
        /\ e.ct.mlkem = Ciphertext(s.dest, <<s.n>>).mlkem
        /\ e.ct.x25519 = Ciphertext(s.dest, <<s.n>>).x25519
    BY <2>4, DecapExact
  <2>6. i = TRUE /\ j = TRUE /\ k = TRUE
    BY <1>4, <2>2, <2>5 DEF Ciphertext
  <2> QED  BY <1>1, <2>1, <2>3, <2>5, <2>6, SealedIsCopy
<1>6. ASSUME backend, private = s.dest, e = SealRouted(s.n, s.dest, s.header)
      PROVE  opens1
  <2>1. e.size = "whole" /\ e.route = own /\ s.header # NotJson /\ private # BadKey
    BY <1>6, NameAssumption DEF SealRouted
  <2>2. HeaderReadable(e) /\ e.size # "short" /\ Decapsulates(private, backend)
    BY <1>6, <2>1 DEF HeaderReadable, Splits, Decapsulates, Canonical
  <2>3. e.ct = Ciphertext(s.dest, <<s.n>>)
    BY <1>6 DEF SealRouted
  <2>4. HybridDecap(e.ct, private) = HybridEncap(s.dest, <<s.n>>)
    BY <1>6, <2>3, DecapEncap
  <2>5. e.sealed.intact
    BY <1>6 DEF SealRouted, AesGcmEncrypt
  <2>6. Decrypts(e, private)
    BY <1>3, <2>1, <2>4, <2>5 DEF Decrypts, AesGcmOpens
  <2> QED  BY <2>2, <2>6
<1> QED  BY <1>2, <1>5, <1>6

----------------------------------------------------------------------------
(* The invariant is inductive. *)

\* At the start nothing was sealed.
LEMMA InitInv == Init => Inv
<1> SUFFICES ASSUME Init PROVE Inv
  OBVIOUS
<1>1. TypeOK
  BY DEF Init, TypeOK
<1>2. SealsInv
  BY FS_EmptySet DEF Init, SealsInv
<1>3. WireInv /\ CopiesInv /\ OpensInv
  BY DEF Init, WireInv, CopiesInv, OpensInv
<1> QED  BY <1>1, <1>2, <1>3 DEF Inv

\* A call of seal_routed takes the next number.
LEMMA SealStep ==
    ASSUME Inv, NEW dest \in Key \cup {BadKey}, NEW h \in Header \cup {NotJson},
           Seal(dest, h)
    PROVE  Inv'
<1> DEFINE n   == Cardinality(seals)
           new == [n |-> n, dest |-> dest, header |-> h, backend |-> liboqs["sender"],
                   raised |-> SealRaises(dest, h, liboqs["sender"])]
<1> USE DEF Inv
<1>1. /\ seals' = seals \cup {new}
      /\ wire' = wire \cup (IF new.raised = "none" THEN {SealRouted(n, dest, h)} ELSE {})
      /\ UNCHANGED <<liboqs, copies, opens>>
  BY DEF Seal
<1>2. n \in Nat /\ n < MaxSeals /\ IsFiniteSet(seals)
  BY FS_CardinalityType DEF SealsInv, Seal
<1>3. /\ new.n = n /\ new.dest = dest /\ new.header = h /\ new.backend = liboqs["sender"]
      /\ new.raised = SealRaises(dest, h, liboqs["sender"])
  OBVIOUS
<1>4. liboqs["sender"] \in BOOLEAN
  BY DEF TypeOK
<1>5. new.raised \in {"none", "PqRouteFormatError"}
  BY <1>3 DEF SealRaises
<1>6. \A s \in seals : s.n \in Nat /\ s.n < n
  BY DEF TypeOK, SealsInv
<1>7. new \notin seals
  BY <1>2, <1>3, <1>6
<1>8. IsFiniteSet(seals') /\ Cardinality(seals') = n + 1
  BY <1>1, <1>2, <1>7, FS_AddElement
<1>9. new \in [n : Nat, dest : Key \cup {BadKey}, header : Header \cup {NotJson},
               backend : BOOLEAN, raised : {"none", "PqRouteFormatError"}]
  BY <1>2, <1>4, <1>5
<1> HIDE DEF new, n
<1>10. SealsInv'
  <2>1. \A s \in seals' : /\ s.n < Cardinality(seals') /\ s.n < MaxSeals
                          /\ s.raised = SealRaises(s.dest, s.header, s.backend)
    BY <1>1, <1>2, <1>3, <1>6, <1>8 DEF SealsInv
  <2>2. \A s, t \in seals' : s.n = t.n => s = t
    BY <1>1, <1>2, <1>3, <1>6 DEF SealsInv
  <2> QED  BY <1>8, <2>1, <2>2 DEF SealsInv
<1>11. seals \subseteq seals' /\ new \in seals'
  BY <1>1
<1>12. \A e \in wire' : e \in wire \/ (new.raised = "none" /\ e = SealRouted(n, dest, h))
  BY <1>1
<1>13. WireInv'
  <2>1. \A e \in wire' : \E s \in seals' :
          s.raised = "none" /\ e = SealRouted(s.n, s.dest, s.header)
    BY <1>3, <1>11, <1>12 DEF WireInv
  <2>2. \A s \in seals' :
          s.raised = "none" => SealRouted(s.n, s.dest, s.header) \in wire'
    BY <1>1, <1>3 DEF WireInv
  <2> QED  BY <2>1, <2>2 DEF WireInv
<1>14. CopiesInv' /\ OpensInv'
  BY <1>1, <1>11 DEF CopiesInv, OpensInv
<1>15. TypeOK'
  <2>1. liboqs' \in [{"sender", "destination"} -> BOOLEAN]
    BY <1>1 DEF TypeOK
  <2>2. seals' \subseteq [n : Nat, dest : Key \cup {BadKey},
                          header : Header \cup {NotJson}, backend : BOOLEAN,
                          raised : {"none", "PqRouteFormatError"}]
    BY <1>1, <1>9 DEF TypeOK
  <2>3. ASSUME NEW e \in wire' \cup copies'
        PROVE  /\ e.route \in RouteBytes /\ e.size \in {"whole", "headless", "short"}
               /\ \E s \in seals' : /\ s.n = e.sealed.body /\ s.raised = "none"
                                   /\ s.dest \in Key /\ s.header \in Header
    <3>1. CASE e \in wire \cup copies
      BY <1>11, <3>1 DEF TypeOK
    <3>2. CASE new.raised = "none" /\ e = SealRouted(n, dest, h)
      <4>1. h \in Header /\ dest \in Key
        BY <1>3, <3>2 DEF SealRaises
      <4>2. e.route \in RouteBytes /\ e.size = "whole" /\ e.sealed.body = n
        BY <3>2, <4>1 DEF SealRouted, AesGcmEncrypt, RouteBytes, Canonical
      <4> QED  BY <1>3, <1>11, <3>2, <4>1, <4>2
    <3> QED  BY <1>1, <1>12, <3>1, <3>2
  <2>4. \A o \in opens' : o.private \in Key \cup {BadKey} /\ o.backend \in BOOLEAN
    BY <1>1 DEF TypeOK
  <2> QED  BY <2>1, <2>2, <2>3, <2>4 DEF TypeOK
<1> QED  BY <1>10, <1>13, <1>14, <1>15

\* A copy has a header, a size and a sealed part.
LEMMA CopyShape ==
    ASSUME NEW e, NEW s, IsCopyOf(e, s)
    PROVE  /\ e.route \in RouteBytes
           /\ e.size \in {"whole", "headless", "short"}
           /\ e.sealed.body = s.n
BY DEF IsCopyOf, CopyOf

\* Every envelope in play is a copy of what one call returned.
LEMMA InPlay ==
    ASSUME Inv, NEW e \in wire \cup copies
    PROVE  \E s \in seals : s.raised = "none" /\ IsCopyOf(e, s)
<1>1. CASE e \in copies
  BY <1>1 DEF Inv, CopiesInv
<1>2. CASE e \in wire
  <2>1. PICK s \in seals : s.raised = "none" /\ e = SealRouted(s.n, s.dest, s.header)
    BY <1>2 DEF Inv, WireInv
  <2>2. s.header \in Header
    BY <2>1, SealedUsable DEF Inv
  <2> QED  BY <2>1, <2>2, SealedIsCopy
<1> QED  BY <1>1, <1>2

\* A relay or transit adds one copy of an envelope.
LEMMA CopyStep ==
    ASSUME Inv, NEW e, NEW s \in seals, s.raised = "none", IsCopyOf(e, s),
           copies' = copies \cup {e}, UNCHANGED <<liboqs, seals, wire, opens>>
    PROVE  Inv'
<1>1. CopiesInv'
  BY DEF Inv, CopiesInv
<1>2. SealsInv' /\ WireInv' /\ OpensInv'
  BY DEF Inv, SealsInv, WireInv, OpensInv
<1>3. s.dest \in Key /\ s.header \in Header
  BY SealedUsable DEF Inv
<1>4. TypeOK'
  BY <1>3, CopyShape DEF Inv, TypeOK
<1> QED  BY <1>1, <1>2, <1>4 DEF Inv

\* Whatever a relay or the transit makes of an envelope is a copy of one call's.
LEMMA RelayStep ==
    ASSUME Inv, NEW e \in wire \cup copies,
           Recode(e) \/ Spoil(e) \/ \E h \in Header : Rewrite(e, h)
    PROVE  Inv'
<1>1. PICK s \in seals : s.raised = "none" /\ IsCopyOf(e, s)
  BY InPlay
<1>2. UNCHANGED <<liboqs, seals, wire, opens>>
  BY DEF Recode, Spoil, Rewrite
<1> DEFINE recoded == [e EXCEPT !.route.canonical = FALSE]
<1>3. CASE Recode(e)
  <2>1. IsCopyOf(recoded, s)
    BY <1>1, CopyOfCopy, Zenon
  <2>2. copies' = copies \cup {recoded}
    BY <1>3, Zenon DEF Recode
  <2> HIDE DEF recoded
  <2> QED  BY <1>1, <1>2, <2>1, <2>2, CopyStep
<1>4. CASE Spoil(e)
  <2>1. PICK x \in {[e EXCEPT !.route.header = NotJson],
                    [e EXCEPT !.size = "headless"],
                    [e EXCEPT !.size = "short"],
                    [e EXCEPT !.ct.x25519.intact = FALSE],
                    [e EXCEPT !.ct.mlkem.intact = FALSE],
                    [e EXCEPT !.sealed.intact = FALSE]} : copies' = copies \cup {x}
    BY <1>4 DEF Spoil
  <2>2. IsCopyOf(x, s)
    <3>1. /\ IsCopyOf([e EXCEPT !.route.header = NotJson], s)
          /\ IsCopyOf([e EXCEPT !.size = "headless"], s)
          /\ IsCopyOf([e EXCEPT !.size = "short"], s)
          /\ IsCopyOf([e EXCEPT !.ct.x25519.intact = FALSE], s)
          /\ IsCopyOf([e EXCEPT !.ct.mlkem.intact = FALSE], s)
          /\ IsCopyOf([e EXCEPT !.sealed.intact = FALSE], s)
      BY <1>1, CopyOfCopy, Zenon
    <3> QED  BY <3>1, Zenon
  <2> QED  BY <1>1, <1>2, <2>1, <2>2, CopyStep
<1>5. CASE \E h \in Header : Rewrite(e, h)
  BY <1>1, <1>2, <1>5, CopyOfCopy, CopyStep DEF Rewrite
<1> QED  BY <1>3, <1>4, <1>5

\* open_routed records its own outcome and nothing else.
LEMMA OpenStep ==
    ASSUME Inv, NEW e \in wire \cup copies, NEW k \in Key \cup {BadKey}, Open(e, k)
    PROVE  Inv'
<1> DEFINE new == [envelope |-> e, private |-> k, backend |-> liboqs["destination"],
                   raised |-> OpenRaises(e, k, liboqs["destination"])]
<1>1. opens' = opens \cup {new} /\ UNCHANGED <<liboqs, seals, wire, copies>>
  BY DEF Open
<1>2. /\ new.envelope = e /\ new.private = k /\ new.backend = liboqs["destination"]
      /\ new.raised = OpenRaises(e, k, liboqs["destination"])
  OBVIOUS
<1>3. \E s \in seals : s.raised = "none" /\ IsCopyOf(e, s)
  BY InPlay
<1>4. liboqs["destination"] \in BOOLEAN
  BY DEF Inv, TypeOK
<1> HIDE DEF new
<1>5. OpensInv'
  BY <1>1, <1>2, <1>3, <1>4 DEF Inv, OpensInv
<1>6. SealsInv' /\ WireInv' /\ CopiesInv'
  BY <1>1 DEF Inv, SealsInv, WireInv, CopiesInv
<1>7. TypeOK'
  BY <1>1, <1>2, <1>4 DEF Inv, TypeOK
<1> QED  BY <1>5, <1>6, <1>7 DEF Inv

\* Every action keeps the invariant.
LEMMA NextInv == Inv /\ [Next]_vars => Inv'
<1> SUFFICES ASSUME Inv, [Next]_vars PROVE Inv'
  OBVIOUS
<1>1. CASE \E dest \in Key \cup {BadKey}, h \in Header \cup {NotJson} : Seal(dest, h)
  BY <1>1, SealStep
<1>2. CASE \E e \in wire \cup copies : Recode(e) \/ Spoil(e) \/ \E h \in Header : Rewrite(e, h)
  BY <1>2, RelayStep
<1>3. CASE \E e \in wire \cup copies, k \in Key \cup {BadKey} : Open(e, k)
  BY <1>3, OpenStep
<1>4. CASE \E side \in {"sender", "destination"} : Switch(side)
  <2>1. liboqs' \in [{"sender", "destination"} -> BOOLEAN] /\ UNCHANGED <<seals, wire, copies, opens>>
    BY <1>4 DEF Inv, TypeOK, Switch
  <2> QED  BY <2>1 DEF Inv, TypeOK, SealsInv, WireInv, CopiesInv, OpensInv
<1>5. CASE UNCHANGED vars
  BY <1>5 DEF vars, Inv, TypeOK, SealsInv, WireInv, CopiesInv, OpensInv
<1> QED  BY <1>1, <1>2, <1>3, <1>4, <1>5 DEF Next

\* In every state, every envelope is a copy of what one call of seal_routed
\* returned, and every call of open_routed had the outcome OpenRaises gives it.
THEOREM InvHolds == Spec => []Inv
<1> QED  BY InitInv, NextInv, PTL DEF Spec

\* Every variable keeps the shape the code gives it, and only envelopes that
\* seal_routed made with a usable key and header are ever in play.
THEOREM TypeCorrect == Spec => []TypeOK
<1> QED  BY InvHolds, PTL DEF Inv

----------------------------------------------------------------------------
(* What the envelope promises. *)

\* Whatever relays and transit did to it, an envelope names the call that sealed it.
LEMMA SealOfCopy ==
    ASSUME SealsInv, NEW s \in seals, NEW e, IsCopyOf(e, s)
    PROVE  SealOf(e) = s
<1>1. e.sealed.body = s.n
  BY CopyShape
<1>2. \A t \in seals : t.n = e.sealed.body => t = s
  BY <1>1 DEF SealsInv
<1> QED  BY <1>1, <1>2 DEF SealOf

\* An open succeeds exactly on what its call of seal_routed returned.
LEMMA InvOpens == Inv => OpensAsSealed
<1> SUFFICES ASSUME Inv, NEW o \in opens
             PROVE  (o.raised = "none") <=>
                      /\ o.backend
                      /\ o.private = SealOf(o.envelope).dest
                      /\ o.envelope = SealRouted(SealOf(o.envelope).n,
                                                 SealOf(o.envelope).dest,
                                                 SealOf(o.envelope).header)
  BY DEF OpensAsSealed
<1>1. PICK s \in seals : s.raised = "none" /\ IsCopyOf(o.envelope, s)
  BY DEF Inv, OpensInv
<1>2. /\ o.backend \in BOOLEAN
      /\ o.raised = OpenRaises(o.envelope, o.private, o.backend)
  BY DEF Inv, OpensInv
<1>3. s.dest \in Key /\ s.header \in Header
  BY <1>1, SealedUsable DEF Inv
<1>4. SealOf(o.envelope) = s
  BY <1>1, SealOfCopy DEF Inv
<1> QED  BY <1>1, <1>2, <1>3, <1>4, OpensOriginal

\* open_routed returns exactly what was sealed to that key under that header,
\* byte for byte, however many relays rewrote the header in between.
THEOREM OpensOnlyAsSealed == Spec => []OpensAsSealed
<1> QED  BY InvHolds, InvOpens, PTL

----------------------------------------------------------------------------
(* The routing envelope implements a letterbox. *)

\* The letter an envelope of the wire carries; the letter an opening takes out.
LetterOf(s) == [reader |-> s.dest, context |-> Canonical(s.header), body |-> s.n]

Taken(o) == [reader  |-> o.private,
             context |-> o.envelope.route,
             body    |-> o.envelope.sealed.body]

Posted == {[reader  |-> SealOf(e).dest,
            context |-> Canonical(SealOf(e).header),
            body    |-> e.sealed.body] : e \in wire}

ReadOut == {Taken(o) : o \in {x \in opens : x.raised = "none"}}

PostedAsSealed ==
    /\ \A l : l \in Posted <=> \E s \in seals : s.raised = "none" /\ l = LetterOf(s)
    /\ Posted \subseteq Box!Letter

\* The letters posted are those of the calls that returned.
LEMMA PostedLetters == Inv => PostedAsSealed
<1> SUFFICES ASSUME Inv PROVE PostedAsSealed
  OBVIOUS
<1>1. ASSUME NEW s \in seals, s.raised = "none"
      PROVE  LET e == SealRouted(s.n, s.dest, s.header)
             IN  /\ SealOf(e) = s
                 /\ e.sealed.body = s.n
                 /\ LetterOf(s) \in Box!Letter
  <2> DEFINE e == SealRouted(s.n, s.dest, s.header)
  <2>1. s.dest \in Key /\ s.header \in Header /\ s.n \in Nat
    BY <1>1, SealedUsable DEF Inv
  <2>2. IsCopyOf(e, s)
    BY <2>1, SealedIsCopy
  <2>3. s.n \in 0..(MaxSeals - 1)
    BY <2>1, BoundAssumption DEF Inv, SealsInv
  <2>4. Canonical(s.header) \in RouteBytes
    BY <2>1 DEF Canonical, RouteBytes
  <2>5. LetterOf(s) \in Box!Letter
    BY <2>1, <2>3, <2>4 DEF LetterOf, Box!Letter
  <2> QED  BY <2>2, <2>5, SealOfCopy, CopyShape DEF Inv
<1>2. ASSUME NEW l, l \in Posted
      PROVE  \E s \in seals : s.raised = "none" /\ l = LetterOf(s)
  <2>1. PICK e \in wire : l = [reader  |-> SealOf(e).dest,
                               context |-> Canonical(SealOf(e).header),
                               body    |-> e.sealed.body]
    BY <1>2 DEF Posted
  <2>2. PICK s \in seals : s.raised = "none" /\ e = SealRouted(s.n, s.dest, s.header)
    BY DEF Inv, WireInv
  <2> QED  BY <1>1, <2>1, <2>2 DEF LetterOf
<1>3. ASSUME NEW s \in seals, s.raised = "none"
      PROVE  LetterOf(s) \in Posted
  <2> DEFINE e == SealRouted(s.n, s.dest, s.header)
  <2>1. e \in wire
    BY <1>3 DEF Inv, WireInv
  <2>2. LetterOf(s) = [reader  |-> SealOf(e).dest,
                       context |-> Canonical(SealOf(e).header),
                       body    |-> e.sealed.body]
    BY <1>1, <1>3 DEF LetterOf
  <2> HIDE DEF e
  <2> QED  BY <2>1, <2>2 DEF Posted
<1> QED  BY <1>1, <1>2, <1>3 DEF PostedAsSealed

\* seal_routed posts one letter, or raises and posts none.
LEMMA SealPosts ==
    ASSUME Inv, Inv', NEW dest \in Key \cup {BadKey}, NEW h \in Header \cup {NotJson},
           Seal(dest, h)
    PROVE  /\ ReadOut' = ReadOut
           /\ Posted' = Posted \/ \E l \in Box!Letter : Posted' = Posted \cup {l}
<1> DEFINE n   == Cardinality(seals)
           new == [n |-> n, dest |-> dest, header |-> h, backend |-> liboqs["sender"],
                   raised |-> SealRaises(dest, h, liboqs["sender"])]
<1>1. seals' = seals \cup {new} /\ opens' = opens
  BY DEF Seal
<1>2. ReadOut' = ReadOut
  BY <1>1 DEF ReadOut, Taken
<1>3. \A l : l \in Posted <=> \E s \in seals : s.raised = "none" /\ l = LetterOf(s)
  BY PostedLetters DEF PostedAsSealed
<1>4. /\ \A l : l \in Posted' <=> \E s \in seals' : s.raised = "none" /\ l = LetterOf(s)
      /\ Posted' \subseteq Box!Letter
  <2>1. PostedAsSealed'
    BY PostedLetters, PTL
  <2> QED  BY <2>1 DEF PostedAsSealed, LetterOf
<1> HIDE DEF new
<1>5. CASE new.raised = "none"
  <2>1. Posted' = Posted \cup {LetterOf(new)}
    BY <1>1, <1>3, <1>4, <1>5
  <2> QED  BY <1>2, <1>4, <2>1
<1>6. CASE new.raised # "none"
  <2>1. Posted' = Posted
    BY <1>1, <1>3, <1>4, <1>6
  <2> QED  BY <1>2, <2>1
<1> QED  BY <1>5, <1>6

\* open_routed takes out a letter that was posted, or raises and takes none.
LEMMA OpenReads ==
    ASSUME Inv, NEW e \in wire \cup copies, NEW k \in Key \cup {BadKey}, Open(e, k)
    PROVE  /\ Posted' = Posted
           /\ \/ ReadOut' = ReadOut
              \/ \E l \in Posted : ReadOut' = ReadOut \cup {l}
<1> DEFINE new == [envelope |-> e, private |-> k, backend |-> liboqs["destination"],
                   raised |-> OpenRaises(e, k, liboqs["destination"])]
<1>1. opens' = opens \cup {new} /\ UNCHANGED <<seals, wire>>
  BY DEF Open
<1>2. Posted' = Posted
  BY <1>1 DEF Posted, SealOf
<1>3. CASE new.raised # "none"
  <2> HIDE DEF new
  <2>1. ReadOut' = ReadOut
    BY <1>1, <1>3 DEF ReadOut, Taken
  <2> QED  BY <1>2, <2>1
<1>4. CASE new.raised = "none"
  <2>1. PICK s \in seals : s.raised = "none" /\ IsCopyOf(e, s)
    BY InPlay
  <2>2. s.dest \in Key /\ s.header \in Header /\ liboqs["destination"] \in BOOLEAN
    BY <2>1, SealedUsable DEF Inv, TypeOK
  <2>3. k = s.dest /\ e = SealRouted(s.n, s.dest, s.header)
    BY <1>4, <2>1, <2>2, OpensOriginal
  <2>4. Taken(new) = LetterOf(s)
    BY <2>3 DEF Taken, LetterOf, SealRouted, AesGcmEncrypt
  <2>5. LetterOf(s) \in Posted
    BY <2>1, PostedLetters DEF PostedAsSealed
  <2> HIDE DEF new
  <2>6. ReadOut' = ReadOut \cup {Taken(new)}
    BY <1>1, <1>4 DEF ReadOut
  <2> QED  BY <1>2, <2>4, <2>5, <2>6
<1> QED  BY <1>3, <1>4

\* Every action is a step of the letterbox or leaves it alone.
LEMMA NextImplements ==
    ASSUME Inv, Inv', [Next]_vars
    PROVE  [Box!Next]_(Box!vars)
<1> SUFFICES \/ Posted' = Posted /\ ReadOut' = ReadOut
             \/ ReadOut' = ReadOut /\ \E l \in Box!Letter : Posted' = Posted \cup {l}
             \/ Posted' = Posted /\ \E l \in Posted : ReadOut' = ReadOut \cup {l}
  <2>1. Posted \subseteq Box!Letter
    BY PostedLetters DEF PostedAsSealed
  <2> QED  BY <2>1 DEF Box!Next, Box!vars, Box!Post, Box!Read, Posted, ReadOut, Taken
<1>1. CASE \E dest \in Key \cup {BadKey}, h \in Header \cup {NotJson} : Seal(dest, h)
  BY <1>1, SealPosts
<1>2. CASE \E e \in wire \cup copies, k \in Key \cup {BadKey} : Open(e, k)
  BY <1>2, OpenReads
<1>3. CASE UNCHANGED <<seals, wire, opens>>
  BY <1>3 DEF Posted, ReadOut, Taken, SealOf
<1>4. [Next]_vars => <1>1!1 \/ <1>2!1 \/ <1>3!1
  BY DEF Next, vars, Recode, Spoil, Rewrite, Switch
<1> QED  BY <1>1, <1>2, <1>3, <1>4

\* Senders, relays, transit and destinations together do what a letterbox does.
THEOREM RouteImplementsLetterbox == Spec => ImplementsLetterbox
<1>1. Init => Box!Init
  BY DEF Init, Box!Init
<1>2. Inv /\ Inv' /\ [Next]_vars => [Box!Next]_(Box!vars)
  BY NextImplements
<1> QED  BY <1>1, <1>2, InvHolds, PTL DEF Spec, ImplementsLetterbox, Box!Spec

============================================================================
