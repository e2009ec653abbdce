------------------------------ MODULE PqRoute ------------------------------
(***************************************************************************)
(* The sealed routing envelope of src/sk_pqc/pqroute.py: a plaintext route *)
(* header for the relays, and an inner part sealed to the destination with *)
(* the header's bytes as associated data.                                  *)
(*                                                                         *)
(* Senders seal, relays read the header, rewrite it (back, too) or encode  *)
(* it anew, transit spoils copies, and destinations open any copy with any *)
(* private key.  Either end's liboqs backend may be missing at any call.   *)
(***************************************************************************)
EXTENDS PqKem, Integers, FiniteSets

CONSTANTS
    Header,          \* route headers with a JSON form
    NotJson,         \* a header json.dumps refuses; bytes json.loads refuses
    Key,             \* hybrid key pairs of the destinations
    BadKey,          \* key bytes of a wrong length
    MaxSeals,        \* bound: calls of seal_routed
    MaxCopies,       \* bound: altered copies
    MaxOpens         \* bound: calls of open_routed

ASSUME NameAssumption == NotJson \notin Header /\ BadKey \notin Key
ASSUME BoundAssumption == {MaxSeals, MaxCopies, MaxOpens} \subseteq Nat

VARIABLES
    liboqs,        \* whether the backend imports, per end
    seals,         \* history: every call of seal_routed, with its outcome
    wire,          \* envelopes as seal_routed returned them
    copies,        \* copies altered by relays or in transit
    opens          \* history: every call of open_routed, with its outcome

vars == <<liboqs, seals, wire, copies, opens>>

----------------------------------------------------------------------------
(* Route headers as bytes: what they encode, and whether canonically. *)

RouteBytes == [header : Header \cup {NotJson}, canonical : BOOLEAN]

Canonical(h) == [header |-> h, canonical |-> TRUE]

\* Variant: the suite alone is bound.
SuiteAad(route) == <<"pqroute1">>

Aad(route) == <<"pqroute1", route>>

\* Variant: the key comes from the header alone.
WrapKeyOfAad(shared, aad) == HKDF(aad, <<>>, <<"pqroute/wrap", aad>>)

WrapKey(shared, aad) == HKDF(shared, <<>>, <<"pqroute/wrap", aad>>)

----------------------------------------------------------------------------
(* The functions of the module. *)

\* Variant: the length of the key is not checked.
SealRaisesAnyKey(dest, h, backend) ==
    IF h # NotJson /\ backend THEN "none" ELSE "PqRouteFormatError"

\* What seal_routed raises; a missing backend is reported like bad arguments.
SealRaises(dest, h, backend) ==
    IF dest # BadKey /\ h # NotJson /\ backend THEN "none" ELSE "PqRouteFormatError"

\* The envelope of the n-th call.  `size' tells whether its length prefix fits
\* ("whole" or "headless"), or its inner part is below _SEALED_MIN_LEN ("short").
SealRouted(n, dest, h) ==
    LET aad == Aad(Canonical(h))
    IN  [size   |-> "whole",
         route  |-> Canonical(h),
         ct     |-> Ciphertext(dest, <<n>>),
         sealed |-> AesGcmEncrypt(WrapKey(HybridEncap(dest, <<n>>), aad), n, aad)]

\* _split_outer returns.
Splits(e) == e.size # "headless"

\* read_route_header returns e.route.header; otherwise PqRouteFormatError.
HeaderReadable(e) == Splits(e) /\ e.route.header # NotJson

\* replace_route_header; it does not look at the header it replaces.
ReplaceRouteHeader(e, h) == [e EXCEPT !.route = Canonical(h)]

\* open_routed: hybrid_decap returns, and so does AESGCM.decrypt.
Decapsulates(private, backend) == backend /\ private # BadKey

Decrypts(e, private) ==
    LET aad == Aad(e.route)
    IN  AesGcmOpens(WrapKey(HybridDecap(e.ct, private), aad), e.sealed, aad)

\* What open_routed raises; "none" means it returns header, metadata, content.
\* What decrypts was packed by seal_routed, so the inner checks pass.
OpenRaises(e, private, backend) ==
    CASE ~HeaderReadable(e) \/ e.size = "short" -> "PqRouteFormatError"
      [] HeaderReadable(e) /\ e.size # "short"
           /\ Decapsulates(private, backend) /\ Decrypts(e, private) -> "none"
      [] OTHER -> "PqRouteOpenError"

----------------------------------------------------------------------------
Seal(dest, h) ==
    /\ Cardinality(seals) < MaxSeals
    /\ LET n      == Cardinality(seals)
           raised == SealRaises(dest, h, liboqs["sender"])
       IN  /\ seals' = seals \cup {[n |-> n, dest |-> dest, header |-> h,
                                    backend |-> liboqs["sender"], raised |-> raised]}
           /\ wire' = wire \cup
                (IF raised = "none" THEN {SealRouted(n, dest, h)} ELSE {})
    /\ UNCHANGED <<liboqs, copies, opens>>

\* A relay replaces the header of an envelope, or encodes the one it read with
\* other white space or key order.
Rewrite(e, h) ==
    /\ Cardinality(copies) < MaxCopies
    /\ Splits(e)
    /\ copies' = copies \cup {ReplaceRouteHeader(e, h)}
    /\ UNCHANGED <<liboqs, seals, wire, opens>>

Recode(e) ==
    /\ Cardinality(copies) < MaxCopies
    /\ HeaderReadable(e)
    /\ copies' = copies \cup {[e EXCEPT !.route.canonical = FALSE]}
    /\ UNCHANGED <<liboqs, seals, wire, opens>>

\* Transit alters the header, its length prefix, the KEM ciphertext or the
\* sealed body, or cuts the end off.
Spoil(e) ==
    /\ Cardinality(copies) < MaxCopies
    /\ \E x \in {[e EXCEPT !.route.header = NotJson],
                 [e EXCEPT !.size = "headless"],
                 [e EXCEPT !.size = "short"],
                 [e EXCEPT !.ct.x25519.intact = FALSE],
                 [e EXCEPT !.ct.mlkem.intact = FALSE],
                 [e EXCEPT !.sealed.intact = FALSE]} :
         copies' = copies \cup {x}
    /\ UNCHANGED <<liboqs, seals, wire, opens>>

Open(e, private) ==
    /\ Cardinality(opens) < MaxOpens
    /\ opens' = opens \cup
         {[envelope |-> e, private |-> private, backend |-> liboqs["destination"],
           raised |-> OpenRaises(e, private, liboqs["destination"])]}
    /\ UNCHANGED <<liboqs, seals, wire, copies>>

\* The backend of one end goes missing or comes back.
Switch(side) ==
    /\ liboqs' = [liboqs EXCEPT ![side] = ~@]
    /\ UNCHANGED <<seals, wire, copies, opens>>

----------------------------------------------------------------------------
Init ==
    /\ liboqs \in [{"sender", "destination"} -> BOOLEAN]
    /\ seals = {} /\ wire = {} /\ copies = {} /\ opens = {}

Next ==
    \/ \E dest \in Key \cup {BadKey}, h \in Header \cup {NotJson} : Seal(dest, h)
    \/ \E e \in wire \cup copies, h \in Header : Rewrite(e, h)
    \/ \E e \in wire \cup copies : Recode(e)
    \/ \E e \in wire \cup copies : Spoil(e)
    \/ \E e \in wire \cup copies, k \in Key \cup {BadKey} : Open(e, k)
    \/ \E side \in {"sender", "destination"} : Switch(side)

Spec == Init /\ [][Next]_vars

----------------------------------------------------------------------------
(* Properties. *)

\* Every variable has the shape the code gives it; every envelope in play, however
\* altered, comes from a call of seal_routed that had a usable key and header.
TypeOK ==
    /\ liboqs \in [{"sender", "destination"} -> BOOLEAN]
    /\ seals \subseteq [n : Nat, dest : Key \cup {BadKey},
                        header : Header \cup {NotJson}, backend : BOOLEAN,
                        raised : {"none", "PqRouteFormatError"}]
    /\ \A e \in wire \cup copies :
         /\ e.route \in RouteBytes /\ e.size \in {"whole", "headless", "short"}
         /\ \E s \in seals : /\ s.n = e.sealed.body /\ s.raised = "none"
                            /\ s.dest \in Key /\ s.header \in Header
    /\ \A o \in opens : o.private \in Key \cup {BadKey} /\ o.backend \in BOOLEAN

\* The call that sealed the inner part of an envelope.
SealOf(e) == CHOOSE s \in seals : s.n = e.sealed.body

\* open_routed returns exactly what was sealed to that key under that header,
\* byte for byte: not under a header any relay rewrote or only encoded anew, but
\* again once the header is restored, wherever the envelope has been.
OpensAsSealed ==
    \A o \in opens :
      (o.raised = "none") <=>
        /\ o.backend
        /\ o.private = SealOf(o.envelope).dest
        /\ o.envelope = SealRouted(SealOf(o.envelope).n, SealOf(o.envelope).dest,
                                   SealOf(o.envelope).header)

\* What the documentation of open_routed and seal_routed says of a missing
\* backend: PqKemUnavailable is propagated from the KEM.
BackendLossPropagates ==
    /\ \A s \in seals :
         s.dest # BadKey /\ s.header # NotJson /\ ~s.backend =>
           s.raised = "PqKemUnavailable"
    /\ \A o \in opens :
         HeaderReadable(o.envelope) /\ o.envelope.size # "short" /\ ~o.backend =>
           o.raised = "PqKemUnavailable"

----------------------------------------------------------------------------
(* The routing envelope implements a letterbox. *)

\* Readers are key pairs; the context is the route header, as bytes.
Box == INSTANCE Letterbox WITH
    Reader  <- Key,
    Context <- RouteBytes,
    Body    <- 0..(MaxSeals - 1),
    posted  <- {[reader  |-> SealOf(e).dest,
                 context |-> Canonical(SealOf(e).header),
                 body    |-> e.sealed.body] : e \in wire},
    read    <- {[reader  |-> o.private,
                 context |-> o.envelope.route,
                 body    |-> o.envelope.sealed.body] : o \in {x \in opens : x.raised = "none"}}

\* Every step of senders, relays, transit and destinations posts one letter,
\* takes one out under the header it was posted with, or changes nothing there.
ImplementsLetterbox == Box!Spec

============================================================================
