-------------------------------- MODULE PqDm --------------------------------
(***************************************************************************)
(* One direction of a hybrid-sealed conversation: src/sk_pqc/pqdm.py's     *)
(* PrekeyBundle, downgrade_lock_aad, seal, open_sealed and                 *)
(* negotiate_suite, with the callers its documentation describes:          *)
(*                                                                         *)
(*   - the recipient generates prekeys, publishes the newest in its peer   *)
(*     record, keeps some old private keys and erases others, and may      *)
(*     withdraw from hybrid;                                               *)
(*   - the sender fetches the peer record, negotiates a suite, records it  *)
(*     and sends under what it has recorded;                               *)
(*   - either end's liboqs backend may be missing at any call.             *)
(*                                                                         *)
(* These steps interleave freely, so a bundle, a recorded suite or a key   *)
(* may be out of date when it is used.  A peer record may lose fields, and *)
(* sealed blobs may arrive damaged, late, repeatedly or never.             *)
(***************************************************************************)
EXTENDS PqKem, Integers, FiniteSets

CONSTANTS
    Key,             \* prekeys the recipient may generate
    Context,         \* (sender, recipient) identifier pairs bound by callers
    NoHex,           \* hybrid_public_hex = ""
    BadHex,          \* a hybrid_public_hex that is not 1216 bytes of hex
    NotNegotiated,   \* the sender has recorded no suite yet
    MaxSends,        \* bound: messages
    MaxOpens,        \* bound: calls of open_sealed
    MaxDamaged       \* bound: damaged copies

ASSUME HexAssumption == NoHex # BadHex /\ {NoHex, BadHex} \cap Key = {}
ASSUME SendAssumption == {MaxSends, MaxOpens, MaxDamaged} \subseteq Nat

VARIABLES
    generated,     \* prekeys generated so far
    held,          \* those whose private key the recipient still has
    expected,      \* the suite the recipient believes is negotiated
    directory,     \* the recipient's published peer record
    bundle,        \* the sender's PrekeyBundle, parsed when last fetched
    recorded,      \* the suite the sender recorded
    liboqs,        \* whether the backend imports, per end
    sends,         \* history: every attempt to send, with its outcome
    blobs,         \* sealed blobs as they were sent
    damaged,       \* copies altered in transit
    opens          \* history: every call of open_sealed, with its outcome

vars == <<generated, held, expected, directory, bundle, recorded, liboqs, sends,
          blobs, damaged, opens>>

----------------------------------------------------------------------------
(* The prekey bundle. *)

HYBRID_SUITE == SUITE_ID
CLASSICAL_SUITE == "x25519-pgp-wrap-v1"
Suite == {HYBRID_SUITE, CLASSICAL_SUITE}
Hex == Key \cup {NoHex, BadHex}

Bundle == [suite : Suite, hybrid_public_hex : Hex]

\* PrekeyBundle() with its defaults.
ClassicalBundle == [suite |-> CLASSICAL_SUITE, hybrid_public_hex |-> NoHex]

IsHybrid(b) == b.suite = HYBRID_SUITE /\ b.hybrid_public_hex # NoHex

\* hybrid_public() returns; otherwise it raises PqDmFormatError.
HasHybridPublic(b) == b.hybrid_public_hex \notin {NoHex, BadHex}

ToDict(b) == b

\* data.get(field, default)
FieldOf(data, field, default) ==
    IF field \in DOMAIN data THEN data[field] ELSE default

\* Variant: no default for the suite.
FromDictNoDefault(data) ==
    [suite             |-> FieldOf(data, "suite", NoHex),
     hybrid_public_hex |-> FieldOf(data, "hybrid_public_hex", NoHex)]

\* Tolerant: a missing entry reads as a classical bundle's.
FromDict(data) ==
    [suite             |-> FieldOf(data, "suite", CLASSICAL_SUITE),
     hybrid_public_hex |-> FieldOf(data, "hybrid_public_hex", NoHex)]

\* Hybrid only when both ends offer it.
NegotiateSuite(localSupportsHybrid, b) ==
    IF localSupportsHybrid /\ IsHybrid(b) THEN HYBRID_SUITE ELSE CLASSICAL_SUITE

----------------------------------------------------------------------------
(* Seal and open. *)

\* Variant: the parties are left out.
SuiteOnlyAad(suite, context) == <<suite>>

\* Canonical JSON of the suite and the two parties.
DowngradeLockAad(suite, context) == <<suite, context>>

\* Variant: the wrap key forgets the shared secret.
WrapKeyOfAad(shared, aad) == HKDF(<<>>, <<>>, <<"pqdm/wrap", aad>>)

WrapKey(shared, aad) == HKDF(shared, <<>>, <<"pqdm/wrap", aad>>)

\* What seal raises, in the order it checks; "none" means the blob is returned.
SealRaises(b, backend) ==
    CASE ~(IsHybrid(b) /\ HasHybridPublic(b))             -> "PqDmFormatError"
      [] IsHybrid(b) /\ HasHybridPublic(b) /\ ~backend    -> "PqKemUnavailable"
      [] IsHybrid(b) /\ HasHybridPublic(b) /\ backend     -> "none"

\* The blob of message n.  `body' is the message, `key' the prekey: history.
Seal(n, b, context) ==
    LET pub == b.hybrid_public_hex
        aad == DowngradeLockAad(HYBRID_SUITE, context)
    IN  [ct     |-> Ciphertext(pub, <<n>>),
         sealed |-> AesGcmEncrypt(WrapKey(HybridEncap(pub, <<n>>), aad), n, aad),
         short  |-> FALSE,
         key    |-> pub]

\* Variant: the try block also covers the decapsulation.
OpenRaisesCatchAll(blob, private, context, expectedSuite, backend) ==
    LET aad == DowngradeLockAad(expectedSuite, context)
        key == WrapKey(HybridDecap(blob.ct, private), aad)
    IN  CASE blob.short -> "PqDmFormatError"
          [] ~blob.short /\ ~(backend /\ AesGcmOpens(key, blob.sealed, aad))
               -> "DowngradeDetected"
          [] OTHER -> "none"

\* What open_sealed does: "none" raised means the body is returned.
OpenRaises(blob, private, context, expectedSuite, backend) ==
    LET aad == DowngradeLockAad(expectedSuite, context)
        key == WrapKey(HybridDecap(blob.ct, private), aad)
    IN  CASE blob.short -> "PqDmFormatError"
          [] ~blob.short /\ ~backend -> "PqKemUnavailable"
          [] ~blob.short /\ backend /\ ~AesGcmOpens(key, blob.sealed, aad)
               -> "DowngradeDetected"
          [] OTHER -> "none"

----------------------------------------------------------------------------
(* The recipient. *)

\* hybrid_keypair, then publication of the bundle's dict.
Rotate(k) ==
    /\ liboqs["recipient"]
    /\ k \notin generated
    /\ generated' = generated \cup {k}
    /\ held' = held \cup {k}
    /\ directory' = ToDict([suite |-> HYBRID_SUITE, hybrid_public_hex |-> k])
    /\ expected' = HYBRID_SUITE
    /\ UNCHANGED <<bundle, recorded, liboqs, sends, blobs, damaged, opens>>

\* The private key of a prekey is erased.
Erase(k) ==
    /\ k \in held
    /\ held' = held \ {k}
    /\ UNCHANGED <<generated, expected, directory, bundle, recorded, liboqs, sends,
                   blobs, damaged, opens>>

\* A classical bundle is published in place of the hybrid one.
Withdraw ==
    /\ expected = HYBRID_SUITE
    /\ expected' = CLASSICAL_SUITE
    /\ directory' = ToDict(ClassicalBundle)
    /\ UNCHANGED <<generated, held, bundle, recorded, liboqs, sends, blobs, damaged,
                   opens>>

\* open_sealed on whatever arrived, with a key and in a conversation that may
\* not be the blob's.
Open(blob, k, context) ==
    /\ Cardinality(opens) < MaxOpens
    /\ opens' = opens \cup
         {[blob |-> blob, key |-> k, context |-> context, expected |-> expected,
           backend |-> liboqs["recipient"],
           raised |-> OpenRaises(blob, k, context, expected, liboqs["recipient"])]}
    /\ UNCHANGED <<generated, held, expected, directory, bundle, recorded, liboqs,
                   sends, blobs, damaged>>

----------------------------------------------------------------------------
(* The sender. *)

Fetch ==
    /\ bundle' = FromDict(directory)
    /\ UNCHANGED <<generated, held, expected, directory, recorded, liboqs, sends,
                   blobs, damaged, opens>>

\* negotiate_suite(is_available(), bundle), recorded for the conversation.
Negotiate ==
    /\ recorded' = NegotiateSuite(liboqs["sender"], bundle)
    /\ UNCHANGED <<generated, held, expected, directory, bundle, liboqs, sends, blobs,
                   damaged, opens>>

\* Variant: a sender that answers any error of seal with the classical path.
OutcomeFallback(suite, b, backend) ==
    IF suite = HYBRID_SUITE /\ SealRaises(b, backend) = "none"
    THEN "sealed" ELSE "classical"

\* What becomes of a message: it goes out sealed, or on the classical path, or
\* seal raises and nothing goes out.
Outcome(suite, b, backend) ==
    CASE suite = CLASSICAL_SUITE -> "classical"
      [] suite = HYBRID_SUITE /\ SealRaises(b, backend) = "none" -> "sealed"
      [] OTHER -> SealRaises(b, backend)

Send(context) ==
    /\ recorded # NotNegotiated
    /\ Cardinality(sends) < MaxSends
    /\ LET n       == Cardinality(sends)
           outcome == Outcome(recorded, bundle, liboqs["sender"])
       IN  /\ sends' = sends \cup {[body |-> n, context |-> context,
                                     recorded |-> recorded, outcome |-> outcome]}
           /\ blobs' = blobs \cup
                (IF outcome = "sealed" THEN {Seal(n, bundle, context)} ELSE {})
    /\ UNCHANGED <<generated, held, expected, directory, bundle, recorded, liboqs,
                   damaged, opens>>

----------------------------------------------------------------------------
(* The environment. *)

\* The stored record loses or garbles an entry.
Garble ==
    /\ \/ \E f \in DOMAIN directory :
            directory' = [g \in DOMAIN directory \ {f} |-> directory[g]]
       \/ /\ "hybrid_public_hex" \in DOMAIN directory
          /\ directory' = [directory EXCEPT !.hybrid_public_hex = BadHex]
    /\ UNCHANGED <<generated, held, expected, bundle, recorded, liboqs, sends, blobs,
                   damaged, opens>>

\* The backend of one end goes missing or comes back.
Switch(side) ==
    /\ liboqs' = [liboqs EXCEPT ![side] = ~@]
    /\ UNCHANGED <<generated, held, expected, directory, bundle, recorded, sends,
                   blobs, damaged, opens>>

\* A copy of a blob with a leg of its KEM ciphertext or its sealed body
\* altered, or cut below SEALED_MIN_LEN.
Damage ==
    /\ Cardinality(damaged) < MaxDamaged
    /\ \E b \in blobs :
         \E x \in {[b EXCEPT !.ct.x25519.intact = FALSE],
                   [b EXCEPT !.ct.mlkem.intact = FALSE],
                   [b EXCEPT !.sealed.intact = FALSE],
                   [b EXCEPT !.short = TRUE]} :
           damaged' = damaged \cup {x}
    /\ UNCHANGED <<generated, held, expected, directory, bundle, recorded, liboqs,
                   sends, blobs, opens>>

----------------------------------------------------------------------------
Init ==
    /\ generated = {} /\ held = {}
    /\ expected = CLASSICAL_SUITE
    /\ directory = ToDict(ClassicalBundle)
    /\ bundle = ClassicalBundle
    /\ recorded = NotNegotiated
    /\ liboqs \in [{"sender", "recipient"} -> BOOLEAN]
    /\ sends = {} /\ blobs = {} /\ damaged = {} /\ opens = {}

Next ==
    \/ \E k \in Key : Rotate(k)
    \/ \E k \in Key : Erase(k)
    \/ Withdraw
    \/ \E blob \in blobs \cup damaged, k \in held, c \in Context : Open(blob, k, c)
    \/ Fetch
    \/ Negotiate
    \/ \E c \in Context : Send(c)
    \/ Garble
    \/ \E side \in {"sender", "recipient"} : Switch(side)
    \/ Damage

Spec == Init /\ [][Next]_vars

----------------------------------------------------------------------------
(* Properties. *)

Raised == {"none", "PqDmFormatError", "PqKemUnavailable", "DowngradeDetected"}

\* Every variable has the shape the code gives it.
TypeOK ==
    /\ generated \subseteq Key
    /\ held \subseteq generated
    /\ expected \in Suite
    /\ DOMAIN directory \subseteq {"suite", "hybrid_public_hex"}
    /\ FromDict(directory) \in Bundle
    /\ bundle \in Bundle
    /\ recorded \in Suite \cup {NotNegotiated}
    /\ liboqs \in [{"sender", "recipient"} -> BOOLEAN]
    /\ sends \subseteq [body : Nat, context : Context, recorded : Suite,
                        outcome : Raised \cup {"sealed", "classical"}]
    /\ \A b \in blobs \cup damaged : b.key \in Key /\ b.short \in BOOLEAN
    /\ \A o \in opens : o.raised \in Raised

\* The attempt that a blob carries the message of.
SendOf(b) == CHOOSE s \in sends : s.body = b.sealed.body

\* Never a silent downgrade: a message whose recorded suite is hybrid goes out
\* sealed to a prekey the recipient generated, or seal raises and nothing goes
\* out, however stale the bundle, the record or the backend check was; and a
\* message whose recorded suite is classical has no sealed blob.
NoSilentDowngrade ==
    \A s \in sends :
      LET its == {b \in blobs : b.sealed.body = s.body}
      IN  IF s.outcome = "sealed"
          THEN /\ s.recorded = HYBRID_SUITE
               /\ \E b \in its : /\ its = {b}
                                 /\ b.key \in generated
                                 /\ b.sealed.aad = DowngradeLockAad(s.recorded, s.context)
          ELSE /\ its = {}
               /\ (s.outcome = "classical") <=> (s.recorded = CLASSICAL_SUITE)

\* open_sealed returns a body exactly when the blob is undamaged, the key is
\* the one it was sealed to, the parties are those of the sealing call, the
\* recipient believes in the suite it was sealed under and the backend works.
OpenExact ==
    \A o \in opens :
      (o.raised = "none") <=> /\ o.blob \in blobs
                              /\ o.key = o.blob.key
                              /\ o.context = SendOf(o.blob).context
                              /\ o.expected = SendOf(o.blob).recorded
                              /\ o.backend

\* A missing backend is reported as such, never as a downgrade, and an alarm is
\* raised only over damage, another key, other parties or another suite.
AlarmExplained ==
    \A o \in opens :
      o.raised = "DowngradeDetected" =>
        /\ o.backend
        /\ \/ o.blob \notin blobs
           \/ o.key # o.blob.key
           \/ o.context # SendOf(o.blob).context
           \/ o.expected # SendOf(o.blob).recorded

\* Forward secrecy of prekey rotation: what was sealed to an erased key opens
\* with no other key, in any conversation, under any suite.
ErasedIsGone ==
    \A b \in blobs \cup damaged : b.key \notin held =>
      \A k \in held, c \in Context, s \in Suite :
        OpenRaises(b, k, c, s, TRUE) # "none"

----------------------------------------------------------------------------
(* The sealed conversation implements a letterbox. *)

\* Readers are prekeys; the context is the suite and the parties.
Box == INSTANCE Letterbox WITH
    Reader  <- Key,
    Context <- Suite \X Context,
    Body    <- 0..(MaxSends - 1),
    posted  <- {[reader  |-> b.key,
                 context |-> <<SendOf(b).recorded, SendOf(b).context>>,
                 body    |-> b.sealed.body] : b \in blobs},
    read    <- {[reader  |-> o.key,
                 context |-> <<o.expected, o.context>>,
                 body    |-> o.blob.sealed.body] : o \in {x \in opens : x.raised = "none"}}

\* Every step of the two ends, of the peer record and of the network posts one
\* letter, takes one out as it was posted, or changes nothing there.
ImplementsLetterbox == Box!Spec

============================================================================
