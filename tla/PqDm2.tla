------------------------------- MODULE PqDm2 -------------------------------
(***************************************************************************)
(* The multi-recipient envelope of src/sk_pqc/pqdm.py: seal_multi seals a  *)
(* body once and wraps its message key to every device of both parties,    *)
(* open_multi finds the caller's own slot and opens.                       *)
(*                                                                         *)
(* Tokens lie in a store, where parts of them may be damaged, dropped,     *)
(* reordered, repeated, relabelled or mixed up with those of other tokens, *)
(* and where any header may be written.  The store has no device's key.    *)
(* open_multi changes no state; the properties range over every call of it.*)
(*                                                                         *)
(* Identifiers are free strings, and the code joins them: a text is here a *)
(* sequence of numbers, so that joins coincide where those of the code do. *)
(***************************************************************************)
EXTENDS PqKem, SequencesExt, Integers

CONSTANTS
    Entry,          \* recipient dicts: [key_id, hybrid_public_hex]
    Context,        \* what callers name: [sender, recipient], two texts
    HYBRID_SUITE,   \* the suite id, a text
    Bar,            \* the character "|"
    NoKeyId,        \* a dict without key_id
    LongKeyId,      \* a key_id of more than 255 bytes
    BadHex,         \* a hybrid_public_hex that does not decode to 1216 bytes
    Suites,         \* the suite ids a store writes into headers
    KidLists,       \* the lists of strings a store writes into headers
    SlotLabels,     \* the key ids a store writes over those of slots
    MaxSlots,       \* bound: recipients per token
    MaxTokens,      \* bound: tokens
    MaxAltered      \* bound: altered tokens in the store

Text == Seq(Nat)

ASSUME EntryAssumption ==
    \A e \in Entry :
      /\ e = [key_id |-> e.key_id, hybrid_public_hex |-> e.hybrid_public_hex]
      /\ e.key_id \in {NoKeyId, LongKeyId} \cup Text
ASSUME ContextAssumption ==
    \A c \in Context :
      /\ c = [sender |-> c.sender, recipient |-> c.recipient]
      /\ c.sender \in Text /\ c.recipient \in Text
ASSUME SuiteAssumption ==
    Bar \in Nat /\ HYBRID_SUITE \in Text /\ Bar \notin ToSet(HYBRID_SUITE)
ASSUME HeaderAssumption == Suites \subseteq Text /\ KidLists \subseteq Seq(Text)
ASSUME TokenAssumption == {MaxSlots, MaxTokens, MaxAltered} \subseteq Nat

VARIABLES
    tokens,     \* what seal_multi returned, each with its call: history
    altered     \* what the store made of them

vars == <<tokens, altered>>

----------------------------------------------------------------------------
(* The envelope. *)

\* Python's order of strings.
Before(x, y) ==
    \E n \in 1..Len(y) :
      /\ \A i \in 1..(n - 1) : i <= Len(x) /\ x[i] = y[i]
      /\ n <= Len(x) => x[n] < y[n]

\* The place of element i in the sorted list; equal ones keep their order.
Place(s, i) ==
    Cardinality({j \in DOMAIN s : Before(s[j], s[i]) \/ (s[j] = s[i] /\ j <= i)})

Sorted(s) == [p \in DOMAIN s |-> s[CHOOSE i \in DOMAIN s : Place(s, i) = p]]

\* "".join(sorted(kids)), of which the AAD carries the digest.
Joined(kids) == FlattenSeq(Sorted(kids))

\* suite || "|" || sender || "|" || recipient: nothing marks a "|" that is part of
\* an identifier.
Named(suite, context) ==
    suite \o <<Bar>> \o context.sender \o <<Bar>> \o context.recipient

\* Variant: the parties are left out.
SlotSetAad(suite, context, kids) == <<suite, Joined(kids)>>

\* Variant: the slot-set is left out.
PartiesAad(suite, context, kids) == <<Named(suite, context), <<>>>>

\* The digest, of fixed length, ends the AAD.
Pqdm2Aad(suite, context, kids) == <<Named(suite, context), Joined(kids)>>

Pqdm2WrapKey(shared) == HKDF(shared, <<>>, <<"pqdm2-wrap">>)

\* AES-GCM under an explicit nonce: it opens under the same nonce only.
Bound(nonce, aad) == <<nonce, aad>>

Kids(recipients) == [i \in DOMAIN recipients |-> recipients[i].key_id]

\* A slot is whole unless the slot region was cut inside it.
SealSlot(n, i, r) ==
    LET shared == HybridEncap(r.hybrid_public_hex, <<n, i>>)
    IN  [key_id  |-> r.key_id,
         encap   |-> Ciphertext(r.hybrid_public_hex, <<n, i>>),
         wrapped |-> AesGcmEncrypt(Pqdm2WrapKey(shared), <<"K", n>>, Bound(n, <<>>)),
         whole   |-> TRUE]

\* Message n: its message key is <<"K", n>>, its nonce and its body n.
SealMulti(n, recipients, context) ==
    [suite |-> HYBRID_SUITE,
     kids  |-> Kids(recipients),
     slots |-> [i \in DOMAIN recipients |-> SealSlot(n, i, recipients[i])],
     nonce |-> n,
     ct    |-> AesGcmEncrypt(<<"K", n>>, n,
                 Bound(n, Pqdm2Aad(HYBRID_SUITE, context, Kids(recipients))))]

\* Variant: the public keys are not decoded.
SealsAnyHex(recipients) ==
    /\ recipients # <<>>
    /\ \A i \in DOMAIN recipients : recipients[i].key_id \notin {NoKeyId, LongKeyId}

\* seal_multi returns; otherwise it raises and there is no token.
Seals(recipients) ==
    /\ recipients # <<>>
    /\ \A i \in DOMAIN recipients :
         /\ recipients[i].key_id \notin {NoKeyId, LongKeyId}
         /\ recipients[i].hybrid_public_hex # BadHex

\* Variant: the key id is not looked at.
AnySlot(token, my_key_id) == DOMAIN token.slots

\* The slots with this key id.
Mine(token, my_key_id) == {i \in DOMAIN token.slots : token.slots[i].key_id = my_key_id}

\* Variant: the slot region is parsed to its end first.
AllParsed(token, i) == \A j \in DOMAIN token.slots : token.slots[j].whole

\* The walk, which parses as it goes, gets to slot i.
Reached(token, i) == \A j \in 1..i : token.slots[j].whole

\* Whether open_multi returns the body; otherwise it returns None.  Only the
\* first slot with the caller's key id is tried.  The message key comes out of
\* the slot, the AAD is computed from the header and the caller's parties.
Opens(token, my_key_id, my_private, context) ==
    \E i \in Mine(token, my_key_id) :
      LET slot == token.slots[i]
          key  == Pqdm2WrapKey(HybridDecap(slot.encap, my_private))
          aad  == Pqdm2Aad(token.suite, context, token.kids)
      IN  /\ \A j \in Mine(token, my_key_id) : i <= j
          /\ Reached(token, i)
          /\ AesGcmOpens(key, slot.wrapped, Bound(token.nonce, <<>>))
          /\ AesGcmOpens(slot.wrapped.body, token.ct, Bound(token.nonce, aad))

----------------------------------------------------------------------------
(* The store. *)

Replaced(slots, i, slot) == [slots EXCEPT ![i] = slot]

\* What a store may put for a header, and make of a slot region.
Headers(t) == [suite : {t.suite} \cup Suites, kids : {t.kids} \cup KidLists]

SlotRegions(t) ==
    {t.slots, Reverse(t.slots), t.slots \o t.slots}
    \cup UNION {{RemoveAt(t.slots, i),
                 Replaced(t.slots, i, [t.slots[i] EXCEPT !.whole = FALSE]),
                 Replaced(t.slots, i, [t.slots[i] EXCEPT !.encap.x25519.intact = FALSE]),
                 Replaced(t.slots, i, [t.slots[i] EXCEPT !.encap.mlkem.intact = FALSE]),
                 Replaced(t.slots, i, [t.slots[i] EXCEPT !.wrapped.intact = FALSE])}
                \cup {Replaced(t.slots, i, [t.slots[i] EXCEPT !.key_id = label]) :
                        label \in SlotLabels}
                : i \in DOMAIN t.slots}

\* A token put together from parts of sealed ones.
Alter(h, region, z) ==
    /\ Cardinality(altered) < MaxAltered
    /\ altered' = altered \cup
         {[suite |-> h.suite, kids |-> h.kids, slots |-> region,
           nonce |-> z.nonce, ct |-> z.ct]}
    /\ UNCHANGED tokens

\* A token with a damaged body.
Damage(t) ==
    /\ Cardinality(altered) < MaxAltered
    /\ altered' = altered \cup {[t EXCEPT !.ct.intact = FALSE]}
    /\ UNCHANGED tokens

\* seal_multi, as a sender calls it.
Seal(recipients, context) ==
    /\ Cardinality(tokens) < MaxTokens
    /\ Seals(recipients)
    /\ tokens' = tokens \cup
         {[token      |-> SealMulti(Cardinality(tokens), recipients, context),
           recipients |-> recipients,
           context    |-> context]}
    /\ UNCHANGED altered

----------------------------------------------------------------------------
Init == tokens = {} /\ altered = {}

RecipientLists == UNION {[1..n -> Entry] : n \in 0..MaxSlots}

Next ==
    \/ \E rs \in RecipientLists, c \in Context : Seal(rs, c)
    \/ \E x, y, z \in tokens :
         \E h \in Headers(x.token), region \in SlotRegions(y.token) :
           Alter(h, region, z.token)
    \/ \E x \in tokens : Damage(x.token)

Spec == Init /\ [][Next]_vars

----------------------------------------------------------------------------
(* Properties. *)

Usable(e) == e.key_id \notin {NoKeyId, LongKeyId} /\ e.hybrid_public_hex # BadHex

\* Every variable has the shape the code gives it; in particular only usable
\* recipients get a slot.
TypeOK ==
    /\ \A s \in tokens :
         /\ s.context \in Context
         /\ s.token.kids = Kids(s.recipients)
         /\ \A i \in DOMAIN s.token.slots :
              \E e \in Entry :
                /\ Usable(e)
                /\ e.key_id = s.token.slots[i].key_id
                /\ e.hybrid_public_hex = s.token.slots[i].encap.mlkem.pub
    /\ \A a \in altered : DOMAIN a = {"suite", "kids", "slots", "nonce", "ct"}

Tokens == {s.token : s \in tokens} \cup altered

\* A device: the key id it goes by and its private key.
Device == {e \in Entry : Usable(e)}

\* The call that sealed the body of a token.
SealOf(t) == CHOOSE s \in tokens : s.token.ct.body = t.ct.body

\* Neither identifier has the character that separates them.
Separable(context) == Bar \notin ToSet(context.sender) \cup ToSet(context.recipient)

\* Whatever a store does to tokens, a device gets a body out of one only if the
\* body was sealed to this device's key, and the suite and the parties read the
\* same, separated by "|", as when it was sealed.  They are then the same if no
\* identifier has a "|"; a conversation ("a|b", "c") opens as ("a", "b|c").
OpensOnlyWhatWasSealed ==
    \A t \in Tokens, e \in Device, c \in Context :
      Opens(t, e.key_id, e.hybrid_public_hex, c) =>
        LET s == SealOf(t)
        IN  /\ t.ct = s.token.ct
            /\ \E i \in DOMAIN s.recipients :
                 s.recipients[i].hybrid_public_hex = e.hybrid_public_hex
            /\ Named(t.suite, c) = Named(HYBRID_SUITE, s.context)
            /\ Separable(c) /\ Separable(s.context) =>
                 c = s.context /\ t.suite = HYBRID_SUITE

\* Every device a body was sealed to opens it, unless another device with the
\* same key id comes before it in the list.
EveryDeviceOpens ==
    \A s \in tokens : \A i \in DOMAIN s.recipients :
      LET e == s.recipients[i]
      IN  (\A j \in 1..(i - 1) : s.recipients[j].key_id = e.key_id => s.recipients[j] = e)
            => Opens(s.token, e.key_id, e.hybrid_public_hex, s.context)

\* One list is the other in some order.
Reordered(s, t) ==
    \E p \in Bijection(DOMAIN s, DOMAIN t) : \A i \in DOMAIN s : s[i] = t[p[i]]

\* Strings of one length, and not empty.
OfOneLength(strings) == \A x, y \in strings : Len(x) = Len(y) /\ x # <<>>

\* The header's list of devices is bound to the body as far as its digest goes:
\* a store may write any list that sorts and joins to the same text, ["12"] for
\* ["1", "2"], and no other.  Among lists of strings of one length these are the
\* reorderings.
HeaderBound ==
    \A t \in Tokens, e \in Device, c \in Context :
      Opens(t, e.key_id, e.hybrid_public_hex, c) =>
        LET kids == SealOf(t).token.kids
        IN  /\ Joined(t.kids) = Joined(kids)
            /\ OfOneLength(ToSet(t.kids) \cup ToSet(kids)) => Reordered(t.kids, kids)

\* Slots are independent: damage to the others, or to the region after it,
\* takes the body from no device whose own slot is sound and within reach.
IndependentSlots ==
    \A t \in altered : \A i \in DOMAIN t.slots :
      LET s == SealOf(t)
      IN  (/\ [t EXCEPT !.slots = s.token.slots] = s.token
           /\ \A j \in 1..i : t.slots[j].whole
           /\ \A j \in 1..(i - 1) : t.slots[j].key_id # t.slots[i].key_id)
          => \A k \in DOMAIN s.recipients :
               t.slots[i] = s.token.slots[k]
                 => Opens(t, s.recipients[k].key_id, s.recipients[k].hybrid_public_hex,
                          s.context)

\* What the documentation of the AAD says: a token that has lost a slot does not
\* open, even for the devices whose slots are still there.
SlotLossDetected ==
    \A t \in Tokens, e \in Device, c \in Context :
      Opens(t, e.key_id, e.hybrid_public_hex, c) =>
        {t.slots[i].key_id : i \in DOMAIN t.slots} = ToSet(SealOf(t).token.kids)

============================================================================
