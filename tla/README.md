# A TLA+ model of sk-pqc (Python)

`sk_pqc` is a library of hybrid post-quantum building blocks: a KEM that
combines X25519 with ML-KEM-768, and five constructions on top of it. The
library starts no threads and opens no sockets. What makes it hard to get right
is the order in which its callers' steps meet: rekeys against late messages,
rotations against blobs under way, a backend that disappears between
negotiation and use, payloads that arrive twice, damaged, or under another
label, threads that look for the backend at the same time. The modules
here state what the code does in each call; TLC looks at the orders on small
instances, and TLAPS proves every property but liveness for all of them.

All line numbers refer to files under `src/`; `PROJECT.json` has the line range
of every definition.

## The system

| Component | State it keeps | Operations | Correct when |
| --- | --- | --- | --- |
| `pqkem` hybrid KEM | none | `hybrid_keypair`, `hybrid_encap`, `hybrid_decap`, `is_available` | both ends derive one secret; another key or an altered ciphertext gives another secret, not an error |
| liboqs discovery (`ensure_liboqs_path`, `_import_oqs`) | two environment variables, `sys.modules` | called before every KEM operation | the operator's settings stand, a prebuilt library is used, children are led to the library their parent has; a missing backend is a hard error |
| `group_ratchet`, `dm_ratchet` | per ratchet object: epoch, secret, next index, start time | `new_epoch_secret`, `wrap_*`, `unwrap_*`, `derive_*_message_key`, `next_outbound_key`, `message_key`, `should_rekey` | members of an epoch agree on its secret, outsiders derive nothing, a key is used once, rekey bounds hold, loss and reordering do not matter |
| `pqdm` one-shot seal | none; callers keep prekeys, bundles and a recorded suite | `PrekeyBundle.from_dict`, `negotiate_suite`, `seal`, `open_sealed` | never a silent downgrade; a body comes out exactly where it was sealed to; alarms have a cause |
| `pqdm` multi-recipient envelope (`pqdm2`) | none; tokens lie in a store | `seal_multi`, `open_multi` | every device opens, nobody else does, however a store mixes tokens |
| `pqroute` sealed routing | none | `seal_routed`, `read_route_header`, `replace_route_header`, `open_routed` | a rewritten header does not open; errors keep their meaning |
| `anon_queue` | none; callers keep ids and secrets | `new_queue_pair`, `encode_aqid`, `decode_aqid`, `auth_tag`, `verify_tag` | a published address leads to its queue, a miscopied one nowhere it does not spell; what verifies was posted for that queue |
| `crypto_suites` | a dict filled at import | `register`, look-ups | no classical or unknown suite reports itself quantum-resistant |
| `__init__` | none | re-exports | - |
| `docs/api` | none | pages and a search script that pdoc generates | - |

Interaction: every construction calls `pqkem` and AES-GCM / HKDF of the package
`cryptography`; the constructions do not call each other. Callers carry what
passes between two parties (wrapped epoch secrets, sealed bodies, tokens, peer
records) and choose when to rekey, rotate, refetch or retry. The repository's
own caller of the ratchets is `examples/dm_ratchet_roundtrip.py`.

The hard behaviours are listed one by one, with their lines and the properties
that guard them, under `hazards` in `PROJECT.json`.

## Modules

| Module | Models | Kind |
| --- | --- | --- |
| `PqKem` | `pqkem.py`, and the primitives, as symbolic terms | operators |
| `EpochRatchet` | `group_ratchet.py` and `dm_ratchet.py` with their callers and the network | state machine |
| `EpochChannel` | what the ratchets promise, with no keys in it | abstract specification |
| `EpochRatchetProofs` | theorems about `EpochRatchet` | proofs |
| `PqKemProofs` | lemmas about the terms of `PqKem`, for the modules below | proofs |
| `PqDmProofs`, `PqDm2Proofs`, `PqRouteProofs`, `AnonQueueProofs`, `LiboqsPathProofs` | theorems about the modules they are named after | proofs |
| `ListLemmas` | what flattening and folding lists compute, for the modules above | proofs |
| `PqDm` | `pqdm.py` lines 85-377 with sender, recipient, peer record and backend | state machine |
| `PqDm2` | `pqdm.py` lines 380-603 with a store of tokens | state machine |
| `PqRoute` | `pqroute.py` with relays, transit and backends | state machine |
| `Aqid` | the address codec of `anon_queue.py` | operators |
| `AnonQueue` | `anon_queue.py` with recipients, peers and a relay | state machine |
| `Letterbox` | what `seal`, `seal_routed` and `auth_tag` promise, with no keys in it | abstract specification |
| `LiboqsPath` | `pqkem.py` lines 117-169 with threads, processes and the file system | state machine |
| `MCEpochRatchet`, `MCPqDm`, `MCPqDm2`, `MCPqRoute`, `MCAnonQueue`, `MCLiboqsPath` | instances for TLC | model checking |

### Symbolic terms (`PqKem`)

A key, a secret or a ciphertext is the tuple of what it was computed from, so
two are equal iff their inputs are. This assumes of the primitives:

- HKDF-SHA256 is collision free, and its outputs are never found by guessing;
- X25519 gives both ends one secret; ML-KEM-768 decapsulation never fails and
  returns the encapsulated secret iff key and ciphertext are the right ones
  (implicit rejection, `pqkem.py` 300-304);
- an AES-GCM ciphertext opens iff it is intact and key, nonce and associated
  data are those it was sealed with, for one key only;
- fresh randomness never repeats.

A key pair has one name for both halves. Formats, lengths and encodings are left
out except where a caller can meet a wrong one (a bundle whose key is no hex, a
blob that is too short, a slot region that was cut).

### The ratchets (`EpochRatchet`)

The two ratchet files are line-for-line twins whose labels differ; `Domain` is
the label, and the map names sometimes one file and sometimes the other. Variables and what
they stand for:

| Variable | In the code |
| --- | --- |
| `ratchets[p]` | the `EpochRatchet` / `DmRatchet` objects of p, one per epoch, with the dataclass's fields |
| `wraps`, `damagedWraps` | payloads of `wrap_epoch_secret` in the network, each with the epoch number the caller sends along, and damaged copies |
| `sent`, `damagedMsgs` | messages with the carried (epoch, index), and damaged copies |
| `now`, `drawn` | `time.time()`; how many secrets `os.urandom` has returned |
| `epoch`, `minted` | the distributor's newest epoch; the secret, roster and birth of every epoch |
| `opened` | what `receive` returned |

`StartEpoch` mints a secret for a roster that may drop and add members; `Wrap`
is one round of the distribution loop, so that a loop that stops half way is a
behaviour; `Unwrap` is `unwrap_epoch_secret` and the construction of the
receiver's ratchet; `Send` is `should_rekey`, `next_outbound_key` and the
sealing; `Receive` derives the key of the carried (epoch, index). Networks lose,
delay, repeat and reorder because nothing ever leaves `wraps` and `sent` and
nothing has to be taken from them. A call that raises changes no state, so
errors are states where an action is disabled. `Tick` sets the clock to any time,
an earlier one included: `time.time()` is a wall clock, and the age in the code
and in `EpochAgeBound` is what that clock shows.

What the callers are assumed to do: keep one ratchet per epoch, send from the
newest one they have, and (with `ConsultRekey`) ask `should_rekey` before each
send. `Senders` says who sends; `WrapDamage` says what transit may do to a
payload, the unauthenticated label beside it included.

### The channel (`EpochChannel`)

Epochs with readers; a reader of an epoch posts in it, and reads what was posted
in it. `EpochRatchet!ImplementsChannel` is the refinement: `readers` are the
roster members that can take part (they have a hybrid key, or are the
distributor), `posted` and `read` are `sent` and `opened` without keys and
indices. It is checked by TLC and proved.

### One-shot seal (`PqDm`)

`Rotate`, `Erase` and `Withdraw` are the recipient's key handling; `Fetch`,
`Negotiate` and `Send` the sender's steps, which the code leaves to the caller
and which may therefore be any time apart; `Open` is `open_sealed` with any
private key the recipient holds and in any conversation, under the suite the
recipient believes in. `Garble` loses or spoils entries of the stored peer
record, `Switch` takes a backend away or brings it back, `Damage` alters blobs.
`SealRaises` and `OpenRaises` keep the order of the checks in the code, which is
the order of the errors.

### Multi-recipient envelope (`PqDm2`)

`Seal` is `seal_multi` on any list of recipient dicts, usable or not; `Alter`
builds a token from the slots and bodies of any sealed tokens under any header,
with slots reordered, repeated, dropped, relabelled, cut or damaged. The store
that does so holds no device's key: it makes no slots or bodies of its own.
`open_multi` keeps no state, so the properties quantify over all its calls
(`Opens`). A missing backend makes it return `None` and is not modelled apart
from that.

`_pqdm2_aad` puts free strings in a row twice, and both times distinct arguments
can give equal bytes. The model has texts as sequences, so that it coincides where
the code does:

- Suite, sender and recipient are joined by "|" without escapes (`Named`,
  `pqdm.py` 444-452). A token sealed for the parties "a|b" and "c" opens in the
  conversation of "a" and "b|c", and under the suite S followed by "|a" one for
  "a|b" and "c" opens in that of "b" and "c".
- The sorted key ids are joined by nothing (`Joined`, line 443), and the list
  that is checked is the one in the header (line 585), which a store may write.
  The lists `["12"]` and `["", "1", "2"]` do for `["1", "2"]`.

Which key opens a slot does not depend on either, so the body reaches nobody it was
not sealed to. `OpensOnlyWhatWasSealed` and `HeaderBound` say exactly what is
bound: the joined texts, and so the parties where no identifier has a "|", and the
list up to its order where all its strings have one length. No document says
which characters identifiers may have.

### Sealed routing envelope (`PqRoute`)

`Seal` is `seal_routed` with any key and header, usable or not; `Rewrite` is
`replace_route_header` at a relay, `Recode` a relay that parses the header and
encodes it again with other white space, `Spoil` damage on the way, `Open`
`open_routed` on any copy with any private key. A header is modelled as bytes:
the fields and whether they are encoded canonically, because `open_routed` binds
the bytes it received and does not canonicalise them. `read_route_header`
changes nothing and is the predicate `HeaderReadable`. The packing of metadata
and content inside the sealed part is left out: whatever decrypts was packed by
`seal_routed`.

### Anonymous queues (`Aqid`, `AnonQueue`)

`NewQueue` is `new_queue_pair` and `encode_aqid`; `Miscopy` makes one mistake
anywhere in the address on its way to the peer; `Decode` is `decode_aqid`, `Post` and
`Deliver` are `auth_tag` and `verify_tag`. The library has no transport: the
relay is whatever hands a tag, with any nonce and message, to any queue. The
secret of a queue is shared out of band and named by the queue.

`Aqid` does not take base64 to be exact. `Reading` goes through the text
character by character as CPython's `binascii.a2b_base64` does in its lenient
mode: characters outside the alphabet are skipped, the standard alphabet is
accepted beside the url-safe one, spare bits are dropped, and pads count from
the third place on and may end the input early. Several texts therefore decode to
one id. And `decode_aqid` parts an address at its first "/" (line 163), which is
also a data character of the standard alphabet: if the delimiter was lost in
copying, the rest of the relay and the beginning of the id up to the next "/" are
taken for the relay. The code accepts all this, although the docstring of
`decode_aqid` (lines 152-156) has it raise for a "non-base64url id" and for
"anything malformed"; `DecodesWhatWasTyped` says how far the leniency goes.
Relays and ids are texts of ASCII characters: a relay with others is
not modelled, and an id with others raises in `urlsafe_b64decode`. The operators are folds over texts of any length;
the instance uses ids of one byte, which like those of 16 leave four spare bits.

### The letterbox (`Letterbox`)

A letter is put in for a reader under a context and taken out, any number of
times, by that reader and under that context only. `PqDm`, `PqRoute` and
`AnonQueue` each implement it: readers are the holders of a private key or of a
queue's secret; the context is suite and parties, route header, or nonce; the
body is the message (`PqDm`, `AnonQueue`) or the sealing call (`PqRoute`). One
specification for three constructions says in one place what sealing means, and
that keys, ciphertexts and damage in the detailed modules are only a way to it.

### liboqs discovery (`LiboqsPath`)

Each thread walks through `_import_oqs` in the steps at which another one may
come between: the early return (`Enter`), one candidate prefix after another
(`Refuse`, `Take`, `Forbidden`, `NoneLeft`), the export of `OQS_INSTALL_PATH`
(`Export`), reading and writing `LD_LIBRARY_PATH` (`ReadPath`, `WritePath`), and
`Import`, which Python's import lock makes one step. `todo` and `seen` are the
local variables `candidates` and `existing`. `Install` and `Uninstall` change
the file system at any time, and `Replace` ends the process at any point and
starts one with a configured environment or with the one it inherits. The
call may raise where the code can: `Path.home()` without a home directory,
even if `SK_PQC_LIBOQS` is set, and `exists()` in a directory that may not be
searched. Both escape `is_available`, although line 123 says "never raises".

What is loaded under `OQS_INSTALL_PATH`, and that `oqs` otherwise finds or builds
a library itself or fails, is external (docstring, lines 118-123).
`SOP.md` line 321 calls `SK_PQC_LIBOQS` the "highest-priority hint"; that is so
among the candidates (`BestIsExported`), while an exported `OQS_INSTALL_PATH`
comes before all of them.

### Variants

Definitions whose comment begins with "Variant" are not part of a specification.
Each is a definition as a slip in the code would have made it, and put in the
place of the right one it makes TLC find a property violated. They show that the
properties can fail, and are listed under `mutants` in `PROJECT.json`.

## Runs

| Run | Instance | Question | States |
| --- | --- | --- | --- |
| `RatchetGroup` | 3 members, 1 sender, 2 epochs, 2 messages, 1 damaged copy, labels included | roster secrecy, leaks, refinement | 38 thousand |
| `RatchetDm` | 2 members, 1 sender, 3 epochs, 3 messages, index modulo 2, clock set anywhere in 0..1 | key uniqueness, both rekey bounds | 87 thousand |
| `RatchetLive` | 3 members, one without a hybrid key, 2 senders | agreement, delivery, refinement, every reader reads | 30 thousand |
| `RatchetTwoSenders` | 2 members, both send | violated: `MessageKeyUnique` | |
| `PqDm` | 2 prekeys, 2 conversations, 1 message, 1 open, 1 damaged copy | downgrade, exactness of opening, alarms, erased keys, refinement | 468 thousand |
| `PqDm2` | 2 tokens of up to 2 slots, 2 devices, 3 conversations and 2 suites that collide, 1 altered token | soundness, reach, header binding, independence of slots | 119 thousand |
| `PqDm2Strip` | 1 token | violated: `SlotLossDetected` | |
| `PqRoute` | 2 keys, 2 headers, 2 envelopes, 2 altered copies, 1 open | exactness of opening, refinement | 295 thousand |
| `PqRouteBackend` | 1 envelope, no altered copies | violated: `BackendLossPropagates` | |
| `AnonQueue` | 2 queues, ids of 1 byte, 3 copying mistakes, 1 post | codec, miscopied addresses, refinement | 691 thousand |
| `AnonQueueNonce` | 1 queue, nonces of 1 and 2 bytes | violated: `WrongNonceRejected` | |
| `LiboqsPath` | 2 threads, 5 prefixes, 3 of them changing, 5 environments | settings, search path, which library | 97 thousand |

Why the bounds are enough to meet the interesting cases. Ratchets: two epochs
make a rekey that overtakes messages and payloads and a member that is dropped
or added; two messages make reordering and a second index; three members make a
reader, an outsider and a distributor; one damaged copy can hit any part of any
payload or message. In `RatchetDm` the index is reduced modulo 2 and the message
bound is 2, so an epoch runs to the wrap-around itself, and a third epoch
repeats the first one's number modulo 2. `PqDm`: two prekeys make a rotation,
each blob is judged by itself, and one message suffices to be sent under any
combination of stale bundle, stale suite, garbled record and missing backend.
`PqDm2`: two tokens are needed to mix parts, two slots for a slot that is not
mine; the conversations are ("a|b", "c"), ("a", "b|c") and ("b", "c"), and a store
may write the suite S or S followed by "|a", and besides the lists of sealed tokens
the empty one and `["", "12"]`. Devices that share a key id are left to the proof. `PqRoute`: two alterations in a row make a rewritten header that is
restored, and one that is rewritten and damaged. `AnonQueue`: two queues make a
misdelivery; three mistakes make an inner pad with more behind it, the longest
text whose reading ends before its end, and an address that lost its delimiter and
has a "/" in its id; every kind of character occurs among them. `LiboqsPath`: two threads make the races, and the prefixes a
hint, the user's own, the system's and one that may not be searched; calls, moves
and restarts are not bounded at all. Symmetry is used for members
other than the distributor (where the constants do not tell them apart), for
prekeys, keys, headers, conversations of `PqDm` and bytes of messages; never in the liveness run. Deadlock is
not checked: bounds on epochs, messages and the clock, and callers that may stop,
end every instance but `LiboqsPath`.

### What the violated runs show

These four are disagreements between a sentence of the documentation and the
code; each is quoted under `findings` in `PROJECT.json`.

- A per-message key belongs to one message only while one holder of the epoch
  sends. Two holders count from 0 each.
- A `pqdm2` token that lost a slot opens for the remaining devices if its header
  still lists the lost one.
- `seal_routed` and `open_routed` report a missing backend as a format error and
  an open failure; their docstrings say that `PqKemUnavailable` is propagated.
  They still raise, so nothing is downgraded.
- `verify_tag` accepts a tag under another nonce if nonce and message are split
  elsewhere. With nonces of one length, which the library leaves to its callers,
  it does not, and a queue implements `Letterbox`.

Others belong to a reader's knowledge but to no run of their own. A `pqdm2` header
and conversation are bound only as far as their joined texts are, and addresses
are decoded more leniently than the docstring says (both above, under Modules;
the properties of the passing runs say what is left). The age bound of an epoch
counts from the construction of the ratchet object, for a receiver later than the
creation of the epoch that `group_ratchet.py` 279-280 speaks of; the theorem
about it asks for a sole sender. And `DowngradeDetected` also follows a benign
prekey rotation, as the cases of `AlarmExplained` say.

### Fairness

Only `RatchetLive` assumes any. The distribution loop is carried through for
every member and epoch (its caller loops over the members, and nothing but an
error ends the loop early), and the transport redelivers the genuine copy of
every payload and message until it was taken, which is what the library's index
addressing is meant for. Rekeys, sends, damage and the clock are not fair:
nothing promises that anyone sends. Fairness is per member, epoch and message,
because weak fairness of `Unwrap` as a whole could be satisfied by serving one
member again and again.

## What is proved

Every theorem holds for every value of the constants under the named assumptions
in the modules: bounds are natural numbers, markers of what is absent or unusable
are not ordinary values, and the like. Each invariant was checked by TLC on the
instance of the module's run before it was proved. Every proof of an invariant has
the same shape: an inductive invariant `Inv`, the lemma `Init => Inv`, a lemma per
action or group of actions, `NextInv`, and the theorem `InvHolds`; the properties
follow from `Inv` state by state.

### The ratchets

`EpochRatchetProofs` proves, for every group, roster, network and bound:

| Theorem | Property | Needs |
| --- | --- | --- |
| `InvHolds` | the inductive invariant `Inv` | - |
| `TypeCorrect` | `TypeOK` | - |
| `AgreementHolds` | `EpochAgreement` | - |
| `DeliveryHolds` | `LossReorderTolerant` | - |
| `RosterOnlyHolds` | `RosterOnly` | labels intact, or the distributor alone sends |
| `LeakContainedHolds` | `LeakContained` | likewise |
| `SoleSenderHolds` | `SoleSenderInv` | the distributor alone sends and asks `should_rekey`; the message bound is at most 2^64 |
| `KeyUniqueHolds`, `MsgBoundHolds`, `AgeBoundHolds` | `MessageKeyUnique`, `EpochMsgBound`, `EpochAgeBound` | likewise |
| `ChannelImplemented` | `ImplementsChannel` | labels intact; or a sole sender and fewer than 2^64 epochs |

Why the invariant is what it is: none of the properties is inductive, because each
speaks of ratchets or messages and not of the payloads they come from. `Inv`
follows a secret through its life. `MintedInv`: every epoch has a secret of its
own, below `drawn`. `WrapInv`: a payload is the wrapping of its epoch's secret to
a member of that epoch's roster with a hybrid key, and a damaged copy still has
the sealed part of a genuine one. `RatchetInv`: whoever holds a secret is entitled
to it (`Entitled`), that is, a reader of the epoch it was minted for, and under
the right label unless labels may be altered. `SentInv`: a message is sealed under
a secret its sender was entitled to. The step that matters is `Unwrap`: by
`WrapKeyOwner` a payload opens only with the key it was wrapped to, whatever
happened to its KEM ciphertext, so what comes out is a genuine secret for its
addressee. `SoleSenderInv` adds the counters: the sender's index is above every
index it used and at most the bound, and its start time is the epoch's.

The assumptions are the named ones in `EpochRatchet` (the distributor is a member;
bounds are natural numbers, the modulus not zero) and those stated in the
theorems. `RatchetTwoSenders` shows that `MessageKeyUnique` needs the sole sender,
and the bound of 2^64 comes from the reduction of the index; that intact labels or
a sole sender are needed for secrecy and refinement is not shown by a run: a
receiver that sends from a ratchet under a wrong label uses the old epoch's
secret for the new one's number.

### The one-shot seal (`PqDmProofs`)

| Theorem | Property |
| --- | --- |
| `InvHolds` | the inductive invariant `Inv` |
| `TypeCorrect` | `TypeOK` |
| `NeverSilentlyDowngraded` | `NoSilentDowngrade` |
| `OpensExactly`, `AlarmsAreExplained` | `OpenExact`, `AlarmExplained` |
| `ErasedStaysGone` | `ErasedIsGone` |
| `DmImplementsLetterbox` | `ImplementsLetterbox` |

The properties relate opens, blobs and sends, and the step that opens sees the
blob only. `Inv` ties them together. `KeysInv`: what record and bundle name is a
key the recipient generated, or none, or no hex. `SendsInv`: attempts are numbered
one after another, and the recorded suite decides the path. `BlobsInv`: each
sealed attempt has one blob, to a generated prekey, and there are no others.
`DamagedInv`: a damaged copy comes from such a blob and differs from all of them.
`OpensInv`: a recorded outcome is the one `open_sealed` computes. With these,
`OpenRaises` is computed for an original and for a spoilt blob (`DecapExact` of
`PqKemProofs`: decapsulation gives the encapsulated secret for the right key and
an intact ciphertext and no other), and the properties can be read off.

### Sealed routing (`PqRouteProofs`)

| Theorem | Property |
| --- | --- |
| `InvHolds` | the inductive invariant `Inv` |
| `TypeCorrect` | `TypeOK` |
| `OpensOnlyAsSealed` | `OpensAsSealed` |
| `RouteImplementsLetterbox` | `ImplementsLetterbox` |

A copy may have been through any number of relays. What no relay can change is the
sealed part, up to damage that shows: `IsCopyOf` says so, and `WireInv` and
`CopiesInv` that every envelope in play is such a copy of a single call.
`SealsInv` numbers the calls, so that the call is the one `SealOf` chooses.

### The multi-recipient envelope (`PqDm2Proofs`)

| Theorem | Property |
| --- | --- |
| `InvHolds` | the inductive invariant `Inv` |
| `TypeCorrect` | `TypeOK` |
| `OpensOnlySealed` | `OpensOnlyWhatWasSealed` |
| `EveryDeviceOpensIt` | `EveryDeviceOpens` |
| `SlotsAreIndependent` | `IndependentSlots` |
| `HeaderIsBound` | `HeaderBound` |

Altered tokens mix parts of different calls, so no invariant can say that a token
comes from one call. `AlteredInv` says that its nonce and its body come from one
call, and its slots from one, perhaps another. That they are the same call if the
token opens is what the theorem shows: the message key in a slot and the nonce
that binds it name the call. `EntryAssumption` says that a recipient dict is a
record of its two fields.

None of these theorems has a hypothesis: headers are any texts, and so are key ids
and identifiers. What opens has the associated data of the sealed body, that is,
an equal `Named` and an equal `Joined`. `SeparatorSplits` takes a text with one
separator apart, and applied twice it gives suite, sender and recipient back if no
identifier has a "|" (the suite id has none, by `SuiteAssumption`). For the list,
`HeadersInv` says that every header's list is one of texts, and `FlattenExact` takes
a joined list of blocks of one length apart again, from its end. `BeforeTotal` and
`BeforeOrders` show that Python's order of strings is a strict total order on
texts of one length (the first place where two differ decides), hence places
differ (`PlaceLess`, by the cardinality of the elements before), are a permutation
(`PlacePermutes`), and two lists that sort to one are reorderings of each other.

### Anonymous queues (`AnonQueueProofs`)

| Theorem | Property | Needs |
| --- | --- | --- |
| `InvHolds` | the inductive invariant `Inv` | - |
| `BytesWerePosted` | what is accepted was posted, as one byte string | - |
| `OtherNonceRejected` | `WrongNonceRejected` | nonces of one length |
| `QueuesImplementLetterbox` | `ImplementsLetterbox` | nonces of one length |
| `RoundTrip` | decoding an encoding gives the byte string back, of any length | - |
| `CodecInvHolds` | the second inductive invariant, `CodecInv` | - |
| `TypeCorrect` | `TypeOK` | - |
| `PublishedDecodes` | `PublishedAddressDecodes` | - |
| `DecodesTyped` | `DecodesWhatWasTyped` | - |

The two halves of a finding. The run `AnonQueueNonce` refutes `WrongNonceRejected`
for nonces of two lengths; the theorem shows that `OneNonceLength` is all that is
missing, and `BytesWerePosted` what stays true without it. `PostsInv` says that a
peer tags under the secret of its queue, so `VerifiesExact` gives the
concatenation, and `NonceEnds` that concatenations of equally long nonces are
equal only part by part.

The codec. `CodecInv` says that an address, after any number of mistakes, is a text
of the characters of `Aqid` (`AddressesInv`), and that a peer's contact is what
`decode_aqid` returned for one (`ContactsInv`). `BodyParts` says that the first
slash parts any text that has one, and `BodyApart` that what `encode_aqid` put
together comes apart at its delimiter. The rest is about `Reading`, a fold
over the id. `ReadingSteps` turns the fold into a row of decoder states, one per
character, and `ReadingTracks` relates each state to `Typed`, the values of the data
characters so far (`Tracks`): the bytes out are those of the complete groups of
four values, and the bits left over are those of the group begun. From there
`TracksSpells` reads off what an accepted text spells, which is `DecodesTyped`.
For `RoundTrip` the text is an encoding: `EncodedValues` says which values its
characters have, `GroupBack` that four of them give three bytes back, and
`PadParts` that the pads `decode_aqid` appends end the last group. Nothing bounds
the length of ids or texts.

### Lists (`ListLemmas`)

`FlattenSteps` and `FoldExists` are about definitions by recursion: that the
recursive function exists, and hence is what its equation says. `UpTo` is the
induction used for these and everywhere above: if the numbers up to m with some
property contain 0 and with a number its successor, they are all of them. It is a
statement about a set, proved from the least element of its complement
(`LeastExists`, by well-foundedness of `<`), so no theorem of the library that takes
an operator has to be instantiated.

### liboqs discovery (`LiboqsPathProofs`)

| Theorem | Property |
| --- | --- |
| `InvHolds` | the inductive invariant `Inv` |
| `TypeCorrect` | `TypeOK` |
| `OperatorSettingsStand` | `SettingsStand` |
| `SearchPathStaysShort` | `PathStaysShort` |
| `ChildrenAreLedToIt` | `LoadedIsNamed` |
| `LeftToItselfOnlyIfNoneFound`, `FirstOfTheCandidatesWins` | `LeftToItselfExplained`, `BestIsExported` (action properties) |

For any number of threads and prefixes. The hard part is what a thread knows that
another thread may have made stale. `EnvInv`: settings that were given stand, and
the search path ends in the given one and has no directory twice. `SearchInv` says
for each thread how far it is in the list of candidates and that those it passed
hold no liboqs (`InOrder`), and of a thread about to write the search path that
the value it read still ends in the given one and lacks the directory. `NamedInv`:
unless liboqs was moved during a call, every thread that exports exports the same
prefix (`Best`), which is why the later of two writers does no harm, and what is
loaded is what is exported.

### Only model-checked

Liveness (`RosterReads`), which the prover does not handle. Every other property of
a passing run is stated by a theorem. Of the properties that the violated runs
refute, two are proved under the condition that the code lacks: one sender
(`KeyUniqueHolds`) and nonces of one length (`OtherNonceRejected`).

## Not modelled

- `crypto_suites`: a table of literals with look-ups. `register` is called while
  the module is imported and nowhere else, so no sequence of calls reaches a
  state the import has not. `__init__` re-exports names.
- `docs/api`, with the only JavaScript of the repository (`search.js`): pages,
  a minified third-party search library and an index, all generated by pdoc.
- Two distributors of one conversation that mint one epoch number each: the
  library has no rule that would decide between them.
- X25519 points of low order, and the exception types of malformed recipients of
  `seal_multi`: the model has that nothing is sealed.
- The opaque `signature` and `key_id` of a prekey bundle (nothing in the library
  reads them), JSON layout, the pinned cross-implementation vectors, side
  channels, and the examples and CI files that run nothing else.
