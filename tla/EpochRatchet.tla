---------------------------- MODULE EpochRatchet ----------------------------
(***************************************************************************)
(* The epoch ratchet of src/sk_pqc/group_ratchet.py and of its two-party   *)
(* twin src/sk_pqc/dm_ratchet.py (the two differ in their labels, here the *)
(* constant Domain), driven by callers that do what                        *)
(* examples/dm_ratchet_roundtrip.py does, in any order:                    *)
(*                                                                         *)
(*   - the Distributor mints an epoch secret and wraps it, once per epoch  *)
(*     and per member, with the hybrid KEM;                                *)
(*   - a member that receives its payload unwraps it and builds a ratchet; *)
(*   - senders draw a key per message from their ratchet, receivers derive *)
(*     the key from the (epoch, index) a message carries.                  *)
(*                                                                         *)
(* Payloads and messages stay in the network for good: they may arrive     *)
(* late, never, repeatedly and in any order, and copies of them damaged in *)
(* transit may arrive as well.  A call that raises changes no state, so    *)
(* the error paths of the code are the states where an action is disabled. *)
(***************************************************************************)
EXTENDS PqKem, Integers, FiniteSets

CONSTANTS
    Member,            \* the members of the group, or the two parties
    Distributor,       \* the member that starts epochs
    KeyHolders,        \* members that have published a hybrid public key
    Senders,           \* members that send
    Domain,            \* "group" or "dm": which of the two modules
    U64Mod,            \* what _u64 reduces by; 2^64 in the code
    RekeyMsgBound,     \* rekey_msg_bound
    RekeyAge,          \* rekey_age_seconds
    ConsultRekey,      \* senders call should_rekey before they send
    WrapDamage,        \* what transit may do to a wrapped payload
    MaxEpoch,          \* bound: number of rekeys
    MaxSent,           \* bound: number of messages
    MaxTime,           \* bound: the clock
    MaxDamaged         \* bound: damaged copies in the network

ASSUME MemberAssumption ==
    /\ Distributor \in Member
    /\ KeyHolders \subseteq Member
    /\ Senders \subseteq Member

ASSUME BoundAssumption ==
    /\ U64Mod \in Nat \ {0}
    /\ RekeyMsgBound \in Nat
    /\ RekeyAge \in Nat
    /\ ConsultRekey \in BOOLEAN
    /\ {MaxEpoch, MaxSent, MaxTime, MaxDamaged} \subseteq Nat

ASSUME DamageAssumption ==
    WrapDamage \subseteq {"x25519", "mlkem", "sealed", "label"}

VARIABLES
    now,            \* time.time()
    drawn,          \* how many random secrets os.urandom has returned
    epoch,          \* the newest epoch
    minted,         \* secret, roster and birth of every epoch, for the Distributor
                    \* and the properties
    ratchets,       \* the EpochRatchet objects each member holds
    wraps,          \* payloads of wrap_epoch_secret, as they were sent
    damagedWraps,   \* copies of them altered in transit
    sent,           \* messages as they were sent
    damagedMsgs,    \* copies of them altered in transit
    opened          \* plaintexts that came out of receive

vars == <<now, drawn, epoch, minted, ratchets, wraps, damagedWraps, sent,
          damagedMsgs, opened>>

----------------------------------------------------------------------------
(* Key derivation. *)

\* struct.pack(">Q", n & 0xFFFFFFFFFFFFFFFF)
U64(n) == n % U64Mod

\* HKDF(epoch_secret, salt = epoch, info = label || index)
DeriveMessageKey(epoch_secret, e, index) ==
    HKDF(epoch_secret, <<Domain, "epoch", U64(e)>>, <<Domain, "msg", U64(index)>>)

\* The key that wraps the epoch secret, from the KEM's shared secret.
WrapKey(shared) == HKDF(shared, <<>>, <<Domain, "epoch-wrap">>)

\* The aad argument of every AES-GCM call of the ratchets.
NoAad == <<>>

\* Variant: one static key for all epochs.
StaticSecret == 0

\* A draw of os.urandom(32) differs from every earlier one.
NewEpochSecret == drawn

----------------------------------------------------------------------------
(* The ratchet object. *)

Ratchet == [epoch : Nat, epoch_secret : Nat, message_index : Nat,
            epoch_started_at : Nat]

\* The dataclass with its defaults.
NewRatchet(e, epoch_secret) ==
    [epoch |-> e, epoch_secret |-> epoch_secret, message_index |-> 0,
     epoch_started_at |-> now]

\* message_key(index)
MessageKey(r, index) == DeriveMessageKey(r.epoch_secret, r.epoch, index)

\* Variants: one message too late; blind to the age of the epoch.
ShouldRekeyLate(r) ==
    \/ r.message_index > RekeyMsgBound
    \/ now - r.epoch_started_at >= RekeyAge

ShouldRekeyByCount(r) ==
    r.message_index >= RekeyMsgBound

\* should_rekey(), with either bound.
ShouldRekey(r) ==
    \/ r.message_index >= RekeyMsgBound
    \/ now - r.epoch_started_at >= RekeyAge

\* Variant: one ratchet in all.
KeepLatest(held, r) == {r}

\* A member keeps one ratchet per epoch; a new one replaces the old one.
Keep(held, r) == {q \in held : q.epoch # r.epoch} \cup {r}

----------------------------------------------------------------------------
(* Epoch distribution. *)

Rosters == {R \in SUBSET Member : Distributor \in R}

\* The payload for member p, labelled by the caller with its epoch.  The KEM
\* randomness of a wrap is named by the epoch and the member it serves.
WrapEpochSecret(e, epoch_secret, p) ==
    [epoch  |-> e,
     to     |-> p,
     ct     |-> Ciphertext(p, <<e, p>>),
     sealed |-> AesGcmEncrypt(WrapKey(HybridEncap(p, <<e, p>>)), epoch_secret, NoAad)]

\* Whether unwrap_epoch_secret returns, given the private key of p.
Unwraps(w, p) ==
    AesGcmOpens(WrapKey(HybridDecap(w.ct, p)), w.sealed, NoAad)

\* new_epoch_secret and the ratchet the distributor builds from it; the roster
\* of the new epoch may drop and add members.
StartEpoch(R) ==
    /\ epoch < MaxEpoch
    /\ epoch' = epoch + 1
    /\ drawn' = drawn + 1
    /\ minted' = [e \in 0..(epoch + 1) |->
                    IF e \in 0..epoch THEN minted[e]
                    ELSE [secret |-> NewEpochSecret, roster |-> R, at |-> now]]
    /\ ratchets' = [ratchets EXCEPT ![Distributor] =
                      Keep(@, NewRatchet(epoch + 1, NewEpochSecret))]
    /\ UNCHANGED <<now, wraps, damagedWraps, sent, damagedMsgs, opened>>

\* Variant: the loop runs over everyone with a key, not over the roster.
WrapAll(p, r) ==
    /\ p \in KeyHolders \ {Distributor}
    /\ wraps' = wraps \cup {WrapEpochSecret(r.epoch, r.epoch_secret, p)}
    /\ UNCHANGED <<now, drawn, epoch, minted, ratchets, damagedWraps, sent,
                   damagedMsgs, opened>>

\* One round of the distribution loop.  A member without a hybrid key is
\* skipped; a loop that fails half way leaves the other members unserved.
Wrap(p, r) ==
    /\ p \in (minted[r.epoch].roster \cap KeyHolders) \ {Distributor}
    /\ wraps' = wraps \cup {WrapEpochSecret(r.epoch, r.epoch_secret, p)}
    /\ UNCHANGED <<now, drawn, epoch, minted, ratchets, damagedWraps, sent,
                   damagedMsgs, opened>>

\* Variant: a late payload is taken for one of the newest epoch.
UnwrapAsNewest(p, w) ==
    /\ p \in KeyHolders \ {Distributor}
    /\ Unwraps(w, p)
    /\ ratchets' = [ratchets EXCEPT ![p] = Keep(@, NewRatchet(epoch, w.sealed.body))]
    /\ UNCHANGED <<now, drawn, epoch, minted, wraps, damagedWraps, sent,
                   damagedMsgs, opened>>

\* p receives a payload, unwraps it and builds the ratchet of its epoch.
Unwrap(p, w) ==
    /\ p \in KeyHolders \ {Distributor}
    /\ Unwraps(w, p)
    /\ ratchets' = [ratchets EXCEPT ![p] = Keep(@, NewRatchet(w.epoch, w.sealed.body))]
    /\ UNCHANGED <<now, drawn, epoch, minted, wraps, damagedWraps, sent,
                   damagedMsgs, opened>>

----------------------------------------------------------------------------
(* Messages. *)

\* Variant: the index on the wire is one behind the key's.
SealMessageOffByOne(p, r, body) ==
    [epoch |-> r.epoch, index |-> r.message_index - 1, sender |-> p, at |-> now,
     sealed |-> AesGcmEncrypt(MessageKey(r, r.message_index), body, NoAad)]

\* A body sealed under the next outbound key; (epoch, index) is carried.  The
\* fields `sender' and `at' are history.
SealMessage(p, r, body) ==
    [epoch |-> r.epoch, index |-> r.message_index, sender |-> p, at |-> now,
     sealed |-> AesGcmEncrypt(MessageKey(r, r.message_index), body, NoAad)]

\* Variant: the counter is not advanced.
SendWithoutAdvance(p, r) ==
    /\ p \in Senders
    /\ \A q \in ratchets[p] : q.epoch <= r.epoch
    /\ ConsultRekey => ~ShouldRekey(r)
    /\ Cardinality(sent) < MaxSent
    /\ sent' = sent \cup {SealMessage(p, r, Cardinality(sent))}
    /\ UNCHANGED <<now, drawn, epoch, minted, ratchets, wraps, damagedWraps,
                   damagedMsgs, opened>>

\* next_outbound_key on the ratchet of the newest epoch p has heard of, then
\* AES-GCM under the key.  Bodies are told apart by a running number.
Send(p, r) ==
    /\ p \in Senders
    /\ \A q \in ratchets[p] : q.epoch <= r.epoch
    /\ ConsultRekey => ~ShouldRekey(r)
    /\ Cardinality(sent) < MaxSent
    /\ sent' = sent \cup {SealMessage(p, r, Cardinality(sent))}
    /\ ratchets' = [ratchets EXCEPT ![p] =
                      Keep(@, [r EXCEPT !.message_index = @ + 1])]
    /\ UNCHANGED <<now, drawn, epoch, minted, wraps, damagedWraps, damagedMsgs,
                   opened>>

\* Variants: the key is that of the receiver's own counter; any ratchet will do.
CanOpenInOrder(p, m) ==
    \E r \in ratchets[p] :
      /\ r.epoch = m.epoch
      /\ AesGcmOpens(MessageKey(r, r.message_index), m.sealed, NoAad)

CanOpenAnyEpoch(p, m) ==
    \E r \in ratchets[p] : AesGcmOpens(MessageKey(r, m.index), m.sealed, NoAad)

\* The key p uses for a message: that of the carried (epoch, index).
CanOpen(p, m) ==
    \E r \in ratchets[p] :
      /\ r.epoch = m.epoch
      /\ AesGcmOpens(MessageKey(r, m.index), m.sealed, NoAad)

Receive(p, m) ==
    /\ p # m.sender
    /\ CanOpen(p, m)
    /\ opened' = opened \cup {[to |-> p, epoch |-> m.epoch, body |-> m.sealed.body]}
    /\ UNCHANGED <<now, drawn, epoch, minted, ratchets, wraps, damagedWraps, sent,
                   damagedMsgs>>

----------------------------------------------------------------------------
(* The environment. *)

\* A payload altered in one of its parts: a leg of the KEM ciphertext, the
\* sealed secret, or the epoch label beside the payload, which becomes e.
AlteredWrap(w, part, e) ==
    CASE part = "x25519" -> [w EXCEPT !.ct.x25519.intact = FALSE]
      [] part = "mlkem"  -> [w EXCEPT !.ct.mlkem.intact = FALSE]
      [] part = "sealed" -> [w EXCEPT !.sealed.intact = FALSE]
      [] part = "label"  -> [w EXCEPT !.epoch = e]

DamageWrap ==
    /\ Cardinality(damagedWraps) + Cardinality(damagedMsgs) < MaxDamaged
    /\ \E w \in wraps, part \in WrapDamage, e \in 0..epoch :
         damagedWraps' = damagedWraps \cup {AlteredWrap(w, part, e)}
    /\ UNCHANGED <<now, drawn, epoch, minted, ratchets, wraps, sent, damagedMsgs,
                   opened>>

\* A copy of a message altered in its body or in the carried (epoch, index).
AlteredMsgs(m) ==
    {[m EXCEPT !.sealed.intact = FALSE]}
    \cup {[m EXCEPT !.index = i] : i \in 0..MaxSent}
    \cup {[m EXCEPT !.epoch = e] : e \in 0..epoch}

DamageMsg ==
    /\ Cardinality(damagedWraps) + Cardinality(damagedMsgs) < MaxDamaged
    /\ \E m \in sent : \E x \in AlteredMsgs(m) :
         damagedMsgs' = damagedMsgs \cup {x}
    /\ UNCHANGED <<now, drawn, epoch, minted, ratchets, wraps, damagedWraps, sent,
                   opened>>

\* The wall clock moves on, or is set, forwards or back.
Tick ==
    /\ now' \in 0..MaxTime
    /\ UNCHANGED <<drawn, epoch, minted, ratchets, wraps, damagedWraps, sent,
                   damagedMsgs, opened>>

----------------------------------------------------------------------------
\* The conversation begins with epoch 0 minted and not yet distributed.
Init ==
    /\ now = 0
    /\ drawn = 1
    /\ epoch = 0
    /\ \E R \in Rosters : minted = [e \in 0..0 |-> [secret |-> 0, roster |-> R, at |-> 0]]
    /\ ratchets = [p \in Member |->
                     IF p = Distributor
                     THEN {[epoch |-> 0, epoch_secret |-> 0, message_index |-> 0,
                            epoch_started_at |-> 0]}
                     ELSE {}]
    /\ wraps = {} /\ damagedWraps = {}
    /\ sent = {} /\ damagedMsgs = {}
    /\ opened = {}

Next ==
    \/ \E R \in Rosters : StartEpoch(R)
    \/ \E p \in Member : \E r \in ratchets[Distributor] : Wrap(p, r)
    \/ \E p \in Member : \E w \in wraps \cup damagedWraps : Unwrap(p, w)
    \/ \E p \in Member : \E r \in ratchets[p] : Send(p, r)
    \/ \E p \in Member : \E m \in sent \cup damagedMsgs : Receive(p, m)
    \/ DamageWrap
    \/ DamageMsg
    \/ Tick

Spec == Init /\ [][Next]_vars

----------------------------------------------------------------------------
(* Properties. *)

\* Every variable has the shape the code gives it.
TypeOK ==
    /\ now \in Nat
    /\ drawn \in Nat
    /\ epoch \in Nat
    /\ minted \in [0..epoch -> [secret : Nat, roster : SUBSET Member, at : Nat]]
    /\ ratchets \in [Member -> SUBSET Ratchet]
    /\ \A w \in wraps \cup damagedWraps :
         w.epoch \in 0..epoch /\ w.to \in Member /\ w.sealed.body \in Nat
    /\ \A m \in sent \cup damagedMsgs :
         m.epoch \in 0..epoch /\ m.index \in Nat /\ m.sealed.body \in Nat
    /\ opened \subseteq [to : Member, epoch : Nat, body : Nat]

\* Keys the holder of the secrets S can derive: derive_message_key takes any
\* epoch number and any index.
Derives(S, m) ==
    \E s \in S, e \in 0..epoch, i \in 0..MaxSent :
        DeriveMessageKey(s, e, i) = m.sealed.key

\* Every epoch secret p has, or could recover from the network with its key.
SecretsWithinReach(p) ==
    {r.epoch_secret : r \in ratchets[p]}
    \cup {w.sealed.body : w \in {v \in wraps \cup damagedWraps : Unwraps(v, p)}}

\* Whatever arrived late, twice, damaged or in any order, two ratchets of one
\* epoch hold one secret (unwrap_epoch_secret returns what was wrapped or
\* raises).  The epoch label travels outside the payload and is assumed right.
EpochAgreement ==
    "label" \notin WrapDamage =>
      \A p, q \in Member : \A r \in ratchets[p], s \in ratchets[q] :
        r.epoch = s.epoch => r.epoch_secret = s.epoch_secret

\* Loss and reorder tolerance: a member that holds a message's epoch opens the
\* message from its carried (epoch, index), whatever else it has or has not
\* received and whatever its own counter says.
LossReorderTolerant ==
    "label" \notin WrapDamage =>
      \A m \in sent, p \in Member :
        (\E r \in ratchets[p] : r.epoch = m.epoch) => CanOpen(p, m)

\* Per-message keys: next_outbound_key never yields a key that already sealed
\* another message, across epochs, rekeys and the reduction mod 2^64.
MessageKeyUnique ==
    \A m, n \in sent : m.sealed.key = n.sealed.key => m = n

\* rekey_msg_bound: an epoch carries at most that many messages.
EpochMsgBound ==
    \A e \in 0..epoch : Cardinality({m \in sent : m.epoch = e}) <= RekeyMsgBound

\* rekey_age_seconds: no message is sealed under an epoch that old, by the wall
\* clock and counted from the moment the epoch was created, even if the clock
\* was set back in between.
EpochAgeBound ==
    \A m \in sent : m.at - minted[m.epoch].at < RekeyAge

\* Forward secrecy of membership: a member that is not in the roster of an
\* epoch derives no message key of that epoch, not even with every payload
\* ever put on the network (its own old ones, others' and damaged ones).
RosterOnly ==
    \A m \in sent : \A p \in Member \ minted[m.epoch].roster :
        ~Derives(SecretsWithinReach(p), m)

\* Post-compromise security: whichever epoch secrets leak, they reveal messages
\* of those epochs and of no other.
LeakContained ==
    \A leaked \in SUBSET (0..epoch) : \A m \in sent :
        Derives({minted[e].secret : e \in leaked}, m) => m.epoch \in leaked

----------------------------------------------------------------------------
(* Liveness. *)

\* The distribution loop is carried through, and the transport redelivers
\* each payload and each message until its receiver has taken it.
Fairness ==
    /\ \A p \in Member, e \in 0..MaxEpoch :
         /\ WF_vars(\E r \in ratchets[Distributor] : r.epoch = e /\ Wrap(p, r))
         /\ WF_vars(\E w \in wraps : w.epoch = e /\ Unwrap(p, w))
    /\ \A p \in Member, b \in 0..(MaxSent - 1) :
         WF_vars(\E m \in sent : m.sealed.body = b /\ Receive(p, m))

FairSpec == Spec /\ Fairness

\* A message sent in an epoch is eventually opened by every other member of
\* the epoch's roster that has a hybrid key: neither a lost race with a rekey
\* nor a damaged copy tried before the good one shuts a member out.
RosterReads ==
    \A p \in KeyHolders, b \in 0..(MaxSent - 1) :
      (\E m \in sent : /\ m.sealed.body = b
                       /\ p # m.sender
                       /\ p \in minted[m.epoch].roster)
      ~> (\E o \in opened : o.to = p /\ o.body = b)

----------------------------------------------------------------------------
(* The ratchets implement the channel of EpochChannel. *)

\* The members that can take part in an epoch: the distributor and the
\* members of the roster that have a hybrid key.
Readers == [e \in 0..epoch |-> minted[e].roster \cap (KeyHolders \cup {Distributor})]

Channel == INSTANCE EpochChannel WITH
    Body    <- 0..(MaxSent - 1),
    last    <- epoch,
    readers <- Readers,
    posted  <- {[epoch |-> m.epoch, sender |-> m.sender, body |-> m.sealed.body] : m \in sent},
    read    <- opened

\* Every step of the ratchets and of the network is a step of the channel or
\* changes nothing there: what `receive' returns was sent under that epoch, to
\* a roster with the reader in it, whatever was damaged on the way.
ImplementsChannel == Channel!Spec

============================================================================
