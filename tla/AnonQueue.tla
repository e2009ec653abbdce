----------------------------- MODULE AnonQueue -----------------------------
(***************************************************************************)
(* The anonymous queues of src/sk_pqc/anon_queue.py as their callers would *)
(* use them: a recipient makes a queue pair and publishes its address; the *)
(* address is copied, perhaps with mistakes; a peer that shares a secret   *)
(* with the recipient decodes it and posts tagged messages; a relay that   *)
(* holds no secret hands them out, late, repeatedly, to any queue and with *)
(* any of their parts altered; the recipient verifies the tag.             *)
(*                                                                         *)
(* The relay and the posting are external: the library has no transport.   *)
(***************************************************************************)
EXTENDS Aqid, FiniteSets

CONSTANTS
    Relay,           \* relay locators recipients ask for, usable or not
    Symbol,          \* the characters a copying mistake may leave
    Byte,            \* the bytes of nonces and messages
    NonceLens,       \* the nonce lengths recipients and peers use
    DrawnId,         \* the ids os.urandom may return
    MaxQueues,       \* bound: queues
    MaxEdits,        \* bound: copying mistakes
    MaxPosts,        \* bound: posted messages
    MaxMessage       \* bound: length of a message

ASSUME DrawAssumption == DrawnId \subseteq QueueId
ASSUME RelayAssumption == Relay \subseteq Seq(0..Other)
ASSUME SymbolAssumption == Symbol \subseteq 0..Other
ASSUME BoundAssumption ==
    {MaxQueues, MaxEdits, MaxPosts, MaxMessage} \subseteq Nat
ASSUME NonceAssumption == NonceLens \subseteq Nat

VARIABLES
    queues,       \* recipient id, sender id and relay of each queue, by number
    addresses,    \* the address of each queue, as copied so far
    edits,        \* how many copying mistakes were made
    contacts,     \* what peers decoded: queue number, text, relay and sender id
    posts,        \* messages as they were posted
    accepted      \* history: what recipients took for authentic

vars == <<queues, addresses, edits, contacts, posts, accepted>>

Nonce == UNION {[1..n -> Byte] : n \in NonceLens}
Message == UNION {[1..n -> Byte] : n \in 0..MaxMessage}

----------------------------------------------------------------------------
(* The authenticator.  HMAC-SHA256 is collision free; the secret of a queue *)
(* is named by the queue's number, and shared with its peer out of band.    *)

HMAC(secret, data) == [secret |-> secret, data |-> data, intact |-> TRUE]

\* Variant: the nonce is left out.
AuthTagNoNonce(secret, message, nonce) == HMAC(secret, message)

AuthTag(secret, message, nonce) == HMAC(secret, nonce \o message)

VerifyTag(secret, message, nonce, tag) == tag = AuthTag(secret, message, nonce)

----------------------------------------------------------------------------
\* Variant: the two ids are not compared.
QueuePairUnchecked(recipient, sender) == TRUE

\* new_queue_pair may return these two: sender_id is drawn again until it
\* differs.  Draws of different calls are not compared.
QueuePair(recipient, sender) == sender # recipient

\* A recipient makes a queue and publishes its address.
NewQueue(recipient, sender, relay) ==
    /\ Len(queues) < MaxQueues
    /\ QueuePair(recipient, sender)
    /\ Encodes(relay, sender)
    /\ queues' = Append(queues, [recipient |-> recipient, sender |-> sender,
                                 relay |-> relay])
    /\ addresses' = Append(addresses, EncodeAqid(relay, sender))
    /\ UNCHANGED <<edits, contacts, posts, accepted>>

\* The address of queue q was copied for the last time: its peer decoded it.
Reached(q) == \E c \in contacts : c.queue = q

\* An address with one mistake: a character too many, too few or another one,
\* anywhere behind the scheme, or in the scheme.
Miscopies(a) ==
    {[a EXCEPT !.body = InsertAt(@, i, c)] : i \in 1..(Len(a.body) + 1), c \in Symbol}
    \cup {[a EXCEPT !.body = ReplaceAt(@, i, c)] : i \in DOMAIN a.body, c \in Symbol}
    \cup {[a EXCEPT !.body = RemoveAt(@, i)] : i \in DOMAIN a.body}
    \cup {[a EXCEPT !.scheme = FALSE]}

Miscopy(q) ==
    /\ edits < MaxEdits
    /\ ~Reached(q)
    /\ edits' = edits + 1
    /\ \E a \in Miscopies(addresses[q]) : addresses' = [addresses EXCEPT ![q] = a]
    /\ UNCHANGED <<queues, contacts, posts, accepted>>

\* The peer of queue q decodes the address it has got.
Decode(q) ==
    /\ ~Reached(q)
    /\ Decodes(addresses[q])
    /\ contacts' = contacts \cup
         {[queue |-> q, body |-> addresses[q].body, to |-> DecodeAqid(addresses[q])]}
    /\ UNCHANGED <<queues, addresses, edits, posts, accepted>>

\* The peer tags a message and posts it to the queue it decoded.
Post(c, nonce, message) ==
    /\ Cardinality(posts) < MaxPosts
    /\ posts' = posts \cup
         {[queue |-> c.queue, to |-> c.to, nonce |-> nonce, message |-> message,
           tag |-> AuthTag(c.queue, message, nonce)]}
    /\ UNCHANGED <<queues, addresses, edits, contacts, accepted>>

\* The relay hands a tag to queue q, with any nonce and message, or altered; the
\* recipient accepts what verifies under the secret of its queue.
Deliver(q, p, nonce, message, intact) ==
    /\ VerifyTag(q, message, nonce, [p.tag EXCEPT !.intact = intact])
    /\ accepted' = accepted \cup {[queue |-> q, nonce |-> nonce, message |-> message]}
    /\ UNCHANGED <<queues, addresses, edits, contacts, posts>>

----------------------------------------------------------------------------
Init ==
    /\ queues = <<>> /\ addresses = <<>> /\ edits = 0
    /\ contacts = {} /\ posts = {} /\ accepted = {}

Next ==
    \/ \E r, s \in DrawnId, relay \in Relay : NewQueue(r, s, relay)
    \/ \E q \in DOMAIN queues : Miscopy(q)
    \/ \E q \in DOMAIN queues : Decode(q)
    \/ \E c \in contacts, n \in Nonce, m \in Message : Post(c, n, m)
    \/ \E q \in DOMAIN queues, p \in posts, n \in Nonce, m \in Message, i \in BOOLEAN :
         Deliver(q, p, n, m, i)

Spec == Init /\ [][Next]_vars

----------------------------------------------------------------------------
(* Properties. *)

\* Relays that an address can carry.
Locator == {r \in Seq(0..Other) : r # <<>> /\ Slash \notin ToSet(r)}

\* Every variable has the shape the code gives it; the two ids of a queue differ.
TypeOK ==
    /\ queues \in Seq([recipient : QueueId, sender : QueueId, relay : Locator])
    /\ \A q \in DOMAIN queues : queues[q].recipient # queues[q].sender
    /\ DOMAIN addresses = DOMAIN queues
    /\ \A q \in DOMAIN addresses : addresses[q].body \in Seq(0..Other)
    /\ edits \in Nat
    /\ \A c \in contacts : c.to \in [relay : Locator, id : QueueId]
    /\ posts \subseteq [queue : DOMAIN queues, to : [relay : Locator, id : QueueId],
                        nonce : Nonce, message : Message,
                        tag : [secret : DOMAIN queues, data : Seq(Byte), intact : {TRUE}]]
    /\ accepted \subseteq [queue : DOMAIN queues, nonce : Nonce, message : Message]

\* The codec is exact on what it encodes: an address that was copied without a
\* mistake decodes, to the queue it was published for.
PublishedAddressDecodes ==
    \A q \in DOMAIN queues :
      addresses[q] = EncodeAqid(queues[q].relay, queues[q].sender) =>
        /\ Decodes(addresses[q])
        /\ DecodeAqid(addresses[q]) = [relay |-> queues[q].relay, id |-> queues[q].sender]

\* What the data characters of a text stand for, in a row.
TakeValue(typed, c) == IF IsData(c) THEN Append(typed, ValueOf(c)) ELSE typed
Typed(text) == FoldLeft(TakeValue, <<>>, text)

\* The last character of an encoded id has this many values that differ only in
\* bits that encode nothing.
Spare == CASE QueueIdLen % 3 = 0 -> 1
           [] QueueIdLen % 3 = 1 -> 16
           [] QueueIdLen % 3 = 2 -> 4

\* These characters spell this id.
Spells(typed, id) ==
    LET spelt == Encode(id)
    IN  /\ Len(typed) = Len(spelt)
        /\ \A i \in 1..(Len(spelt) - 1) : typed[i] = spelt[i]
        /\ typed[Len(spelt)] \div Spare = spelt[Len(spelt)] \div Spare

\* However lenient the decoder is, and wherever the first slash is from, an address
\* it accepts leads to the relay before that slash and to the id that the characters
\* behind it spell: that text, or its part up to a pad, has exactly as many data
\* characters as an encoded id, and they agree with the encoding of the id returned,
\* except in the bits that encode nothing.
DecodesWhatWasTyped ==
    \A c \in contacts :
      LET text == SubSeq(c.body, Len(c.to.relay) + 2, Len(c.body))
      IN  /\ c.to.relay \in Locator /\ c.body = c.to.relay \o <<Slash>> \o text
          /\ \/ Spells(Typed(text), c.to.id)
             \/ \E i \in DOMAIN text : /\ text[i] = Pad
                                       /\ Spells(Typed(SubSeq(text, 1, i)), c.to.id)

\* What the documentation of verify_tag says of a wrong nonce: it returns False.
WrongNonceRejected ==
    \A a \in accepted : \E p \in posts : p.queue = a.queue /\ p.nonce = a.nonce

----------------------------------------------------------------------------
(* A queue implements a letterbox. *)

\* Readers are the holders of a queue's secret; the context is the nonce.
Box == INSTANCE Letterbox WITH
    Reader  <- 1..MaxQueues,
    Context <- Nonce,
    Body    <- Message,
    posted  <- {[reader |-> p.queue, context |-> p.nonce, body |-> p.message] : p \in posts},
    read    <- {[reader |-> a.queue, context |-> a.nonce, body |-> a.message] : a \in accepted}

\* As long as all nonces have one length, whatever a relay alters, repeats or
\* hands to another queue, what a recipient accepts was posted for its queue,
\* with that nonce and that message.
ImplementsLetterbox == Box!Spec

============================================================================
