-------------------------------- MODULE Aqid --------------------------------
(***************************************************************************)
(* The address codec of src/sk_pqc/anon_queue.py, aqid:<relay>/<id>, with  *)
(* the id in unpadded base64url.                                           *)
(*                                                                         *)
(* Characters are codes: 0..63 is the base64url alphabet by value, then    *)
(* come the two characters only standard base64 has, the pad character,    *)
(* and any ASCII character that means nothing in base64.  Relays are texts *)
(* of these; the "/" that ends them is one of the two.                     *)
(***************************************************************************)
EXTENDS Integers, Sequences, SequencesExt

CONSTANTS
    QueueIdLen       \* QUEUE_ID_LEN

ASSUME LenAssumption == QueueIdLen \in Nat \ {0}

QueueId == [1..QueueIdLen -> 0..255]

Plus  == 64
Slash == 65
Pad   == 66
Other == 67

\* The six bits of a character, for either alphabet: urlsafe_b64decode maps
\* "-_" to "+/" and leaves "+/" as they are.
IsData(c) == c <= Slash
ValueOf(c) == IF c >= Plus THEN c - 2 ELSE c

----------------------------------------------------------------------------
(* Encoding. *)

\* Byte i of a byte string, and zeros beyond its end.
ByteAt(id, i) == IF i \in DOMAIN id THEN id[i] ELSE 0

\* Character k of the encoding: every three bytes give four characters.
Sextet(id, k) ==
    LET byte(i) == ByteAt(id, 3 * ((k - 1) \div 4) + i)
    IN  CASE (k - 1) % 4 = 0 -> byte(1) \div 4
          [] (k - 1) % 4 = 1 -> 16 * (byte(1) % 4) + byte(2) \div 16
          [] (k - 1) % 4 = 2 -> 4 * (byte(2) % 16) + byte(3) \div 64
          [] (k - 1) % 4 = 3 -> byte(3) % 64

\* Variant: one character too many is stripped.
EncodeShort(id) == [k \in 1..((8 * Len(id)) \div 6) |-> Sextet(id, k)]

Encode(id) == [k \in 1..((8 * Len(id) + 5) \div 6) |-> Sextet(id, k)]

\* encode_aqid; it raises AnonQueueFormatError for any other arguments.
Encodes(relay, id) ==
    relay # <<>> /\ Slash \notin ToSet(relay) /\ Len(id) = QueueIdLen

\* An address: whether it starts with the scheme, and the text behind it.
EncodeAqid(relay, id) == [scheme |-> TRUE, body |-> relay \o <<Slash>> \o Encode(id)]

----------------------------------------------------------------------------
(* Decoding: binascii.a2b_base64 is lenient, and reads character by character. *)

\* Data characters modulo 4, the bits left over, pads in a row, bytes so far, and
\* whether a pad has ended the input.
Begin == [quad |-> 0, left |-> 0, pads |-> 0, out |-> <<>>, done |-> FALSE]

\* A data character of value v.
Data(s, v) ==
    LET byte == CASE s.quad = 0 -> <<>>
                  [] s.quad = 1 -> <<4 * s.left + v \div 16>>
                  [] s.quad = 2 -> <<16 * s.left + v \div 4>>
                  [] s.quad = 3 -> <<64 * s.left + v>>
        rest == CASE s.quad = 0 -> v
                  [] s.quad = 1 -> v % 16
                  [] s.quad = 2 -> v % 4
                  [] s.quad = 3 -> 0
    IN  [s EXCEPT !.quad = (@ + 1) % 4, !.left = rest, !.pads = 0, !.out = @ \o byte]

\* A pad counts from the third place on; other characters are skipped.
Step(s, c) ==
    CASE s.done \/ c = Other -> s
      [] ~s.done /\ c = Pad  ->
           IF s.quad < 2 THEN s
           ELSE [s EXCEPT !.pads = @ + 1, !.done = s.quad + s.pads + 1 >= 4]
      [] ~s.done /\ IsData(c) -> Data(s, ValueOf(c))

\* urlsafe_b64decode on the text with the pads decode_aqid appends.
Reading(text) ==
    FoldLeft(Step, Begin, text \o [i \in 1..((-Len(text)) % 4) |-> Pad])

\* partition("/"): the first slash, wherever it is from, and what is on its sides.
HasDelimiter(body) == Slash \in ToSet(body)
Delimiter(body) ==
    CHOOSE i \in DOMAIN body : body[i] = Slash /\ \A j \in 1..(i - 1) : body[j] # Slash
RelayOf(body) == SubSeq(body, 1, Delimiter(body) - 1)
IdOf(body) == SubSeq(body, Delimiter(body) + 1, Len(body))

\* Variant: a longer id is cut to length.
DecodesAnyLength(a) ==
    /\ a.scheme /\ HasDelimiter(a.body)
    /\ RelayOf(a.body) # <<>> /\ IdOf(a.body) # <<>>
    /\ Reading(IdOf(a.body)).done \/ Reading(IdOf(a.body)).quad = 0
    /\ Len(Reading(IdOf(a.body)).out) >= QueueIdLen

\* decode_aqid returns; otherwise it raises AnonQueueFormatError.
Decodes(a) ==
    /\ a.scheme /\ HasDelimiter(a.body)
    /\ RelayOf(a.body) # <<>> /\ IdOf(a.body) # <<>>
    /\ Reading(IdOf(a.body)).done \/ Reading(IdOf(a.body)).quad = 0
    /\ Len(Reading(IdOf(a.body)).out) = QueueIdLen

\* What it returns.
DecodeAqid(a) ==
    [relay |-> RelayOf(a.body),
     id    |-> SubSeq(Reading(IdOf(a.body)).out, 1, QueueIdLen)]

============================================================================
