-------------------------- MODULE AnonQueueProofs --------------------------
(***************************************************************************)
(* Theorems about AnonQueue and the codec of its addresses, Aqid, for      *)
(* every value of the constants: ids and texts of any length.              *)
(***************************************************************************)
EXTENDS AnonQueue, ListLemmas

----------------------------------------------------------------------------
(* The codec: what the decoder computes, step by step. *)

Character == 0..Other
Octet == 0..255

\* The states of the decoder: the bits left over are fewer the more characters of
\* a group of four have been read, and a pad ends the input only inside a group.
DecoderState ==
    {s \in [quad : 0..3, left : 0..63, pads : Nat, out : Seq(Octet), done : BOOLEAN] :
       /\ s.quad = 0 => s.left = 0
       /\ s.quad = 2 => s.left < 16
       /\ s.quad = 3 => s.left < 4
       /\ s.done => s.quad >= 2}

\* The value of a data character has six bits.
LEMMA ValueBits ==
    ASSUME NEW c \in Character, IsData(c)
    PROVE  ValueOf(c) \in 0..63
BY DEF Character, IsData, ValueOf, Plus, Slash, Other

\* What is left over and one more character fit into an octet.
LEMMA BitsFit ==
    ASSUME NEW l \in 0..63, NEW v \in 0..63
    PROVE  /\ 4 * l + v \div 16 \in Octet
           /\ l < 16 => 16 * l + v \div 4 \in Octet
           /\ l < 4 => 64 * l + v \in Octet
           /\ v % 16 \in 0..15 /\ v % 4 \in 0..3
<1>1. v \div 16 \in 0..3 /\ v \div 4 \in 0..15
  OBVIOUS
<1>2. v % 16 \in 0..15 /\ v % 4 \in 0..3
  OBVIOUS
<1> DEFINE a == v \div 16
           b == v \div 4
<1>3. a \in 0..3 /\ b \in 0..15
  BY <1>1
<1> HIDE DEF a, b
<1>4. /\ 4 * l + a \in Octet
      /\ l < 16 => 16 * l + b \in Octet
      /\ l < 4 => 64 * l + v \in Octet
  BY <1>3 DEF Octet
<1> QED  BY <1>2, <1>4 DEF a, b

\* The parts of a state of the decoder.
LEMMA StateParts ==
    ASSUME NEW s \in DecoderState
    PROVE  /\ s.quad \in 0..3 /\ s.left \in 0..63 /\ s.pads \in Nat
           /\ s.out \in Seq(Octet) /\ s.done \in BOOLEAN
           /\ s = [quad |-> s.quad, left |-> s.left, pads |-> s.pads, out |-> s.out,
                   done |-> s.done]
           /\ s.quad = 0 => s.left = 0
           /\ s.quad = 2 => s.left < 16
           /\ s.quad = 3 => s.left < 4
           /\ s.done => s.quad >= 2
BY DEF DecoderState

\* What a data character does to the decoder, part by part.
LEMMA DataParts ==
    ASSUME NEW s \in DecoderState, ~s.done, NEW v \in 0..63
    PROVE  /\ Data(s, v) \in DecoderState
           /\ Data(s, v).pads = 0 /\ ~Data(s, v).done
           /\ s.quad = 0 => /\ Data(s, v).quad = 1 /\ Data(s, v).left = v
                            /\ Data(s, v).out = s.out
           /\ s.quad = 1 => /\ Data(s, v).quad = 2 /\ Data(s, v).left = v % 16
                            /\ Data(s, v).out = s.out \o <<4 * s.left + v \div 16>>
           /\ s.quad = 2 => /\ Data(s, v).quad = 3 /\ Data(s, v).left = v % 4
                            /\ Data(s, v).out = s.out \o <<16 * s.left + v \div 4>>
           /\ s.quad = 3 => /\ Data(s, v).quad = 0 /\ Data(s, v).left = 0
                            /\ Data(s, v).out = s.out \o <<64 * s.left + v>>
<1>1. /\ s.quad \in 0..3 /\ s.left \in 0..63 /\ s.out \in Seq(Octet)
      /\ s.quad = 0 => s.left = 0
      /\ s.quad = 2 => s.left < 16
      /\ s.quad = 3 => s.left < 4
  BY StateParts
<1>2. /\ 4 * s.left + v \div 16 \in Octet
      /\ s.left < 16 => 16 * s.left + v \div 4 \in Octet
      /\ s.left < 4 => 64 * s.left + v \in Octet
      /\ v % 16 \in 0..15 /\ v % 4 \in 0..3
  BY <1>1, BitsFit
<1>3. \A b \in Octet : s.out \o <<b>> \in Seq(Octet)
  BY <1>1
<1>4. s = [i \in {"quad", "left", "pads", "out", "done"} |-> s[i]]
  BY DEF DecoderState
<1> DEFINE x == Data(s, v)
<1>5. x = [i \in {"quad", "left", "pads", "out", "done"} |-> x[i]]
  <2>1. \E q, l, b : x = [s EXCEPT !.quad = q, !.left = l, !.pads = 0, !.out = @ \o b]
    BY Zenon DEF Data
  <2> HIDE DEF x
  <2> QED  BY <1>4, <2>1
<1>6. x.pads = 0 /\ x.done = s.done
  <2>1. \A q, l, b : /\ [s EXCEPT !.quad = q, !.left = l, !.pads = 0, !.out = @ \o b].pads = 0
                     /\ [s EXCEPT !.quad = q, !.left = l, !.pads = 0, !.out = @ \o b].done
                          = s.done
    BY <1>4
  <2> QED  BY <2>1, Zenon DEF Data
<1>7. /\ x.quad \in 0..3 /\ x.left \in 0..63 /\ x.out \in Seq(Octet)
      /\ x.quad = 0 => x.left = 0
      /\ x.quad = 2 => x.left < 16
      /\ x.quad = 3 => x.left < 4
      => x \in DecoderState
  <2> HIDE DEF x
  <2> QED  BY <1>5, <1>6 DEF DecoderState
<1>8. CASE s.quad = 0
  <2>1. x.quad = 1 /\ x.left = v /\ x.out = s.out \o <<>>
    <3>1. (0 + 1) % 4 = 1
      OBVIOUS
    <3>2. x = [s EXCEPT !.quad = (@ + 1) % 4, !.left = v, !.pads = 0, !.out = @ \o <<>>]
      BY <1>8 DEF Data
    <3>3. \A b : LET y == [s EXCEPT !.quad = (@ + 1) % 4, !.left = v, !.pads = 0,
                                    !.out = @ \o b]
                 IN  y.quad = (s.quad + 1) % 4 /\ y.left = v /\ y.out = s.out \o b
      BY <1>4
    <3>4. x.quad = (s.quad + 1) % 4 /\ x.left = v /\ x.out = s.out \o <<>>
      BY <3>2, <3>3, Zenon
    <3> QED  BY <1>8, <3>1, <3>4
  <2> HIDE DEF x
  <2>2. x.out = s.out
    BY <1>1, <2>1
  <2> QED  BY <1>1, <1>6, <1>7, <1>8, <2>1, <2>2 DEF x
<1>9. CASE s.quad = 1
  <2>1. x.quad = 2 /\ x.left = v % 16 /\ x.out = s.out \o <<4 * s.left + v \div 16>>
    <3>1. (1 + 1) % 4 = 2
      OBVIOUS
    <3> QED  BY <1>4, <1>9, <3>1 DEF Data
  <2> HIDE DEF x
  <2> QED  BY <1>2, <1>3, <1>6, <1>7, <1>9, <2>1 DEF x
<1>10. CASE s.quad = 2
  <2>1. x.quad = 3 /\ x.left = v % 4 /\ x.out = s.out \o <<16 * s.left + v \div 4>>
    <3>1. (2 + 1) % 4 = 3
      OBVIOUS
    <3> QED  BY <1>4, <1>10, <3>1 DEF Data
  <2> HIDE DEF x
  <2> QED  BY <1>1, <1>2, <1>3, <1>6, <1>7, <1>10, <2>1 DEF x
<1>11. CASE s.quad = 3
  <2>1. x.quad = 0 /\ x.left = 0 /\ x.out = s.out \o <<64 * s.left + v>>
    <3>1. (3 + 1) % 4 = 0
      OBVIOUS
    <3> QED  BY <1>4, <1>11, <3>1 DEF Data
  <2> HIDE DEF x
  <2> QED  BY <1>1, <1>2, <1>3, <1>6, <1>7, <1>11, <2>1 DEF x
<1>12. s.quad = 0 \/ s.quad = 1 \/ s.quad = 2 \/ s.quad = 3
  BY <1>1
<1> HIDE DEF x
<1> QED  BY <1>8, <1>9, <1>10, <1>11, <1>12, Zenon

\* What a pad, and a character without a meaning, do to the decoder.
LEMMA StepParts ==
    ASSUME NEW s \in DecoderState, NEW c \in Character
    PROVE  /\ s.done \/ c = Other => Step(s, c) = s
           /\ ~s.done /\ c = Pad /\ s.quad < 2 => Step(s, c) = s
           /\ ~s.done /\ c = Pad /\ s.quad >= 2 =>
                Step(s, c) = [s EXCEPT !.pads = @ + 1, !.done = s.quad + s.pads + 1 >= 4]
           /\ ~s.done /\ IsData(c) => Step(s, c) = Data(s, ValueOf(c))
<1>1. Pad # Other /\ (IsData(c) => c # Pad /\ c # Other)
  BY DEF Pad, Other, IsData, Slash, Character
<1>2. s.quad >= 2 => ~(s.quad < 2)
  BY StateParts
<1>3. s.done \/ c = Other => Step(s, c) = s
  BY <1>1 DEF Step
<1>4. ~s.done /\ c = Pad =>
        Step(s, c) = IF s.quad < 2 THEN s
                     ELSE [s EXCEPT !.pads = @ + 1, !.done = s.quad + s.pads + 1 >= 4]
  BY <1>1 DEF Step
<1>5. ~s.done /\ IsData(c) => Step(s, c) = Data(s, ValueOf(c))
  BY <1>1 DEF Step
<1> QED  BY <1>2, <1>3, <1>4, <1>5

\* Every character is data, a pad or neither.
LEMMA Characters ==
    ASSUME NEW c \in Character
    PROVE  IsData(c) \/ c = Pad \/ c = Other
BY DEF Character, IsData, Other, Pad, Slash

\* Every character leaves the decoder in one of its states.
LEMMA StepState ==
    ASSUME NEW s \in DecoderState, NEW c \in Character
    PROVE  Step(s, c) \in DecoderState
<1>1. CASE s.done \/ c = Other
  BY <1>1, StepParts
<1>2. CASE ~s.done /\ c = Pad
  <2>1. CASE s.quad < 2
    BY <1>2, <2>1, StepParts
  <2>2. CASE s.quad >= 2
    <3> DEFINE d == s.quad + s.pads + 1 >= 4
    <3>1. d \in BOOLEAN
      OBVIOUS
    <3>2. Step(s, c) = [s EXCEPT !.pads = @ + 1, !.done = d]
      BY <1>2, <2>2, StepParts
    <3>3. s = [i \in {"quad", "left", "pads", "out", "done"} |-> s[i]]
      BY DEF DecoderState
    <3> DEFINE x == Step(s, c)
    <3> HIDE DEF d
    <3>4. /\ x = [i \in {"quad", "left", "pads", "out", "done"} |-> x[i]]
          /\ x.quad = s.quad /\ x.left = s.left /\ x.out = s.out
          /\ x.pads = s.pads + 1 /\ x.done = d
      BY <3>2, <3>3
    <3> HIDE DEF x
    <3>5. x \in DecoderState
      BY <2>2, <3>1, <3>4, StateParts DEF DecoderState
    <3> QED  BY <3>5 DEF x
  <2> QED  BY <2>1, <2>2, StateParts
<1>3. CASE ~s.done /\ IsData(c)
  <2>1. ValueOf(c) \in 0..63
    BY <1>3, ValueBits
  <2>2. Data(s, ValueOf(c)) \in DecoderState
    BY <1>3, <2>1, DataParts
  <2> QED  BY <1>3, <2>2, StepParts
<1> QED  BY <1>1, <1>2, <1>3, Characters

\* The decoder starts in one of its states.
LEMMA BeginState == Begin \in DecoderState
BY DEF Begin, DecoderState

\* The text with the pads that decode_aqid appends.
Missing(text) == (-Len(text)) % 4
Padded(text) == text \o [i \in 1..Missing(text) |-> Pad]

\* r lists the states of the decoder on p: before, and after every character.
ReadingRow(r, p) ==
    /\ r \in [0..Len(p) -> DecoderState]
    /\ r[0] = Begin
    /\ \A i \in 1..Len(p) : r[i] = Step(r[i - 1], p[i])

\* Reading goes character by character.
LEMMA ReadingSteps ==
    ASSUME NEW text, NEW p \in Seq(Character), p = Padded(text)
    PROVE  \E r : ReadingRow(r, p) /\ Reading(text) = r[Len(p)]
<1> DEFINE n == Len(p)
           F == [x \in DecoderState \X Character |-> Step(x[1], x[2])]
           Solves(h) == h = [T \in SUBSET (1..n) |->
                               IF T = {} THEN Begin ELSE Step(h[T \ {Max(T)}], p[Max(T)])]
           iter == CHOOSE h : Solves(h)
<1>1. n \in Nat /\ DOMAIN p = 1..n
  OBVIOUS
<1>2. F \in [DecoderState \X Character -> DecoderState]
  BY StepState
<1>3. PICK h \in [SUBSET (1..n) -> DecoderState] : FoldsBy(h, F, Begin, p)
  <2>1. Begin \in DecoderState
    BY BeginState
  <2> HIDE DEF F, Solves
  <2> QED  BY <1>2, <2>1, FoldExists
<1>4. ASSUME NEW T \in SUBSET (1..n)
      PROVE  h[T] = IF T = {} THEN Begin ELSE Step(h[T \ {Max(T)}], p[Max(T)])
  <2>1. CASE T = {}
    BY <1>3, <2>1 DEF FoldsBy
  <2>2. CASE T # {}
    <3>1. Max(T) \in 1..n
      BY <1>1, <2>2, MaxExists
    <3>2. p[Max(T)] \in Character
      BY <1>1, <3>1
    <3>3. h[T \ {Max(T)}] \in DecoderState
      BY <1>3
    <3>4. h[T] = F[<<h[T \ {Max(T)}], p[Max(T)]>>]
      BY <1>3, <2>2 DEF FoldsBy
    <3> QED  BY <2>2, <3>2, <3>3, <3>4
  <2> QED  BY <2>1, <2>2
<1>5. Solves(h)
  <2>1. h = [T \in SUBSET (1..n) |-> h[T]]
    OBVIOUS
  <2> QED  BY <1>4, <2>1
<1>6. Solves(iter)
  <2> HIDE DEF Solves
  <2> QED  BY <1>5
<1>7. Reading(text) = iter[1..n]
  BY <1>1 DEF Reading, Padded, Missing, FoldLeft, MapThenFoldSet
<1> HIDE DEF iter
<1>8. \A T \in SUBSET (1..n) :
        iter[T] = IF T = {} THEN Begin ELSE Step(iter[T \ {Max(T)}], p[Max(T)])
  BY <1>6
<1> DEFINE r == [i \in 0..n |-> iter[1..i]]
<1>9. r[0] = Begin
  <2>1. 1..0 = {} /\ 0 \in 0..n
    BY <1>1
  <2> QED  BY <1>8, <2>1
<1>10. ASSUME NEW i \in 1..n PROVE r[i] = Step(r[i - 1], p[i])
  <2>1. Max(1..i) = i
    <3>1. Max(1..i) \in 1..i /\ \A y \in 1..i : y <= Max(1..i)
      <4>1. 1..i \in SUBSET (1..n) /\ 1..i # {}
        BY <1>1
      <4> QED  BY <1>1, <4>1, MaxExists
    <3> QED  BY <3>1
  <2>2. (1..i) \ {i} = 1..(i - 1)
    BY <1>1
  <2>3. 1..i # {} /\ 1..i \in SUBSET (1..n)
    BY <1>1
  <2>4. iter[1..i] = Step(iter[1..(i - 1)], p[i])
    BY <1>8, <2>1, <2>2, <2>3
  <2>5. i \in 0..n /\ i - 1 \in 0..n
    BY <1>1
  <2> QED  BY <2>4, <2>5
<1> HIDE DEF r
<1>11. \A i \in 0..n : i \in {j \in 0..n : r[j] \in DecoderState}
  <2> DEFINE S == {j \in 0..n : r[j] \in DecoderState}
  <2>1. 0 \in S
    BY <1>1, <1>9, BeginState
  <2>2. ASSUME NEW i \in 0..n, i \in S, i + 1 <= n PROVE i + 1 \in S
    <3>1. i + 1 \in 1..n /\ (i + 1) - 1 = i
      BY <1>1, <2>2
    <3>2. p[i + 1] \in Character
      BY <3>1
    <3>3. r[i + 1] = Step(r[i], p[i + 1])
      BY <1>10, <3>1
    <3> QED  BY <2>2, <3>1, <3>2, <3>3, StepState
  <2>3. \A i \in 0..n : i \in S
    <3> HIDE DEF S, n
    <3> QED  BY <1>1, <2>1, <2>2, UpTo
  <2> QED  BY <2>3
<1>12. r \in [0..n -> DecoderState]
  <2>1. r = [i \in 0..n |-> r[i]]
    BY DEF r
  <2> QED  BY <1>11, <2>1
<1>13. Reading(text) = r[n]
  BY <1>1, <1>7 DEF r
<1> QED  BY <1>9, <1>10, <1>12, <1>13 DEF ReadingRow

\* t lists the values of the data characters of p: of none, and of the first few.
TypedRow(t, p) ==
    /\ t \in [0..Len(p) -> Seq(0..63)]
    /\ t[0] = <<>>
    /\ \A i \in 1..Len(p) : t[i] = TakeValue(t[i - 1], p[i])

\* What is taken of a character is six bits.
LEMMA TakenValues ==
    ASSUME NEW s \in Seq(0..63), NEW c \in Character
    PROVE  TakeValue(s, c) \in Seq(0..63)
<1>1. CASE IsData(c)
  <2>1. ValueOf(c) \in 0..63
    BY <1>1, ValueBits
  <2> QED  BY <1>1, <2>1 DEF TakeValue
<1>2. CASE ~IsData(c)
  BY <1>2 DEF TakeValue
<1> QED  BY <1>1, <1>2

\* The values of a text are taken character by character.
LEMMA TypedSteps ==
    ASSUME NEW p \in Seq(Character)
    PROVE  \E r : TypedRow(r, p) /\ Typed(p) = r[Len(p)]
<1> DEFINE n == Len(p)
           F == [x \in Seq(0..63) \X Character |-> TakeValue(x[1], x[2])]
           Solves(h) == h = [T \in SUBSET (1..n) |->
                               IF T = {} THEN <<>> ELSE TakeValue(h[T \ {Max(T)}], p[Max(T)])]
           iter == CHOOSE h : Solves(h)
<1>1. n \in Nat /\ DOMAIN p = 1..n
  OBVIOUS
<1>2. F \in [Seq(0..63) \X Character -> Seq(0..63)]
  BY TakenValues
<1>3. PICK h \in [SUBSET (1..n) -> Seq(0..63)] : FoldsBy(h, F, <<>>, p)
  <2>1. <<>> \in Seq(0..63)
    OBVIOUS
  <2> HIDE DEF F, Solves
  <2> QED  BY <1>2, <2>1, FoldExists
<1>4. ASSUME NEW T \in SUBSET (1..n)
      PROVE  h[T] = IF T = {} THEN <<>> ELSE TakeValue(h[T \ {Max(T)}], p[Max(T)])
  <2>1. CASE T = {}
    BY <1>3, <2>1 DEF FoldsBy
  <2>2. CASE T # {}
    <3>1. Max(T) \in 1..n
      BY <1>1, <2>2, MaxExists
    <3>2. p[Max(T)] \in Character
      BY <1>1, <3>1
    <3>3. h[T \ {Max(T)}] \in Seq(0..63)
      BY <1>3
    <3>4. h[T] = F[<<h[T \ {Max(T)}], p[Max(T)]>>]
      BY <1>3, <2>2 DEF FoldsBy
    <3> QED  BY <2>2, <3>2, <3>3, <3>4
  <2> QED  BY <2>1, <2>2
<1>5. Solves(h)
  <2>1. h = [T \in SUBSET (1..n) |-> h[T]]
    OBVIOUS
  <2> QED  BY <1>4, <2>1
<1>6. Solves(iter)
  <2> HIDE DEF Solves
  <2> QED  BY <1>5
<1>7. Typed(p) = iter[1..n]
  BY <1>1 DEF Typed, FoldLeft, MapThenFoldSet
<1> HIDE DEF iter
<1>8. \A T \in SUBSET (1..n) :
        iter[T] = IF T = {} THEN <<>> ELSE TakeValue(iter[T \ {Max(T)}], p[Max(T)])
  BY <1>6
<1> DEFINE r == [i \in 0..n |-> iter[1..i]]
<1>9. r[0] = <<>>
  <2>1. 1..0 = {} /\ 0 \in 0..n
    BY <1>1
  <2> QED  BY <1>8, <2>1
<1>10. ASSUME NEW i \in 1..n PROVE r[i] = TakeValue(r[i - 1], p[i])
  <2>1. Max(1..i) = i
    <3>1. Max(1..i) \in 1..i /\ \A y \in 1..i : y <= Max(1..i)
      <4>1. 1..i \in SUBSET (1..n) /\ 1..i # {}
        BY <1>1
      <4> QED  BY <1>1, <4>1, MaxExists
    <3> QED  BY <3>1
  <2>2. (1..i) \ {i} = 1..(i - 1)
    BY <1>1
  <2>3. 1..i # {} /\ 1..i \in SUBSET (1..n)
    BY <1>1
  <2>4. iter[1..i] = TakeValue(iter[1..(i - 1)], p[i])
    BY <1>8, <2>1, <2>2, <2>3
  <2>5. i \in 0..n /\ i - 1 \in 0..n
    BY <1>1
  <2> QED  BY <2>4, <2>5
<1> HIDE DEF r
<1>11. \A i \in 0..n : i \in {j \in 0..n : r[j] \in Seq(0..63)}
  <2> DEFINE S == {j \in 0..n : r[j] \in Seq(0..63)}
  <2>1. 0 \in S
    <3>1. <<>> \in Seq(0..63)
      OBVIOUS
    <3>2. 0 \in 0..n
      BY <1>1
    <3> HIDE DEF n
    <3> QED  BY <1>9, <3>1, <3>2
  <2>2. ASSUME NEW i \in 0..n, i \in S, i + 1 <= n PROVE i + 1 \in S
    <3>1. i + 1 \in 1..n /\ (i + 1) - 1 = i
      BY <1>1, <2>2
    <3>2. p[i + 1] \in Character
      BY <3>1
    <3>3. r[i + 1] = TakeValue(r[i], p[i + 1])
      BY <1>10, <3>1
    <3> QED  BY <2>2, <3>1, <3>2, <3>3, TakenValues
  <2>3. \A i \in 0..n : i \in S
    <3> HIDE DEF S, n
    <3> QED  BY <1>1, <2>1, <2>2, UpTo
  <2> QED  BY <2>3
<1>12. r \in [0..n -> Seq(0..63)]
  <2>1. r = [i \in 0..n |-> r[i]]
    BY DEF r
  <2> QED  BY <1>11, <2>1
<1>13. Typed(p) = r[n]
  BY <1>1, <1>7 DEF r
<1> QED  BY <1>9, <1>10, <1>12, <1>13 DEF TypedRow


\* Texts that begin with the same characters have the same values there.
LEMMA TypedPrefix ==
    ASSUME NEW p \in Seq(Character), NEW t, TypedRow(t, p),
           NEW q \in Seq(Character), Len(q) <= Len(p), \A i \in 1..Len(q) : q[i] = p[i]
    PROVE  Typed(q) = t[Len(q)]
<1>1. PICK u : TypedRow(u, q) /\ Typed(q) = u[Len(q)]
  BY TypedSteps
<1> DEFINE n == Len(q)
           S == {i \in 0..n : u[i] = t[i]}
<1>2. n \in Nat /\ Len(p) \in Nat /\ n <= Len(p)
  OBVIOUS
<1>3. 0 \in S
  BY <1>1, <1>2 DEF TypedRow
<1>4. ASSUME NEW i \in 0..n, i \in S, i + 1 <= n PROVE i + 1 \in S
  <2>1. i + 1 \in 1..n /\ i + 1 \in 1..Len(p) /\ (i + 1) - 1 = i
    BY <1>2, <1>4
  <2>2. u[i + 1] = TakeValue(u[i], q[i + 1])
    BY <1>1, <2>1 DEF TypedRow
  <2>3. t[i + 1] = TakeValue(t[i], p[i + 1])
    BY <2>1 DEF TypedRow
  <2>4. q[i + 1] = p[i + 1] /\ u[i] = t[i]
    BY <1>4, <2>1
  <2> QED  BY <1>2, <1>4, <2>1, <2>2, <2>3, <2>4
<1>5. n \in S
  <2>1. \A i \in 0..n : i \in S
    <3> HIDE DEF S, n
    <3> QED  BY <1>2, <1>3, <1>4, UpTo
  <2> QED  BY <1>2, <2>1
<1> QED  BY <1>1, <1>5

----------------------------------------------------------------------------
(* What the decoder has made of the characters it has read. *)

\* The octets are made of the values, four values to three octets.
OctetsOf(out, typed) ==
    \A b \in Nat :
      /\ 3 * b + 1 <= Len(out) => out[3 * b + 1] = 4 * typed[4 * b + 1] + typed[4 * b + 2] \div 16
      /\ 3 * b + 2 <= Len(out) =>
           out[3 * b + 2] = 16 * (typed[4 * b + 2] % 16) + typed[4 * b + 3] \div 4
      /\ 3 * b + 3 <= Len(out) => out[3 * b + 3] = 64 * (typed[4 * b + 3] % 4) + typed[4 * b + 4]

\* So many groups are complete; the last one waits for its characters.
TracksGroups(s, typed, m) ==
    /\ Len(typed) = 4 * m + s.quad
    /\ Len(s.out) = 3 * m + (IF s.quad = 0 THEN 0 ELSE s.quad - 1)
    /\ s.quad = 1 => s.left = typed[4 * m + 1]
    /\ s.quad = 2 => s.left = typed[4 * m + 2] % 16
    /\ s.quad = 3 => s.left = typed[4 * m + 3] % 4
    /\ OctetsOf(s.out, typed)

\* The state of the decoder after data characters of these values.
Tracks(s, typed) == \E m \in Nat : TracksGroups(s, typed, m)

\* One more value does not change what the octets are made of.
LEMMA OctetsStay ==
    ASSUME NEW out \in Seq(Octet), NEW typed \in Seq(0..63), NEW v \in 0..63, NEW m \in Nat,
           NEW q \in 0..3, Len(typed) = 4 * m + q,
           Len(out) = 3 * m + (IF q = 0 THEN 0 ELSE q - 1),
           OctetsOf(out, typed)
    PROVE  OctetsOf(out, Append(typed, v))
<1> DEFINE longer == Append(typed, v)
<1>1. \A i \in 1..Len(typed) : longer[i] = typed[i]
  OBVIOUS
<1>2. Len(out) \in Nat
  OBVIOUS
<1> SUFFICES ASSUME NEW b \in Nat
             PROVE  /\ 3 * b + 1 <= Len(out) =>
                         out[3 * b + 1] = 4 * longer[4 * b + 1] + longer[4 * b + 2] \div 16
                    /\ 3 * b + 2 <= Len(out) =>
                         out[3 * b + 2] = 16 * (longer[4 * b + 2] % 16) + longer[4 * b + 3] \div 4
                    /\ 3 * b + 3 <= Len(out) =>
                         out[3 * b + 3] = 64 * (longer[4 * b + 3] % 4) + longer[4 * b + 4]
  BY DEF OctetsOf
<1> HIDE DEF longer
<1>3. /\ 3 * b + 1 <= Len(out) =>
           4 * b + 1 \in 1..Len(typed) /\ 4 * b + 2 \in 1..Len(typed)
      /\ 3 * b + 2 <= Len(out) =>
           4 * b + 2 \in 1..Len(typed) /\ 4 * b + 3 \in 1..Len(typed)
      /\ 3 * b + 3 <= Len(out) =>
           4 * b + 3 \in 1..Len(typed) /\ 4 * b + 4 \in 1..Len(typed)
  BY <1>2
<1>4. 3 * b + 1 <= Len(out) =>
        out[3 * b + 1] = 4 * longer[4 * b + 1] + longer[4 * b + 2] \div 16
  <2> SUFFICES ASSUME 3 * b + 1 <= Len(out)
               PROVE  out[3 * b + 1] = 4 * longer[4 * b + 1] + longer[4 * b + 2] \div 16
    OBVIOUS
  <2>1. longer[4 * b + 1] = typed[4 * b + 1] /\ longer[4 * b + 2] = typed[4 * b + 2]
    BY <1>1, <1>3
  <2> QED  BY <2>1 DEF OctetsOf
<1>5. 3 * b + 2 <= Len(out) =>
        out[3 * b + 2] = 16 * (longer[4 * b + 2] % 16) + longer[4 * b + 3] \div 4
  <2> SUFFICES ASSUME 3 * b + 2 <= Len(out)
               PROVE  out[3 * b + 2] = 16 * (longer[4 * b + 2] % 16) + longer[4 * b + 3] \div 4
    OBVIOUS
  <2>1. longer[4 * b + 2] = typed[4 * b + 2] /\ longer[4 * b + 3] = typed[4 * b + 3]
    BY <1>1, <1>3
  <2> QED  BY <2>1 DEF OctetsOf
<1>6. 3 * b + 3 <= Len(out) =>
        out[3 * b + 3] = 64 * (longer[4 * b + 3] % 4) + longer[4 * b + 4]
  <2> SUFFICES ASSUME 3 * b + 3 <= Len(out)
               PROVE  out[3 * b + 3] = 64 * (longer[4 * b + 3] % 4) + longer[4 * b + 4]
    OBVIOUS
  <2>1. longer[4 * b + 3] = typed[4 * b + 3] /\ longer[4 * b + 4] = typed[4 * b + 4]
    BY <1>1, <1>3
  <2> QED  BY <2>1 DEF OctetsOf
<1> QED  BY <1>4, <1>5, <1>6

\* An octet of the next values may follow.
LEMMA OctetsGrow ==
    ASSUME NEW out \in Seq(Octet), NEW typed \in Seq(0..63), OctetsOf(out, typed),
           NEW x \in Octet, NEW m \in Nat,
           \/ Len(out) = 3 * m /\ x = 4 * typed[4 * m + 1] + typed[4 * m + 2] \div 16
           \/ /\ Len(out) = 3 * m + 1
              /\ x = 16 * (typed[4 * m + 2] % 16) + typed[4 * m + 3] \div 4
           \/ Len(out) = 3 * m + 2 /\ x = 64 * (typed[4 * m + 3] % 4) + typed[4 * m + 4]
    PROVE  OctetsOf(out \o <<x>>, typed)
<1> DEFINE longer == out \o <<x>>
           n == Len(out)
<1>1. /\ n \in Nat /\ Len(longer) = n + 1 /\ longer[n + 1] = x
      /\ \A i \in 1..n : longer[i] = out[i]
  OBVIOUS
<1> HIDE DEF longer
<1> SUFFICES ASSUME NEW b \in Nat
             PROVE  /\ 3 * b + 1 <= Len(longer) =>
                         longer[3 * b + 1] = 4 * typed[4 * b + 1] + typed[4 * b + 2] \div 16
                    /\ 3 * b + 2 <= Len(longer) =>
                         longer[3 * b + 2] = 16 * (typed[4 * b + 2] % 16) + typed[4 * b + 3] \div 4
                    /\ 3 * b + 3 <= Len(longer) =>
                         longer[3 * b + 3] = 64 * (typed[4 * b + 3] % 4) + typed[4 * b + 4]
  BY DEF OctetsOf, longer
<1>2. 3 * b + 1 <= Len(longer) =>
        longer[3 * b + 1] = 4 * typed[4 * b + 1] + typed[4 * b + 2] \div 16
  <2>1. CASE 3 * b + 1 = n + 1
    <3>1. n = 3 * m /\ m = b
      BY <1>1, <2>1
    <3> QED  BY <1>1, <3>1
  <2>2. CASE 3 * b + 1 <= n
    <3>1. longer[3 * b + 1] = out[3 * b + 1]
      BY <1>1, <2>2
    <3> QED  BY <2>2, <3>1 DEF OctetsOf
  <2> QED  BY <1>1, <2>1, <2>2
<1>3. 3 * b + 2 <= Len(longer) =>
        longer[3 * b + 2] = 16 * (typed[4 * b + 2] % 16) + typed[4 * b + 3] \div 4
  <2>1. CASE 3 * b + 2 = n + 1
    <3>1. n = 3 * m + 1 /\ m = b
      BY <1>1, <2>1
    <3> QED  BY <1>1, <3>1
  <2>2. CASE 3 * b + 2 <= n
    <3>1. longer[3 * b + 2] = out[3 * b + 2]
      BY <1>1, <2>2
    <3> QED  BY <2>2, <3>1 DEF OctetsOf
  <2> QED  BY <1>1, <2>1, <2>2
<1>4. 3 * b + 3 <= Len(longer) =>
        longer[3 * b + 3] = 64 * (typed[4 * b + 3] % 4) + typed[4 * b + 4]
  <2>1. CASE 3 * b + 3 = n + 1
    <3>1. n = 3 * m + 2 /\ m = b
      BY <1>1, <2>1
    <3> QED  BY <1>1, <3>1
  <2>2. CASE 3 * b + 3 <= n
    <3>1. longer[3 * b + 3] = out[3 * b + 3]
      BY <1>1, <2>2
    <3> QED  BY <2>2, <3>1 DEF OctetsOf
  <2> QED  BY <1>1, <2>1, <2>2
<1> QED  BY <1>2, <1>3, <1>4

\* A data character takes the decoder along with the values.
LEMMA DataTracks ==
    ASSUME NEW s \in DecoderState, ~s.done, NEW typed \in Seq(0..63), Tracks(s, typed),
           NEW v \in 0..63
    PROVE  Tracks(Data(s, v), Append(typed, v))
<1>1. PICK m \in Nat : TracksGroups(s, typed, m)
  BY DEF Tracks
<1> DEFINE x == Data(s, v)
           longer == Append(typed, v)
<1>2. /\ s.quad \in 0..3 /\ s.out \in Seq(Octet) /\ s.left \in 0..63
      /\ x.out \in Seq(Octet)
  BY StateParts, DataParts
<1>3. OctetsOf(s.out, longer)
  <2>1. /\ Len(typed) = 4 * m + s.quad
        /\ Len(s.out) = 3 * m + (IF s.quad = 0 THEN 0 ELSE s.quad - 1)
        /\ OctetsOf(s.out, typed)
    BY <1>1 DEF TracksGroups
  <2> QED  BY <1>2, <2>1, OctetsStay
<1>4. /\ longer \in Seq(0..63) /\ Len(longer) = Len(typed) + 1 /\ longer[Len(typed) + 1] = v
      /\ \A i \in 1..Len(typed) : longer[i] = typed[i]
      /\ Len(typed) \in Nat
  OBVIOUS
<1> HIDE DEF longer
<1>5. \A o \in Octet : Len(s.out \o <<o>>) = Len(s.out) + 1
  BY <1>2
<1>6. CASE s.quad = 0
  <2>1. x.quad = 1 /\ x.left = v /\ x.out = s.out
    BY <1>6, DataParts
  <2>2. Len(typed) = 4 * m /\ Len(s.out) = 3 * m
    BY <1>1, <1>6 DEF TracksGroups
  <2> HIDE DEF x
  <2>3. TracksGroups(x, longer, m)
    BY <1>3, <1>4, <2>1, <2>2 DEF TracksGroups
  <2> QED  BY <2>3 DEF Tracks, x, longer
<1>7. CASE s.quad = 1
  <2>1. x.quad = 2 /\ x.left = v % 16 /\ x.out = s.out \o <<4 * s.left + v \div 16>>
    BY <1>7, DataParts
  <2>2. Len(typed) = 4 * m + 1 /\ Len(s.out) = 3 * m /\ s.left = typed[4 * m + 1]
    BY <1>1, <1>7 DEF TracksGroups
  <2>3. longer[4 * m + 1] = s.left /\ longer[4 * m + 2] = v
    BY <1>4, <2>2
  <2> DEFINE o == 4 * s.left + v \div 16
  <2>4. o \in Octet
    BY <1>2, BitsFit
  <2> HIDE DEF o
  <2>5. x.out = s.out \o <<o>> /\ o = 4 * longer[4 * m + 1] + longer[4 * m + 2] \div 16
    BY <2>1, <2>3 DEF o
  <2>6. OctetsOf(s.out \o <<o>>, longer)
    BY <1>2, <1>3, <1>4, <2>2, <2>4, <2>5, OctetsGrow
  <2> HIDE DEF x
  <2>7. Len(x.out) = 3 * m + 1 /\ OctetsOf(x.out, longer)
    BY <1>5, <2>2, <2>4, <2>5, <2>6
  <2>8. TracksGroups(x, longer, m)
    BY <1>4, <2>1, <2>2, <2>3, <2>7 DEF TracksGroups
  <2> QED  BY <2>8 DEF Tracks, x, longer
<1>8. CASE s.quad = 2
  <2>1. x.quad = 3 /\ x.left = v % 4 /\ x.out = s.out \o <<16 * s.left + v \div 4>>
    BY <1>8, DataParts
  <2>2. Len(typed) = 4 * m + 2 /\ Len(s.out) = 3 * m + 1 /\ s.left = typed[4 * m + 2] % 16
    BY <1>1, <1>8 DEF TracksGroups
  <2>3. longer[4 * m + 2] = typed[4 * m + 2] /\ longer[4 * m + 3] = v
    BY <1>4, <2>2
  <2> DEFINE o == 16 * s.left + v \div 4
  <2>4. o \in Octet
    BY <1>2, <1>8, BitsFit, StateParts
  <2> HIDE DEF o
  <2>5. x.out = s.out \o <<o>> /\ o = 16 * (longer[4 * m + 2] % 16) + longer[4 * m + 3] \div 4
    BY <2>1, <2>2, <2>3 DEF o
  <2>6. OctetsOf(s.out \o <<o>>, longer)
    BY <1>2, <1>3, <1>4, <2>2, <2>4, <2>5, OctetsGrow
  <2> HIDE DEF x
  <2>7. Len(x.out) = 3 * m + 2 /\ OctetsOf(x.out, longer)
    BY <1>5, <2>2, <2>4, <2>5, <2>6
  <2>8. TracksGroups(x, longer, m)
    BY <1>4, <2>1, <2>2, <2>3, <2>7 DEF TracksGroups
  <2> QED  BY <2>8 DEF Tracks, x, longer
<1>9. CASE s.quad = 3
  <2>1. x.quad = 0 /\ x.left = 0 /\ x.out = s.out \o <<64 * s.left + v>>
    BY <1>9, DataParts
  <2>2. Len(typed) = 4 * m + 3 /\ Len(s.out) = 3 * m + 2 /\ s.left = typed[4 * m + 3] % 4
    BY <1>1, <1>9 DEF TracksGroups
  <2>3. longer[4 * m + 3] = typed[4 * m + 3] /\ longer[4 * m + 4] = v
    BY <1>4, <2>2
  <2> DEFINE o == 64 * s.left + v
  <2>4. o \in Octet
    BY <1>2, <1>9, BitsFit, StateParts
  <2> HIDE DEF o
  <2>5. x.out = s.out \o <<o>> /\ o = 64 * (longer[4 * m + 3] % 4) + longer[4 * m + 4]
    BY <2>1, <2>2, <2>3 DEF o
  <2>6. OctetsOf(s.out \o <<o>>, longer)
    BY <1>2, <1>3, <1>4, <2>2, <2>4, <2>5, OctetsGrow
  <2> HIDE DEF x
  <2>7. Len(x.out) = 3 * (m + 1) /\ OctetsOf(x.out, longer)
    BY <1>5, <2>2, <2>4, <2>5, <2>6
  <2>8. Len(longer) = 4 * (m + 1)
    BY <1>4, <2>2
  <2>9. TracksGroups(x, longer, m + 1)
    BY <2>1, <2>7, <2>8 DEF TracksGroups
  <2> QED  BY <2>9 DEF Tracks, x, longer
<1> QED  BY <1>2, <1>6, <1>7, <1>8, <1>9

\* What the decoder has made of the first i characters of p: octets of their data
\* characters or, once a pad has ended the input, of those before that pad.
TracksRow(r, t, p, i) ==
    /\ ~r[i].done => Tracks(r[i], t[i])
    /\ r[i].done => \E j \in 1..i : p[j] = Pad /\ Tracks(r[i], t[j])

\* The decoder keeps track of the values to the end of the text.
LEMMA RowTracks ==
    ASSUME NEW p \in Seq(Character), NEW r, ReadingRow(r, p), NEW t, TypedRow(t, p)
    PROVE  \A i \in 0..Len(p) : TracksRow(r, t, p, i)
<1> DEFINE n == Len(p)
           S == {i \in 0..n : TracksRow(r, t, p, i)}
<1>1. n \in Nat
  OBVIOUS
<1>2. 0 \in S
  <2>1. r[0] = Begin /\ t[0] = <<>>
    BY DEF ReadingRow, TypedRow
  <2>2. ~r[0].done /\ TracksGroups(r[0], t[0], 0)
    BY <2>1 DEF Begin, TracksGroups, OctetsOf
  <2> QED  BY <1>1, <2>2 DEF TracksRow, Tracks
<1>3. ASSUME NEW i \in 0..n, i \in S, i + 1 <= n PROVE i + 1 \in S
  <2> DEFINE k == i + 1
             s == r[i]
             c == p[k]
  <2>1. k \in 0..n /\ k \in 1..n /\ k - 1 = i
    BY <1>1, <1>3
  <2>2. s \in DecoderState /\ c \in Character /\ r[k] = Step(s, c)
    BY <2>1 DEF ReadingRow
  <2>3. t[i] \in Seq(0..63) /\ t[k] = TakeValue(t[i], c)
    BY <2>1 DEF TypedRow
  <2>4. TracksRow(r, t, p, i)
    BY <1>3
  <2> HIDE DEF k, s, c, n
  <2>5. CASE s.done
    <3>1. r[k] = s
      BY <2>2, <2>5, StepParts
    <3>2. PICK j \in 1..i : p[j] = Pad /\ Tracks(s, t[j])
      BY <2>4, <2>5 DEF TracksRow, s
    <3>3. j \in 1..k
      BY <2>1, <3>2 DEF k
    <3>4. TracksRow(r, t, p, k)
      BY <2>5, <3>1, <3>2, <3>3 DEF TracksRow
    <3> QED  BY <2>1, <3>4 DEF k
  <2>6. CASE ~s.done
    <3>1. Tracks(s, t[i])
      BY <2>4, <2>6 DEF TracksRow, s
    <3>2. CASE IsData(c)
      <4>1. ValueOf(c) \in 0..63
        BY <2>2, <3>2, ValueBits
      <4>2. r[k] = Data(s, ValueOf(c)) /\ t[k] = Append(t[i], ValueOf(c))
        BY <2>2, <2>3, <2>6, <3>2, StepParts DEF TakeValue
      <4>3. Tracks(r[k], t[k]) /\ ~r[k].done
        BY <2>2, <2>3, <2>6, <3>1, <4>1, <4>2, DataTracks, DataParts
      <4>4. TracksRow(r, t, p, k)
        BY <4>3 DEF TracksRow
      <4> QED  BY <2>1, <4>4 DEF k
    <3>3. CASE ~IsData(c)
      <4>1. t[k] = t[i]
        BY <2>3, <3>3 DEF TakeValue
      <4>2. /\ r[k].quad = s.quad /\ r[k].left = s.left /\ r[k].out = s.out
            /\ r[k].done => c = Pad
        <5>1. c = Pad \/ c = Other
          BY <2>2, <3>3, Characters
        <5>2. CASE r[k] = s
          BY <2>6, <5>2
        <5>3. CASE c = Pad /\ s.quad >= 2
          <6> DEFINE d == s.quad + s.pads + 1 >= 4
          <6>1. r[k] = [s EXCEPT !.pads = @ + 1, !.done = d]
            BY <2>2, <2>6, <5>3, StepParts
          <6>2. s = [j \in {"quad", "left", "pads", "out", "done"} |-> s[j]]
            BY <2>2 DEF DecoderState
          <6> HIDE DEF d
          <6> QED  BY <5>3, <6>1, <6>2
        <5>4. s.quad < 2 \/ s.quad >= 2
          BY <2>2, StateParts
        <5> QED  BY <2>2, <2>6, <5>1, <5>2, <5>3, <5>4, StepParts
      <4>3. Tracks(r[k], t[k])
        BY <3>1, <4>1, <4>2 DEF Tracks, TracksGroups
      <4>4. k \in 1..k
        BY <2>1
      <4>5. TracksRow(r, t, p, k)
        BY <4>2, <4>3, <4>4 DEF TracksRow, c
      <4> QED  BY <2>1, <4>5 DEF k
    <3> QED  BY <3>2, <3>3
  <2> QED  BY <2>5, <2>6
<1>4. \A i \in 0..n : i \in S
  <2> HIDE DEF S, n
  <2> QED  BY <1>1, <1>2, <1>3, UpTo
<1> QED  BY <1>4

\* The text comes first in the padded text, and nothing but pads after it.
LEMMA PaddedParts ==
    ASSUME NEW text \in Seq(Character)
    PROVE  /\ Padded(text) \in Seq(Character)
           /\ Len(Padded(text)) = Len(text) + Missing(text)
           /\ Missing(text) \in 0..3
           /\ \A i \in 1..Len(text) : Padded(text)[i] = text[i]
           /\ \A i \in (Len(text) + 1)..Len(Padded(text)) : Padded(text)[i] = Pad
<1> DEFINE k == Missing(text)
           pads == [i \in 1..k |-> Pad]
           n == Len(text)
<1>1. n \in Nat /\ k \in 0..3
  BY DEF Missing
<1> HIDE DEF k, n
<1>2. Pad \in Character
  BY DEF Character, Pad, Other
<1>3. pads \in Seq(Character) /\ Len(pads) = k
  BY <1>1, <1>2
<1>4. /\ text \o pads \in Seq(Character)
      /\ Len(text \o pads) = n + k
      /\ \A i \in 1..(n + k) : (text \o pads)[i] = IF i <= n THEN text[i] ELSE pads[i - n]
  <2> HIDE DEF pads
  <2> QED  BY <1>3, ConcatProperties DEF n
<1>5. Padded(text) = text \o pads
  BY DEF Padded, k
<1>6. \A i \in 1..n : (text \o pads)[i] = text[i]
  <2> HIDE DEF pads
  <2> QED  BY <1>1, <1>4
<1>7. ASSUME NEW i \in (n + 1)..(n + k) PROVE (text \o pads)[i] = Pad
  <2>1. i \in 1..(n + k) /\ ~(i <= n) /\ i - n \in 1..k
    BY <1>1
  <2>2. pads[i - n] = Pad
    BY <2>1
  <2> HIDE DEF pads
  <2> QED  BY <1>4, <2>1, <2>2
<1> HIDE DEF pads
<1> DEFINE q == text \o pads
<1>8. /\ q \in Seq(Character) /\ Len(q) = n + k /\ k \in 0..3
      /\ \A i \in 1..n : q[i] = text[i]
      /\ \A i \in (n + 1)..(n + k) : q[i] = Pad
  BY <1>1, <1>4, <1>6, <1>7
<1>9. Padded(text) = q
  BY <1>5
<1> HIDE DEF q
<1>10. \A i \in (n + 1)..Len(q) : q[i] = Pad
  BY <1>8
<1> QED  BY <1>8, <1>9, <1>10 DEF k, n

\* What decode_aqid reads stands for what was typed: in the whole text or before a pad.
LEMMA ReadingTracks ==
    ASSUME NEW text \in Seq(Character)
    PROVE  /\ Reading(text) \in DecoderState
           /\ \/ Tracks(Reading(text), Typed(text))
              \/ \E i \in DOMAIN text : /\ text[i] = Pad
                                        /\ Tracks(Reading(text), Typed(SubSeq(text, 1, i)))
<1> DEFINE p == Padded(text)
           n == Len(text)
           e == Len(p)
<1>1. /\ p \in Seq(Character) /\ e \in Nat /\ n \in Nat /\ n <= e
      /\ \A i \in 1..n : p[i] = text[i]
      /\ \A i \in (n + 1)..e : p[i] = Pad
  <2>1. /\ p \in Seq(Character) /\ e = n + Missing(text) /\ Missing(text) \in 0..3
        /\ \A i \in 1..n : p[i] = text[i]
        /\ \A i \in (n + 1)..e : p[i] = Pad
    BY PaddedParts
  <2>2. n \in Nat
    OBVIOUS
  <2> DEFINE m == Missing(text)
  <2>3. e = n + m /\ m \in 0..3
    BY <2>1
  <2> HIDE DEF e, m, n
  <2>4. e \in Nat /\ n <= e
    BY <2>2, <2>3
  <2> QED  BY <2>1, <2>2, <2>4
<1>2. PICK r : ReadingRow(r, p) /\ Reading(text) = r[e]
  <2> DEFINE q == p
  <2>1. q \in Seq(Character) /\ q = Padded(text)
    BY <1>1
  <2> HIDE DEF q
  <2>2. \E r : ReadingRow(r, q) /\ Reading(text) = r[Len(q)]
    BY <2>1, ReadingSteps
  <2> QED  BY <2>2 DEF q
<1>3. PICK t : TypedRow(t, p)
  BY <1>1, TypedSteps
<1> HIDE DEF p
<1>4. Reading(text) \in DecoderState /\ e \in 0..e
  BY <1>1, <1>2 DEF ReadingRow
<1>5. TracksRow(r, t, p, e)
  BY <1>1, <1>2, <1>3, <1>4, RowTracks
<1>6. ASSUME NEW i \in 0..n PROVE Typed(SubSeq(text, 1, i)) = t[i]
  <2> DEFINE q == SubSeq(text, 1, i)
  <2>1. q \in Seq(Character) /\ Len(q) = i /\ \A k \in 1..i : q[k] = text[k]
    BY <1>1
  <2> HIDE DEF q
  <2>2. Len(q) <= e /\ \A k \in 1..Len(q) : q[k] = p[k]
    BY <1>1, <2>1
  <2>3. Typed(q) = t[Len(q)]
    BY <1>1, <1>3, <2>1, <2>2, TypedPrefix
  <2> QED  BY <2>1, <2>3 DEF q
<1>7. Typed(text) = t[n]
  BY <1>1, <1>3, TypedPrefix
<1>8. \A i \in n..e : t[i] = t[n]
  <2> DEFINE S == {i \in 0..e : i >= n => t[i] = t[n]}
  <2>1. 0 \in S
    BY <1>1
  <2>2. ASSUME NEW i \in 0..e, i \in S, i + 1 <= e PROVE i + 1 \in S
    <3>1. i + 1 \in 1..e /\ (i + 1) - 1 = i /\ i + 1 \in 0..e
      BY <1>1, <2>2
    <3>2. CASE i + 1 <= n
      BY <1>1, <3>1, <3>2
    <3>3. CASE i + 1 > n
      <4>1. p[i + 1] = Pad /\ ~IsData(Pad)
        BY <1>1, <3>1, <3>3 DEF IsData, Pad, Slash
      <4>2. t[i + 1] = TakeValue(t[i], p[i + 1])
        BY <1>3, <3>1 DEF TypedRow
      <4>3. t[i + 1] = t[i]
        BY <4>1, <4>2 DEF TakeValue
      <4>4. i >= n
        BY <1>1, <3>1, <3>3
      <4> QED  BY <2>2, <3>1, <4>3, <4>4
    <3> QED  BY <1>1, <3>1, <3>2, <3>3
  <2>3. \A i \in 0..e : i \in S
    <3> HIDE DEF S, e
    <3> QED  BY <1>1, <2>1, <2>2, UpTo
  <2> HIDE DEF e, n
  <2> QED  BY <1>1, <2>3
<1>9. CASE ~r[e].done
  <2>1. t[e] = Typed(text)
    BY <1>1, <1>7, <1>8
  <2> QED  BY <1>2, <1>4, <1>5, <1>9, <2>1 DEF TracksRow
<1>10. CASE r[e].done
  <2>1. PICK j \in 1..e : p[j] = Pad /\ Tracks(r[e], t[j])
    BY <1>5, <1>10 DEF TracksRow
  <2>2. CASE j <= n
    <3>1. j \in 1..n /\ j \in 0..n
      BY <1>1, <2>2
    <3>2. j \in DOMAIN text /\ text[j] = Pad /\ Typed(SubSeq(text, 1, j)) = t[j]
      BY <1>1, <1>6, <2>1, <3>1
    <3> QED  BY <1>2, <1>4, <2>1, <3>2
  <2>3. CASE j > n
    <3>1. t[j] = Typed(text)
      BY <1>1, <1>7, <1>8, <2>3
    <3> QED  BY <1>2, <1>4, <2>1, <3>1
  <2> QED  BY <1>1, <2>2, <2>3
<1> QED  BY <1>9, <1>10

----------------------------------------------------------------------------
(* What is decoded is what was typed. *)

\* A character of the encoding depends on the octets of its group.
LEMMA SextetParts ==
    ASSUME NEW id, NEW b \in Nat
    PROVE  /\ Sextet(id, 4 * b + 1) = ByteAt(id, 3 * b + 1) \div 4
           /\ Sextet(id, 4 * b + 2) =
                16 * (ByteAt(id, 3 * b + 1) % 4) + ByteAt(id, 3 * b + 2) \div 16
           /\ Sextet(id, 4 * b + 3) =
                4 * (ByteAt(id, 3 * b + 2) % 16) + ByteAt(id, 3 * b + 3) \div 64
           /\ Sextet(id, 4 * b + 4) = ByteAt(id, 3 * b + 3) % 64
<1>1. ((4 * b + 1) - 1) % 4 = 0 /\ ((4 * b + 1) - 1) \div 4 = b
  OBVIOUS
<1>2. ((4 * b + 2) - 1) % 4 = 1 /\ ((4 * b + 2) - 1) \div 4 = b
  OBVIOUS
<1>3. ((4 * b + 3) - 1) % 4 = 2 /\ ((4 * b + 3) - 1) \div 4 = b
  OBVIOUS
<1>4. ((4 * b + 4) - 1) % 4 = 3 /\ ((4 * b + 4) - 1) \div 4 = b
  OBVIOUS
<1> QED  BY <1>1, <1>2, <1>3, <1>4 DEF Sextet

\* The encoding of a byte string, character by character.
LEMMA EncodeParts ==
    ASSUME NEW id \in Seq(Octet)
    PROVE  /\ Len(Encode(id)) = (8 * Len(id) + 5) \div 6
           /\ \A k \in 1..Len(Encode(id)) : Encode(id)[k] = Sextet(id, k)
<1> DEFINE n == (8 * Len(id) + 5) \div 6
<1>1. n \in Nat
  OBVIOUS
<1>2. Encode(id) = [k \in 1..n |-> Sextet(id, k)]
  BY DEF Encode
<1> HIDE DEF n
<1>3. Len(Encode(id)) = n
  BY <1>1, <1>2
<1> QED  BY <1>2, <1>3 DEF n

\* How long the encoding is.
LEMMA EncodeLengths ==
    ASSUME NEW m \in Nat
    PROVE  /\ (8 * (3 * m) + 5) \div 6 = 4 * m
           /\ (8 * (3 * m + 1) + 5) \div 6 = 4 * m + 2
           /\ (8 * (3 * m + 2) + 5) \div 6 = 4 * m + 3
           /\ (3 * m) % 3 = 0 /\ (3 * m + 1) % 3 = 1 /\ (3 * m + 2) % 3 = 2
OBVIOUS

\* The octets of a byte string are numbers.
LEMMA OctetOf ==
    ASSUME NEW out \in Seq(Octet), NEW i \in 1..Len(out)
    PROVE  out[i] \in Nat
<1>1. out[i] \in Octet
  BY ElementOfSeq
<1>2. Octet \subseteq Nat
  BY DEF Octet
<1> QED  BY <1>1, <1>2

\* The octets of a group are made of its values.
First(o1, u1, u2) == o1 = 4 * u1 + u2 \div 16
Second(o2, u2, u3) == o2 = 16 * (u2 % 16) + u3 \div 4
Third(o3, u3, u4) == o3 = 64 * (u3 % 4) + u4

\* They give the values back; the last one of an incomplete group, its upper bits.
Complete(o1, o2, o3, u1, u2, u3, u4) ==
    /\ o1 \div 4 = u1 /\ 16 * (o1 % 4) + o2 \div 16 = u2
    /\ 4 * (o2 % 16) + o3 \div 64 = u3 /\ o3 % 64 = u4
OfOne(o1, u1, u2) == o1 \div 4 = u1 /\ (16 * (o1 % 4)) \div 16 = u2 \div 16
OfTwo(o1, o2, u1, u2, u3) ==
    /\ o1 \div 4 = u1 /\ 16 * (o1 % 4) + o2 \div 16 = u2
    /\ (4 * (o2 % 16)) \div 4 = u3 \div 4

\* Three octets of a group give its values back.
LEMMA GroupBack ==
    ASSUME NEW u1 \in 0..63, NEW u2 \in 0..63, NEW u3 \in 0..63, NEW u4 \in 0..63,
           NEW o1 \in Nat, NEW o2 \in Nat, NEW o3 \in Nat,
           First(o1, u1, u2), Second(o2, u2, u3), Third(o3, u3, u4)
    PROVE  Complete(o1, o2, o3, u1, u2, u3, u4)
BY DEF First, Second, Third, Complete

\* One octet gives back a value and the upper two bits of the next one.
LEMMA GroupBegin ==
    ASSUME NEW u1 \in 0..63, NEW u2 \in 0..63, NEW o1 \in Nat, First(o1, u1, u2)
    PROVE  OfOne(o1, u1, u2)
BY DEF First, OfOne

\* Two octets give back two values and the upper four bits of the next one.
LEMMA GroupMiddle ==
    ASSUME NEW u1 \in 0..63, NEW u2 \in 0..63, NEW u3 \in 0..63,
           NEW o1 \in Nat, NEW o2 \in Nat, First(o1, u1, u2), Second(o2, u2, u3)
    PROVE  OfTwo(o1, o2, u1, u2, u3)
BY DEF First, Second, OfTwo

\* A complete group of values is spelt by the octets made of it.
LEMMA GroupSpelt ==
    ASSUME NEW out \in Seq(Octet), NEW typed \in Seq(0..63), OctetsOf(out, typed),
           NEW b \in Nat, 3 * b + 3 <= Len(out), 4 * b + 4 <= Len(typed)
    PROVE  \A j \in 1..4 : Sextet(out, 4 * b + j) = typed[4 * b + j]
<1>1. Len(out) \in Nat /\ Len(typed) \in Nat
  OBVIOUS
<1>2. /\ 3 * b + 1 \in 1..Len(out) /\ 3 * b + 2 \in 1..Len(out) /\ 3 * b + 3 \in 1..Len(out)
      /\ 4 * b + 1 \in 1..Len(typed) /\ 4 * b + 2 \in 1..Len(typed)
      /\ 4 * b + 3 \in 1..Len(typed) /\ 4 * b + 4 \in 1..Len(typed)
  BY <1>1
<1> DEFINE o1 == out[3 * b + 1]
           o2 == out[3 * b + 2]
           o3 == out[3 * b + 3]
           u1 == typed[4 * b + 1]
           u2 == typed[4 * b + 2]
           u3 == typed[4 * b + 3]
           u4 == typed[4 * b + 4]
<1>3. o1 \in Nat /\ o2 \in Nat /\ o3 \in Nat
  <2>1. \A i \in 1..Len(out) : out[i] \in Nat
    BY OctetOf
  <2> QED  BY <1>2, <2>1
<1>4. u1 \in 0..63 /\ u2 \in 0..63 /\ u3 \in 0..63 /\ u4 \in 0..63
  <2>1. \A i \in 1..Len(typed) : typed[i] \in 0..63
    BY ElementOfSeq
  <2> QED  BY <1>2, <2>1
<1>5. First(o1, u1, u2) /\ Second(o2, u2, u3) /\ Third(o3, u3, u4)
  BY <1>1, <1>2 DEF OctetsOf, First, Second, Third
<1>6. /\ ByteAt(out, 3 * b + 1) = o1 /\ ByteAt(out, 3 * b + 2) = o2
      /\ ByteAt(out, 3 * b + 3) = o3
  BY <1>2 DEF ByteAt
<1>7. /\ Sextet(out, 4 * b + 1) = o1 \div 4
      /\ Sextet(out, 4 * b + 2) = 16 * (o1 % 4) + o2 \div 16
      /\ Sextet(out, 4 * b + 3) = 4 * (o2 % 16) + o3 \div 64
      /\ Sextet(out, 4 * b + 4) = o3 % 64
  <2> HIDE DEF o1, o2, o3
  <2> QED  BY <1>6, SextetParts
<1>8. Complete(o1, o2, o3, u1, u2, u3, u4)
  <2> HIDE DEF o1, o2, o3, u1, u2, u3, u4
  <2> QED  BY <1>3, <1>4, <1>5, GroupBack
<1> SUFFICES ASSUME NEW j \in 1..4 PROVE Sextet(out, 4 * b + j) = typed[4 * b + j]
  OBVIOUS
<1>9. j = 1 \/ j = 2 \/ j = 3 \/ j = 4
  OBVIOUS
<1> HIDE DEF o1, o2, o3
<1> QED  BY <1>7, <1>8, <1>9 DEF Complete

\* What the decoder returns, with octets to the last bit, is what was typed.
LEMMA TracksSpells ==
    ASSUME NEW s \in DecoderState, NEW typed \in Seq(0..63), Tracks(s, typed),
           s.done \/ s.quad = 0, Len(s.out) = QueueIdLen
    PROVE  Spells(typed, s.out)
<1>1. PICK m \in Nat : TracksGroups(s, typed, m)
  BY DEF Tracks
<1> DEFINE out == s.out
           spelt == Encode(out)
           n == Len(typed)
<1>2. /\ s.quad = 0 \/ s.quad = 2 \/ s.quad = 3
      /\ out \in Seq(Octet)
  BY StateParts
<1>3. /\ n = 4 * m + s.quad
      /\ Len(out) = 3 * m + (IF s.quad = 0 THEN 0 ELSE s.quad - 1)
      /\ OctetsOf(out, typed) /\ n \in Nat
  BY <1>1 DEF TracksGroups
<1>4. /\ s.quad = 0 => n = 4 * m /\ QueueIdLen = 3 * m
      /\ s.quad = 2 => n = 4 * m + 2 /\ QueueIdLen = 3 * m + 1
      /\ s.quad = 3 => n = 4 * m + 3 /\ QueueIdLen = 3 * m + 2
  BY <1>3
<1>5. Len(spelt) = n /\ \A k \in 1..n : spelt[k] = Sextet(out, k)
  <2>1. Len(spelt) = (8 * QueueIdLen + 5) \div 6
    BY <1>2, EncodeParts
  <2>2. (8 * QueueIdLen + 5) \div 6 = n
    <3> HIDE DEF n
    <3> QED  BY <1>2, <1>4, EncodeLengths
  <2> QED  BY <1>2, <2>1, <2>2, EncodeParts
<1> HIDE DEF spelt, out, n
<1>6. ASSUME NEW b \in Nat, b < m
      PROVE  \A j \in 1..4 : spelt[4 * b + j] = typed[4 * b + j]
  <2>1. 3 * b + 3 <= Len(out) /\ 4 * b + 4 <= n
    BY <1>2, <1>3, <1>6
  <2>2. \A j \in 1..4 : Sextet(out, 4 * b + j) = typed[4 * b + j]
    BY <1>2, <1>3, <2>1, GroupSpelt DEF n
  <2>3. \A j \in 1..4 : 4 * b + j \in 1..n
    BY <1>3, <2>1
  <2> QED  BY <1>5, <2>2, <2>3
<1>7. \A k \in 1..(4 * m) : spelt[k] = typed[k]
  <2> SUFFICES ASSUME NEW k \in 1..(4 * m) PROVE spelt[k] = typed[k]
    OBVIOUS
  <2> DEFINE b == (k - 1) \div 4
             j == k - 4 * b
  <2>1. b \in Nat /\ b < m /\ j \in 1..4 /\ k = 4 * b + j
    OBVIOUS
  <2> HIDE DEF b, j
  <2> QED  BY <1>6, <2>1
<1>8. CASE s.quad = 0
  <2>1. n = 4 * m /\ n >= 1
    BY <1>4, <1>8, LenAssumption
  <2>2. \A k \in 1..n : typed[k] = spelt[k]
    BY <1>7, <2>1
  <2>3. typed[n] = spelt[n]
    BY <1>3, <2>1, <2>2
  <2> QED  BY <1>3, <1>5, <2>2, <2>3 DEF Spells, spelt, out, n
<1>9. CASE s.quad = 2
  <2> DEFINE u1 == typed[4 * m + 1]
             u2 == typed[4 * m + 2]
             o1 == out[3 * m + 1]
  <2>1. n = 4 * m + 2 /\ Len(out) = 3 * m + 1
    BY <1>3, <1>9
  <2>2. u1 \in 0..63 /\ u2 \in 0..63
    <3>1. 4 * m + 1 \in 1..Len(typed) /\ 4 * m + 2 \in 1..Len(typed)
      BY <2>1 DEF n
    <3>2. \A i \in 1..Len(typed) : typed[i] \in 0..63
      BY ElementOfSeq
    <3> QED  BY <3>1, <3>2
  <2>3. o1 \in Nat /\ 3 * m + 1 \in DOMAIN out /\ 3 * m + 2 \notin DOMAIN out
    <3>1. \A i \in 1..Len(out) : out[i] \in Nat
      BY <1>2, OctetOf
    <3>2. DOMAIN out = 1..Len(out)
      BY <1>2
    <3> QED  BY <2>1, <3>1, <3>2
  <2>4. First(o1, u1, u2)
    BY <1>3, <2>1 DEF OctetsOf, First
  <2>5. ByteAt(out, 3 * m + 1) = o1 /\ ByteAt(out, 3 * m + 2) = 0
    BY <2>3 DEF ByteAt
  <2> HIDE DEF u1, u2, o1
  <2>6. o1 \div 4 = u1 /\ (16 * (o1 % 4)) \div 16 = u2 \div 16
    <3>1. OfOne(o1, u1, u2)
      BY <2>2, <2>3, <2>4, GroupBegin
    <3> QED  BY <3>1 DEF OfOne
  <2>7. Sextet(out, 4 * m + 1) = o1 \div 4
    BY <2>5, SextetParts
  <2>8. Sextet(out, 4 * m + 2) = 16 * (o1 % 4)
    <3>1. Sextet(out, 4 * m + 2) = 16 * (o1 % 4) + 0 \div 16
      BY <2>5, SextetParts
    <3>2. o1 % 4 \in Nat
      BY <2>3
    <3> QED  BY <3>1, <3>2
  <2>9. spelt[4 * m + 1] = u1 /\ spelt[4 * m + 2] \div 16 = u2 \div 16
    BY <1>5, <2>1, <2>6, <2>7, <2>8
  <2>10. \A k \in 1..(n - 1) : typed[k] = spelt[k]
    <3> SUFFICES ASSUME NEW k \in 1..(n - 1) PROVE typed[k] = spelt[k]
      OBVIOUS
    <3>1. k \in 1..(4 * m) \/ k = 4 * m + 1
      BY <2>1
    <3> QED  BY <1>7, <2>9, <3>1 DEF u1
  <2>11. Spare = 16
    BY <1>4, <1>9, EncodeLengths DEF Spare
  <2>12. typed[n] \div Spare = spelt[n] \div Spare
    BY <2>1, <2>9, <2>11 DEF u2
  <2> QED  BY <1>3, <1>5, <2>10, <2>12 DEF Spells, spelt, out, n
<1>10. CASE s.quad = 3
  <2> DEFINE u1 == typed[4 * m + 1]
             u2 == typed[4 * m + 2]
             u3 == typed[4 * m + 3]
             o1 == out[3 * m + 1]
             o2 == out[3 * m + 2]
  <2>1. n = 4 * m + 3 /\ Len(out) = 3 * m + 2
    BY <1>3, <1>10
  <2>2. u1 \in 0..63 /\ u2 \in 0..63 /\ u3 \in 0..63
    <3>1. /\ 4 * m + 1 \in 1..Len(typed) /\ 4 * m + 2 \in 1..Len(typed)
          /\ 4 * m + 3 \in 1..Len(typed)
      BY <2>1 DEF n
    <3>2. \A i \in 1..Len(typed) : typed[i] \in 0..63
      BY ElementOfSeq
    <3> QED  BY <3>1, <3>2
  <2>3. /\ o1 \in Nat /\ o2 \in Nat
        /\ 3 * m + 1 \in DOMAIN out /\ 3 * m + 2 \in DOMAIN out /\ 3 * m + 3 \notin DOMAIN out
    <3>1. \A i \in 1..Len(out) : out[i] \in Nat
      BY <1>2, OctetOf
    <3>2. DOMAIN out = 1..Len(out)
      BY <1>2
    <3> QED  BY <2>1, <3>1, <3>2
  <2>4. First(o1, u1, u2) /\ Second(o2, u2, u3)
    BY <1>3, <2>1 DEF OctetsOf, First, Second
  <2>5. /\ ByteAt(out, 3 * m + 1) = o1 /\ ByteAt(out, 3 * m + 2) = o2
        /\ ByteAt(out, 3 * m + 3) = 0
    BY <2>3 DEF ByteAt
  <2> HIDE DEF u1, u2, u3, o1, o2
  <2>6. /\ o1 \div 4 = u1 /\ 16 * (o1 % 4) + o2 \div 16 = u2
        /\ (4 * (o2 % 16)) \div 4 = u3 \div 4
    <3>1. OfTwo(o1, o2, u1, u2, u3)
      BY <2>2, <2>3, <2>4, GroupMiddle
    <3> QED  BY <3>1 DEF OfTwo
  <2>7. /\ Sextet(out, 4 * m + 1) = o1 \div 4
        /\ Sextet(out, 4 * m + 2) = 16 * (o1 % 4) + o2 \div 16
    BY <2>5, SextetParts
  <2>8. Sextet(out, 4 * m + 3) = 4 * (o2 % 16)
    <3>1. Sextet(out, 4 * m + 3) = 4 * (o2 % 16) + 0 \div 64
      BY <2>5, SextetParts
    <3>2. o2 % 16 \in Nat
      BY <2>3
    <3> QED  BY <3>1, <3>2
  <2>9. /\ spelt[4 * m + 1] = u1 /\ spelt[4 * m + 2] = u2
        /\ spelt[4 * m + 3] \div 4 = u3 \div 4
    BY <1>5, <2>1, <2>6, <2>7, <2>8
  <2>10. \A k \in 1..(n - 1) : typed[k] = spelt[k]
    <3> SUFFICES ASSUME NEW k \in 1..(n - 1) PROVE typed[k] = spelt[k]
      OBVIOUS
    <3>1. k \in 1..(4 * m) \/ k = 4 * m + 1 \/ k = 4 * m + 2
      BY <2>1
    <3> QED  BY <1>7, <2>9, <3>1 DEF u1, u2
  <2>11. Spare = 4
    BY <1>4, <1>10, EncodeLengths DEF Spare
  <2>12. typed[n] \div Spare = spelt[n] \div Spare
    BY <2>1, <2>9, <2>11 DEF u3
  <2> QED  BY <1>3, <1>5, <2>10, <2>12 DEF Spells, spelt, out, n
<1> QED  BY <1>2, <1>8, <1>9, <1>10

----------------------------------------------------------------------------
(* What is encoded decodes. *)

\* The bytes of a byte string, and the zeros beyond its end, are octets.
LEMMA ByteAtOctet ==
    ASSUME NEW id \in Seq(Octet), NEW i
    PROVE  ByteAt(id, i) \in Octet
<1>1. \A j \in DOMAIN id : id[j] \in Octet
  OBVIOUS
<1>2. 0 \in Octet
  BY DEF Octet
<1> QED  BY <1>1, <1>2 DEF ByteAt

\* The four values of three octets, and the octets made of them.
Values(b1, b2, b3, u1, u2, u3, u4) ==
    /\ u1 = b1 \div 4 /\ u2 = 16 * (b1 % 4) + b2 \div 16
    /\ u3 = 4 * (b2 % 16) + b3 \div 64 /\ u4 = b3 % 64

\* Three octets give four values, which give the octets back.
LEMMA ValuesBack ==
    ASSUME NEW b1 \in 0..255, NEW b2 \in 0..255, NEW b3 \in 0..255,
           NEW u1, NEW u2, NEW u3, NEW u4, Values(b1, b2, b3, u1, u2, u3, u4)
    PROVE  /\ u1 \in 0..63 /\ u2 \in 0..63 /\ u3 \in 0..63 /\ u4 \in 0..63
           /\ First(b1, u1, u2) /\ Second(b2, u2, u3) /\ Third(b3, u3, u4)
<1>1. u1 \in 0..63 /\ u2 \in 0..63 /\ u3 \in 0..63 /\ u4 \in 0..63
  BY DEF Values
<1>2. First(b1, u1, u2)
  BY DEF Values, First
<1>3. Second(b2, u2, u3)
  BY DEF Values, Second
<1>4. Third(b3, u3, u4)
  BY DEF Values, Third
<1> QED  BY <1>1, <1>2, <1>3, <1>4

\* The values of a group of a byte string, and its octets back.
LEMMA GroupValues ==
    ASSUME NEW id \in Seq(Octet), NEW b \in Nat
    PROVE  /\ \A j \in 1..4 : Sextet(id, 4 * b + j) \in 0..63
           /\ First(ByteAt(id, 3 * b + 1), Sextet(id, 4 * b + 1), Sextet(id, 4 * b + 2))
           /\ Second(ByteAt(id, 3 * b + 2), Sextet(id, 4 * b + 2), Sextet(id, 4 * b + 3))
           /\ Third(ByteAt(id, 3 * b + 3), Sextet(id, 4 * b + 3), Sextet(id, 4 * b + 4))
<1> DEFINE b1 == ByteAt(id, 3 * b + 1)
           b2 == ByteAt(id, 3 * b + 2)
           b3 == ByteAt(id, 3 * b + 3)
           u1 == Sextet(id, 4 * b + 1)
           u2 == Sextet(id, 4 * b + 2)
           u3 == Sextet(id, 4 * b + 3)
           u4 == Sextet(id, 4 * b + 4)
<1>1. b1 \in 0..255 /\ b2 \in 0..255 /\ b3 \in 0..255
  BY ByteAtOctet DEF Octet
<1>2. Values(b1, b2, b3, u1, u2, u3, u4)
  BY SextetParts DEF Values
<1>3. /\ u1 \in 0..63 /\ u2 \in 0..63 /\ u3 \in 0..63 /\ u4 \in 0..63
      /\ First(b1, u1, u2) /\ Second(b2, u2, u3) /\ Third(b3, u3, u4)
  <2> HIDE DEF b1, b2, b3, u1, u2, u3, u4
  <2> QED  BY <1>1, <1>2, ValuesBack
<1>4. ASSUME NEW j \in 1..4 PROVE Sextet(id, 4 * b + j) \in 0..63
  <2>1. j = 1 \/ j = 2 \/ j = 3 \/ j = 4
    OBVIOUS
  <2> QED  BY <1>3, <2>1
<1> QED  BY <1>3, <1>4

\* An encoded id is made of data characters, which stand for themselves.
LEMMA EncodedValues ==
    ASSUME NEW id \in Seq(Octet)
    PROVE  Encode(id) \in Seq(0..63)
<1> DEFINE n == Len(Encode(id))
<1>1. n \in Nat /\ n = (8 * Len(id) + 5) \div 6
  BY EncodeParts
<1>2. ASSUME NEW k \in 1..n PROVE Encode(id)[k] \in 0..63
  <2> DEFINE b == (k - 1) \div 4
             j == k - 4 * b
  <2>1. b \in Nat /\ j \in 1..4 /\ k = 4 * b + j
    BY <1>1
  <2> HIDE DEF b, j
  <2>2. Sextet(id, k) \in 0..63
    BY <2>1, GroupValues
  <2> QED  BY <2>2, EncodeParts
<1>3. Encode(id) = [k \in 1..n |-> Encode(id)[k]]
  BY <1>1 DEF Encode
<1> HIDE DEF n
<1> QED  BY <1>1, <1>2, <1>3

\* Values are characters of their own value.
LEMMA ValueCharacters ==
    ASSUME NEW c \in 0..63
    PROVE  c \in Character /\ IsData(c) /\ ValueOf(c) = c
BY DEF Character, Other, IsData, Slash, ValueOf, Plus

\* The values of a text of values are that text, and no pad has ended it.
LEMMA RowOfValues ==
    ASSUME NEW p \in Seq(Character), NEW r, ReadingRow(r, p), NEW t, TypedRow(t, p),
           NEW text \in Seq(0..63), Len(text) <= Len(p), \A i \in 1..Len(text) : p[i] = text[i]
    PROVE  /\ t[Len(text)] = text
           /\ ~r[Len(text)].done /\ r[Len(text)].pads = 0
<1> DEFINE n == Len(text)
           S == {i \in 0..n : /\ t[i] \in Seq(0..63) /\ Len(t[i]) = i
                              /\ \A k \in 1..i : t[i][k] = text[k]
                              /\ ~r[i].done /\ r[i].pads = 0}
<1>1. n \in Nat /\ Len(p) \in Nat /\ n <= Len(p)
  OBVIOUS
<1>2. 0 \in S
  <2>1. t[0] = <<>> /\ r[0].pads = 0 /\ ~r[0].done
    BY DEF TypedRow, ReadingRow, Begin
  <2>2. <<>> \in Seq(0..63) /\ Len(<<>>) = 0 /\ 0 \in 0..n
    BY <1>1
  <2>3. \A k \in 1..0 : FALSE
    OBVIOUS
  <2>4. /\ t[0] \in Seq(0..63) /\ Len(t[0]) = 0
        /\ \A k \in 1..0 : t[0][k] = text[k]
    BY <2>1, <2>2, <2>3
  <2> HIDE DEF n
  <2> QED  BY <2>1, <2>2, <2>4
<1>3. ASSUME NEW i \in 0..n, i \in S, i + 1 <= n PROVE i + 1 \in S
  <2> DEFINE k == i + 1
             c == text[k]
  <2>1. k \in 1..n /\ k \in 1..Len(p) /\ k - 1 = i /\ k \in 0..n /\ i \in 0..Len(p)
    BY <1>1, <1>3
  <2>2. c \in 0..63 /\ p[k] = c
    <3>1. c \in 0..63
      BY <2>1, ElementOfSeq
    <3> QED  BY <2>1, <3>1
  <2> HIDE DEF c, k
  <2>3. c \in Character /\ IsData(c) /\ ValueOf(c) = c
    BY <2>2, ValueCharacters
  <2>4. t[k] = Append(t[i], c)
    <3>1. t[k] = TakeValue(t[i], c)
      BY <2>1, <2>2 DEF TypedRow
    <3> QED  BY <2>3, <3>1 DEF TakeValue
  <2>5. r[k] = Data(r[i], c) /\ r[i] \in DecoderState /\ ~r[i].done
    <3>1. r[k] = Step(r[i], c) /\ r[i] \in DecoderState
      BY <2>1, <2>2 DEF ReadingRow
    <3>2. ~r[i].done
      BY <1>3
    <3> QED  BY <2>3, <3>1, <3>2, StepParts
  <2>6. ~r[k].done /\ r[k].pads = 0
    <3>1. ~Data(r[i], c).done /\ Data(r[i], c).pads = 0
      BY <2>2, <2>5, DataParts
    <3> QED  BY <2>5, <3>1, Zenon
  <2>7. /\ t[i] \in Seq(0..63) /\ Len(t[i]) = i
        /\ \A j \in 1..i : t[i][j] = text[j]
    BY <1>3
  <2>8. t[k] \in Seq(0..63) /\ Len(t[k]) = k
    BY <2>2, <2>4, <2>7 DEF k
  <2>9. ASSUME NEW j \in 1..k PROVE t[k][j] = text[j]
    <3>1. CASE j = k
      BY <2>2, <2>4, <2>7, <3>1 DEF k, c
    <3>2. CASE j # k
      <4>1. j \in 1..i
        BY <1>1, <3>2 DEF k
      <4> QED  BY <2>2, <2>4, <2>7, <4>1
    <3> QED  BY <3>1, <3>2
  <2>10. k \in S
    BY <2>1, <2>6, <2>8, <2>9
  <2> QED  BY <2>10 DEF k
<1>4. n \in S
  <2>1. \A i \in 0..n : i \in S
    <3> HIDE DEF S, n
    <3> QED  BY <1>1, <1>2, <1>3, UpTo
  <2> QED  BY <1>1, <2>1
<1>5. t[n] = text
  <2>1. t[n] \in Seq(0..63) /\ Len(t[n]) = Len(text) /\ \A k \in 1..Len(t[n]) : t[n][k] = text[k]
    BY <1>4
  <2> QED  BY <2>1, SeqEqual
<1> QED  BY <1>4, <1>5

\* Octets made of the values of a byte string are this byte string.
LEMMA OctetsBack ==
    ASSUME NEW id \in Seq(Octet), NEW out \in Seq(Octet), Len(out) = Len(id),
           OctetsOf(out, Encode(id)),
           NEW m \in Nat, \/ Len(Encode(id)) = 4 * m /\ Len(id) = 3 * m
                          \/ Len(Encode(id)) = 4 * m + 2 /\ Len(id) = 3 * m + 1
                          \/ Len(Encode(id)) = 4 * m + 3 /\ Len(id) = 3 * m + 2
    PROVE  out = id
<1> DEFINE text == Encode(id)
           n == Len(text)
<1>1. ASSUME NEW i \in 1..Len(out) PROVE out[i] = id[i]
  <2> DEFINE b == (i - 1) \div 3
             j == i - 3 * b
             u(x) == Sextet(id, 4 * b + x)
  <2>1. b \in Nat /\ (j = 1 \/ j = 2 \/ j = 3) /\ i = 3 * b + j
    OBVIOUS
  <2>2. n \in Nat /\ \A k \in 1..n : text[k] = Sextet(id, k)
    BY EncodedValues, EncodeParts
  <2>3. /\ First(ByteAt(id, 3 * b + 1), u(1), u(2))
        /\ Second(ByteAt(id, 3 * b + 2), u(2), u(3))
        /\ Third(ByteAt(id, 3 * b + 3), u(3), u(4))
    <3> HIDE DEF b
    <3> QED  BY <2>1, GroupValues
  <2>4. ByteAt(id, i) = id[i]
    BY DEF ByteAt
  <2> HIDE DEF b, j, text, n
  <2>5. CASE j = 1
    <3>1. 4 * b + 1 \in 1..n /\ 4 * b + 2 \in 1..n
      BY <2>1, <2>2, <2>5 DEF n, text
    <3>2. out[3 * b + 1] = 4 * text[4 * b + 1] + text[4 * b + 2] \div 16
      BY <2>1, <2>5 DEF OctetsOf, text
    <3>3. First(out[i], u(1), u(2))
      BY <2>1, <2>2, <2>5, <3>1, <3>2 DEF First
    <3> QED  BY <2>1, <2>3, <2>4, <2>5, <3>3 DEF First
  <2>6. CASE j = 2
    <3>1. 4 * b + 2 \in 1..n /\ 4 * b + 3 \in 1..n
      BY <2>1, <2>2, <2>6 DEF n, text
    <3>2. out[3 * b + 2] = 16 * (text[4 * b + 2] % 16) + text[4 * b + 3] \div 4
      BY <2>1, <2>6 DEF OctetsOf, text
    <3>3. Second(out[i], u(2), u(3))
      BY <2>1, <2>2, <2>6, <3>1, <3>2 DEF Second
    <3> QED  BY <2>1, <2>3, <2>4, <2>6, <3>3 DEF Second
  <2>7. CASE j = 3
    <3>1. 4 * b + 3 \in 1..n /\ 4 * b + 4 \in 1..n
      BY <2>1, <2>2, <2>7 DEF n, text
    <3>2. out[3 * b + 3] = 64 * (text[4 * b + 3] % 4) + text[4 * b + 4]
      BY <2>1, <2>7 DEF OctetsOf, text
    <3>3. Third(out[i], u(3), u(4))
      BY <2>1, <2>2, <2>7, <3>1, <3>2 DEF Third
    <3> QED  BY <2>1, <2>3, <2>4, <2>7, <3>3 DEF Third
  <2> QED  BY <2>1, <2>5, <2>6, <2>7
<1> QED  BY <1>1, SeqEqual

\* How the encoding of a byte string ends.
LEMMA EncodeShapes ==
    ASSUME NEW l \in Nat
    PROVE  \E a \in Nat :
             \/ l = 3 * a /\ (8 * l + 5) \div 6 = 4 * a
             \/ l = 3 * a + 1 /\ (8 * l + 5) \div 6 = 4 * a + 2
             \/ l = 3 * a + 2 /\ (8 * l + 5) \div 6 = 4 * a + 3
<1> DEFINE a == l \div 3
<1>1. a \in Nat /\ (l = 3 * a \/ l = 3 * a + 1 \/ l = 3 * a + 2)
  OBVIOUS
<1> HIDE DEF a
<1> QED  BY <1>1, EncodeLengths

\* What a pad does after two or three characters of a group.
LEMMA PadParts ==
    ASSUME NEW s \in DecoderState, ~s.done, s.quad >= 2
    PROVE  /\ Step(s, Pad).quad = s.quad /\ Step(s, Pad).out = s.out
           /\ Step(s, Pad).pads = s.pads + 1
           /\ Step(s, Pad).done <=> s.quad + s.pads + 1 >= 4
<1> DEFINE d == s.quad + s.pads + 1 >= 4
           x == Step(s, Pad)
<1>1. Pad \in Character
  BY DEF Character, Pad, Other
<1>2. x = [s EXCEPT !.pads = @ + 1, !.done = d]
  BY <1>1, StepParts
<1>3. s = [j \in {"quad", "left", "pads", "out", "done"} |-> s[j]]
  BY DEF DecoderState
<1> HIDE DEF d, x
<1>4. x.quad = s.quad /\ x.out = s.out /\ x.pads = s.pads + 1 /\ x.done = d
  BY <1>2, <1>3
<1> QED  BY <1>4, Zenon DEF d, x

\* Decoding an encoding gives the byte string back, of any length.
THEOREM RoundTrip ==
    ASSUME NEW id \in Seq(Octet)
    PROVE  /\ Encode(id) \in Seq(Character)
           /\ Reading(Encode(id)).done \/ Reading(Encode(id)).quad = 0
           /\ Reading(Encode(id)).out = id
<1> DEFINE text == Encode(id)
           n == Len(text)
           p == Padded(text)
           e == Len(p)
<1>1. text \in Seq(0..63) /\ n \in Nat
  BY EncodedValues
<1>2. text \in Seq(Character)
  <2> DEFINE V == 0..63
  <2>1. V \subseteq Character /\ text \in Seq(V)
    BY <1>1, ValueCharacters
  <2> HIDE DEF text, V
  <2> QED  BY <2>1, SeqMonotonic
<1>3. /\ p \in Seq(Character) /\ e = n + Missing(text)
      /\ \A i \in 1..n : p[i] = text[i]
      /\ \A i \in (n + 1)..e : p[i] = Pad
      /\ Missing(text) \in 0..3
  <2> HIDE DEF text
  <2> QED  BY <1>2, PaddedParts
<1>4. PICK r : ReadingRow(r, p) /\ Reading(text) = r[e]
  <2> DEFINE q == p
  <2>1. q \in Seq(Character) /\ q = Padded(text)
    BY <1>3
  <2> HIDE DEF q
  <2>2. \E r : ReadingRow(r, q) /\ Reading(text) = r[Len(q)]
    BY <2>1, ReadingSteps
  <2> QED  BY <2>2 DEF q
<1>5. PICK t : TypedRow(t, p)
  <2> HIDE DEF p
  <2> QED  BY <1>3, TypedSteps
<1>6. n \in 0..e /\ e \in Nat
  <2> HIDE DEF n, e
  <2> QED  BY <1>1, <1>3
<1>7. t[n] = text /\ ~r[n].done /\ r[n].pads = 0
  <2>1. Len(text) <= Len(p)
    BY <1>1, <1>6
  <2> HIDE DEF text, p
  <2> QED  BY <1>1, <1>3, <1>4, <1>5, <2>1, RowOfValues
<1>8. TracksRow(r, t, p, n)
  <2> HIDE DEF n, p
  <2> QED  BY <1>3, <1>4, <1>5, <1>6, RowTracks DEF n
<1> DEFINE s == r[n]
<1>9. s \in DecoderState
  BY <1>4, <1>6 DEF ReadingRow
<1>10. PICK m \in Nat : TracksGroups(s, text, m)
  BY <1>7, <1>8 DEF TracksRow, Tracks
<1>11. PICK a \in Nat :
         \/ Len(id) = 3 * a /\ n = 4 * a
         \/ Len(id) = 3 * a + 1 /\ n = 4 * a + 2
         \/ Len(id) = 3 * a + 2 /\ n = 4 * a + 3
  <2>1. Len(id) \in Nat /\ n = (8 * Len(id) + 5) \div 6
    BY EncodeParts
  <2> QED  BY <2>1, EncodeShapes
<1> HIDE DEF text, n, p, e, s
<1>12. /\ s.quad \in 0..3 /\ n = 4 * m + s.quad /\ s.out \in Seq(Octet)
       /\ Len(s.out) = 3 * m + (IF s.quad = 0 THEN 0 ELSE s.quad - 1)
       /\ OctetsOf(s.out, text)
  BY <1>9, <1>10, StateParts DEF TracksGroups, n
<1>13. /\ m = a
       /\ \/ s.quad = 0 /\ n = 4 * m /\ Len(id) = 3 * m
          \/ s.quad = 2 /\ n = 4 * m + 2 /\ Len(id) = 3 * m + 1
          \/ s.quad = 3 /\ n = 4 * m + 3 /\ Len(id) = 3 * m + 2
  <2> DEFINE q == s.quad
  <2>1. q \in 0..3 /\ n = 4 * m + q
    BY <1>12
  <2> HIDE DEF q
  <2>2. \/ q = 0 /\ m = a /\ n = 4 * m /\ Len(id) = 3 * m
        \/ q = 2 /\ m = a /\ n = 4 * m + 2 /\ Len(id) = 3 * m + 1
        \/ q = 3 /\ m = a /\ n = 4 * m + 3 /\ Len(id) = 3 * m + 2
    <3>1. CASE Len(id) = 3 * a /\ n = 4 * a
      BY <2>1, <3>1
    <3>2. CASE Len(id) = 3 * a + 1 /\ n = 4 * a + 2
      BY <2>1, <3>2
    <3>3. CASE Len(id) = 3 * a + 2 /\ n = 4 * a + 3
      BY <2>1, <3>3
    <3> QED  BY <1>11, <3>1, <3>2, <3>3
  <2> QED  BY <2>2 DEF q
<1>14. Len(s.out) = Len(id)
  BY <1>12, <1>13
<1>15. s.out = id
  BY <1>12, <1>13, <1>14, OctetsBack DEF text, n
<1>16. r[e].out = id /\ (r[e].done \/ r[e].quad = 0)
  <2>1. CASE s.quad = 0
    <3>1. Missing(text) = 0
      <4>1. n = 4 * m
        BY <1>13, <2>1
      <4>2. (-(4 * m)) % 4 = 0
        OBVIOUS
      <4> QED  BY <4>1, <4>2 DEF Missing, n
    <3>2. e = n
      BY <1>1, <1>3, <3>1
    <3> QED  BY <1>15, <2>1, <3>2 DEF s
  <2>2. CASE s.quad = 3
    <3>1. Missing(text) = 1
      <4>1. n = 4 * m + 3
        BY <1>13, <2>2
      <4>2. (-(4 * m + 3)) % 4 = 1
        OBVIOUS
      <4> QED  BY <4>1, <4>2 DEF Missing, n
    <3>2. e = n + 1 /\ p[e] = Pad /\ e \in 1..e /\ e - 1 = n
      BY <1>1, <1>3, <3>1
    <3>3. r[e] = Step(s, Pad)
      BY <1>4, <3>2 DEF ReadingRow, s, e
    <3>4. ~s.done /\ s.pads = 0 /\ s.quad >= 2
      BY <1>7, <2>2 DEF s
    <3>5. s.quad + s.pads + 1 >= 4
      BY <2>2, <3>4
    <3> QED  BY <1>9, <1>15, <3>3, <3>4, <3>5, PadParts
  <2>3. CASE s.quad = 2
    <3>1. Missing(text) = 2
      <4>1. n = 4 * m + 2
        BY <1>13, <2>3
      <4>2. (-(4 * m + 2)) % 4 = 2
        OBVIOUS
      <4> QED  BY <4>1, <4>2 DEF Missing, n
    <3> DEFINE k == n + 1
               u == r[k]
    <3>2. /\ e = k + 1 /\ p[k] = Pad /\ p[e] = Pad /\ k \in 1..e /\ k - 1 = n
          /\ e \in 1..e /\ e - 1 = k
      BY <1>1, <1>3, <3>1
    <3> HIDE DEF k
    <3>3. u = Step(s, Pad) /\ r[e] = Step(u, Pad)
      BY <1>4, <3>2 DEF ReadingRow, s, e
    <3>4. ~s.done /\ s.pads = 0 /\ s.quad >= 2
      BY <1>7, <2>3 DEF s
    <3>5. ~(s.quad + s.pads + 1 >= 4)
      BY <2>3, <3>4
    <3>6. u \in DecoderState
      BY <1>4, <3>2 DEF ReadingRow, e
    <3> HIDE DEF u
    <3>7. u.quad = 2 /\ u.pads = 1 /\ u.out = id /\ ~u.done
      BY <1>9, <1>15, <2>3, <3>3, <3>4, <3>5, PadParts
    <3>8. u.quad >= 2 /\ u.quad + u.pads + 1 >= 4
      BY <3>7
    <3> QED  BY <3>3, <3>6, <3>7, <3>8, PadParts
  <2> QED  BY <1>13, <2>1, <2>2, <2>3
<1> QED  BY <1>2, <1>4, <1>16 DEF text

----------------------------------------------------------------------------
(* The inductive invariant. *)

\* Queues are numbered from 1, and a number is never given to another queue.
QueuesInv ==
    /\ queues \in Seq([recipient : QueueId, sender : QueueId, relay : Locator])
    /\ Len(queues) <= MaxQueues
    /\ \A c \in contacts : c.queue \in DOMAIN queues

\* A peer tags under the secret of the queue whose address it decoded.
PostsInv ==
    \A p \in posts : /\ p.queue \in DOMAIN queues
                     /\ p.nonce \in Nonce /\ p.message \in Message
                     /\ p.tag = AuthTag(p.queue, p.message, p.nonce)

\* What a recipient accepts is, nonce and message in a row, what was posted.
AcceptedInv ==
    \A a \in accepted : /\ a.queue \in DOMAIN queues
                        /\ a.nonce \in Nonce /\ a.message \in Message
                        /\ \E p \in posts : /\ p.queue = a.queue
                                            /\ p.nonce \o p.message = a.nonce \o a.message

Inv == QueuesInv /\ PostsInv /\ AcceptedInv

----------------------------------------------------------------------------
(* Facts about nonces and tags. *)

\* Two strings that begin with a nonce of the same length are equal only part by
\* part.
LEMMA NonceEnds ==
    ASSUME NEW n \in Nat, NEW x \in [1..n -> Byte], NEW y \in [1..n -> Byte],
           NEW u \in Seq(Byte), NEW v \in Seq(Byte), x \o u = y \o v
    PROVE  x = y /\ u = v
<1>1. /\ x \in Seq(Byte) /\ y \in Seq(Byte) /\ Len(x) = n /\ Len(y) = n
  OBVIOUS
<1>2. Len(u) \in Nat /\ Len(v) \in Nat
  OBVIOUS
<1>3. /\ Len(x \o u) = Len(x) + Len(u)
      /\ \A i \in 1..(Len(x) + Len(u)) :
           (x \o u)[i] = IF i <= Len(x) THEN x[i] ELSE u[i - Len(x)]
      /\ Len(y \o v) = Len(y) + Len(v)
      /\ \A i \in 1..(Len(y) + Len(v)) :
           (y \o v)[i] = IF i <= Len(y) THEN y[i] ELSE v[i - Len(y)]
  BY <1>1, ConcatProperties
<1>4. Len(u) = Len(v) /\ \A i \in 1..n : x[i] = y[i]
  <2>1. Len(u) = Len(v)
    BY <1>1, <1>2, <1>3
  <2>2. ASSUME NEW i \in 1..n PROVE x[i] = y[i]
    <3>1. i \in 1..(n + Len(u)) /\ i <= n
      BY <1>2
    <3> QED  BY <1>1, <1>3, <2>1, <3>1
  <2> QED  BY <2>1, <2>2
<1>5. \A i \in 1..Len(u) : u[i] = v[i]
  <2> SUFFICES ASSUME NEW i \in 1..Len(u) PROVE u[i] = v[i]
    OBVIOUS
  <2>1. n + i \in 1..(n + Len(u)) /\ ~(n + i <= n) /\ (n + i) - n = i
    BY <1>2
  <2>2. (x \o u)[n + i] = u[i]
    BY <1>1, <1>3, <2>1
  <2>3. (y \o v)[n + i] = v[i]
    BY <1>1, <1>3, <1>4, <2>1
  <2> QED  BY <2>2, <2>3
<1>6. x = y
  BY <1>4
<1>7. u = v
  BY <1>4, <1>5, SeqEqual
<1> QED  BY <1>6, <1>7

\* Nonces and messages are byte strings.
LEMMA NonceShape ==
    ASSUME NEW nonce \in Nonce
    PROVE  \E n \in NonceLens : nonce \in [1..n -> Byte]
<1>1. PICK N \in {[1..n -> Byte] : n \in NonceLens} : nonce \in N
  BY DEF Nonce
<1>2. PICK n \in NonceLens : N = [1..n -> Byte]
  BY <1>1
<1> QED  BY <1>1, <1>2

\* A message is a byte string.
LEMMA MessageShape ==
    ASSUME NEW message \in Message
    PROVE  message \in Seq(Byte)
<1>1. PICK M \in {[1..n -> Byte] : n \in 0..MaxMessage} : message \in M
  BY DEF Message
<1>2. PICK n \in 0..MaxMessage : M = [1..n -> Byte]
  BY <1>1
<1>3. n \in Nat
  BY BoundAssumption
<1> QED  BY <1>1, <1>2, <1>3

\* A tag verifies, altered or not, only for its queue and for the string it was
\* made of.
LEMMA VerifiesExact ==
    ASSUME PostsInv, NEW p \in posts, NEW q, NEW nonce, NEW message,
           NEW i \in BOOLEAN, Deliver(q, p, nonce, message, i)
    PROVE  p.queue = q /\ p.nonce \o p.message = nonce \o message
<1> DEFINE data == p.nonce \o p.message
           mine == nonce \o message
<1>1. p.tag = [secret |-> p.queue, data |-> data, intact |-> TRUE]
  BY DEF PostsInv, AuthTag, HMAC
<1>2. [p.tag EXCEPT !.intact = i] = [secret |-> q, data |-> mine, intact |-> TRUE]
  BY DEF Deliver, VerifyTag, AuthTag, HMAC
<1> HIDE DEF data, mine
<1>3. /\ [p.tag EXCEPT !.intact = i].secret = p.queue
      /\ [p.tag EXCEPT !.intact = i].data = data
  BY <1>1
<1>4. p.queue = q /\ data = mine
  BY <1>2, <1>3
<1> QED  BY <1>4 DEF data, mine

----------------------------------------------------------------------------
(* The invariant is inductive. *)

\* A relay that can be encoded is a locator.
LEMMA EncodedRelay ==
    ASSUME NEW relay \in Relay, NEW id, Encodes(relay, id)
    PROVE  relay \in Locator
BY RelayAssumption DEF Encodes, Locator

\* At the start there are no queues.
LEMMA InitInv == Init => Inv
<1> SUFFICES ASSUME Init PROVE Inv
  OBVIOUS
<1>1. Len(queues) = 0 /\ MaxQueues \in Nat
  BY BoundAssumption DEF Init
<1>2. QueuesInv
  BY <1>1 DEF Init, QueuesInv
<1> QED  BY <1>2 DEF Init, Inv, PostsInv, AcceptedInv

\* Every action keeps the invariant.
LEMMA NextInv == Inv /\ [Next]_vars => Inv'
<1> SUFFICES ASSUME Inv, [Next]_vars PROVE Inv'
  OBVIOUS
<1>1. ASSUME NEW r \in DrawnId, NEW s \in DrawnId, NEW relay \in Relay,
             NewQueue(r, s, relay)
      PROVE  Inv'
  <2> DEFINE new == [recipient |-> r, sender |-> s, relay |-> relay]
  <2>1. /\ Len(queues) < MaxQueues /\ queues' = Append(queues, new)
        /\ UNCHANGED <<contacts, posts, accepted>>
    BY <1>1 DEF NewQueue
  <2>2. new \in [recipient : QueueId, sender : QueueId, relay : Locator]
    <3>1. relay \in Locator
      BY <1>1, EncodedRelay DEF NewQueue
    <3> QED  BY <3>1, DrawAssumption
  <2>3. /\ queues \in Seq([recipient : QueueId, sender : QueueId, relay : Locator])
        /\ MaxQueues \in Nat
    BY BoundAssumption DEF Inv, QueuesInv
  <2> HIDE DEF new
  <2>4. /\ queues' \in Seq([recipient : QueueId, sender : QueueId, relay : Locator])
        /\ Len(queues') = Len(queues) + 1
        /\ Len(queues) \in Nat
    BY <2>1, <2>2, <2>3
  <2>5. DOMAIN queues \subseteq DOMAIN queues'
    BY <2>3, <2>4
  <2>6. Len(queues') <= MaxQueues
    BY <2>1, <2>3, <2>4
  <2>7. QueuesInv'
    BY <2>1, <2>4, <2>5, <2>6 DEF Inv, QueuesInv
  <2>8. PostsInv' /\ AcceptedInv'
    BY <2>1, <2>5 DEF Inv, PostsInv, AcceptedInv
  <2> QED  BY <2>7, <2>8 DEF Inv
<1>2. ASSUME NEW q \in DOMAIN queues, Miscopy(q) PROVE Inv'
  BY <1>2 DEF Miscopy, Inv, QueuesInv, PostsInv, AcceptedInv
<1>3. ASSUME NEW q \in DOMAIN queues, Decode(q) PROVE Inv'
  <2>1. /\ UNCHANGED <<queues, posts, accepted>>
        /\ \A c \in contacts' : c \in contacts \/ c.queue = q
    BY <1>3 DEF Decode
  <2>2. QueuesInv'
    BY <2>1 DEF Inv, QueuesInv
  <2> QED  BY <2>1, <2>2 DEF Inv, PostsInv, AcceptedInv
<1>4. ASSUME NEW c \in contacts, NEW n \in Nonce, NEW m \in Message, Post(c, n, m)
      PROVE  Inv'
  <2> DEFINE new == [queue |-> c.queue, to |-> c.to, nonce |-> n, message |-> m,
                     tag |-> AuthTag(c.queue, m, n)]
  <2>1. posts' = posts \cup {new} /\ UNCHANGED <<queues, contacts, accepted>>
    BY <1>4 DEF Post
  <2>2. /\ new.queue = c.queue /\ new.nonce = n /\ new.message = m
        /\ new.tag = AuthTag(new.queue, new.message, new.nonce)
    OBVIOUS
  <2>3. c.queue \in DOMAIN queues
    BY DEF Inv, QueuesInv
  <2> HIDE DEF new
  <2>4. QueuesInv'
    BY <2>1 DEF Inv, QueuesInv
  <2>5. PostsInv'
    BY <2>1, <2>2, <2>3 DEF Inv, PostsInv
  <2>6. AcceptedInv'
    BY <2>1 DEF Inv, AcceptedInv
  <2> QED  BY <2>4, <2>5, <2>6 DEF Inv
<1>5. ASSUME NEW q \in DOMAIN queues, NEW p \in posts, NEW n \in Nonce, NEW m \in Message,
             NEW i \in BOOLEAN, Deliver(q, p, n, m, i)
      PROVE  Inv'
  <2> DEFINE new == [queue |-> q, nonce |-> n, message |-> m]
  <2>1. /\ accepted' = accepted \cup {new} /\ UNCHANGED <<queues, contacts, posts>>
    BY <1>5 DEF Deliver
  <2>2. new.queue = q /\ new.nonce = n /\ new.message = m
    OBVIOUS
  <2>3. p.queue = q /\ p.nonce \o p.message = n \o m
    BY <1>5, VerifiesExact DEF Inv
  <2> HIDE DEF new
  <2>4. QueuesInv' /\ PostsInv'
    BY <2>1 DEF Inv, QueuesInv, PostsInv
  <2>5. AcceptedInv'
    BY <2>1, <2>2, <2>3 DEF Inv, AcceptedInv
  <2> QED  BY <2>4, <2>5 DEF Inv
<1>6. CASE UNCHANGED vars
  BY <1>6 DEF vars, Inv, QueuesInv, PostsInv, AcceptedInv
<1> QED  BY <1>1, <1>2, <1>3, <1>4, <1>5, <1>6 DEF Next

\* Whatever addresses lose in copying and a relay does to tags, every tag in play
\* was made under the secret of one queue, and what was accepted for a queue is, as
\* one string, what was posted for it.
THEOREM InvHolds == Spec => []Inv
<1> QED  BY InitInv, NextInv, PTL DEF Spec

----------------------------------------------------------------------------
(* What holds for nonces of any lengths. *)

\* What a recipient accepts was posted for its queue as a string: the peer made
\* the tag over these very bytes, whichever of them it called the nonce.
AcceptedBytesWerePosted ==
    \A a \in accepted : \E p \in posts : /\ p.queue = a.queue
                                         /\ p.nonce \o p.message = a.nonce \o a.message

\* A relay, without the secret, gets no byte accepted that was not posted.
THEOREM BytesWerePosted == Spec => []AcceptedBytesWerePosted
<1>1. Inv => AcceptedBytesWerePosted
  BY DEF Inv, AcceptedInv, AcceptedBytesWerePosted
<1> QED  BY <1>1, InvHolds, PTL

----------------------------------------------------------------------------
(* What holds if the nonces of all queues have one length. *)

OneNonceLength == \A m, n \in NonceLens : m = n

\* Then a nonce and a message can be read off their concatenation.
LEMMA PartsOfOneLength ==
    ASSUME OneNonceLength,
           NEW x \in Nonce, NEW y \in Nonce, NEW u \in Message, NEW v \in Message,
           x \o u = y \o v
    PROVE  x = y /\ u = v
<1>1. PICK n \in NonceLens : x \in [1..n -> Byte]
  BY NonceShape
<1>2. PICK m \in NonceLens : y \in [1..m -> Byte]
  BY NonceShape
<1>3. m = n
  BY DEF OneNonceLength
<1> DEFINE Nonces == [1..n -> Byte]
<1>4. x \in Nonces /\ y \in Nonces
  BY <1>1, <1>2, <1>3
<1>5. u \in Seq(Byte) /\ v \in Seq(Byte)
  BY MessageShape
<1>6. \A i \in Nat : \A a, b \in [1..i -> Byte] : \A s, t \in Seq(Byte) :
        a \o s = b \o t => a = b /\ s = t
  BY NonceEnds
<1>7. \A a, b \in Nonces : \A s, t \in Seq(Byte) : a \o s = b \o t => a = b /\ s = t
  BY <1>6, NonceAssumption
<1> HIDE DEF Nonces
<1>8. \A s, t \in Seq(Byte) : x \o s = y \o t => x = y /\ s = t
  BY <1>4, <1>7
<1>9. x \o u = y \o v
  OBVIOUS
<1> QED  BY <1>5, <1>8, <1>9

\* Then verify_tag does refuse another nonce, as its documentation says; the run
\* AnonQueueNonce shows that it does not for nonces of different lengths.
THEOREM OtherNonceRejected ==
    ASSUME OneNonceLength
    PROVE  Spec => []WrongNonceRejected
<1>1. ASSUME Inv, NEW a \in accepted
      PROVE  \E p \in posts : p.queue = a.queue /\ p.nonce = a.nonce
  <2>1. PICK p \in posts : /\ p.queue = a.queue
                           /\ p.nonce \o p.message = a.nonce \o a.message
    BY <1>1 DEF Inv, AcceptedInv
  <2>2. /\ p.nonce \in Nonce /\ p.message \in Message
        /\ a.nonce \in Nonce /\ a.message \in Message
    BY <1>1 DEF Inv, PostsInv, AcceptedInv
  <2>3. \A x, y \in Nonce : \A u, v \in Message : x \o u = y \o v => x = y
    BY PartsOfOneLength
  <2>4. p.nonce = a.nonce
    BY <2>1, <2>2, <2>3
  <2> QED  BY <2>1, <2>4
<1>2. Inv => WrongNonceRejected
  BY <1>1 DEF WrongNonceRejected
<1> QED  BY <1>2, InvHolds, PTL

\* The letters put in and taken out, as the refinement maps them.
Letters == {[reader |-> p.queue, context |-> p.nonce, body |-> p.message] : p \in posts}
Taken == {[reader |-> a.queue, context |-> a.nonce, body |-> a.message] : a \in accepted}

\* Every action is a step of the letterbox or leaves it alone: Post puts a letter
\* in, Deliver takes out one that was put in.
LEMMA NextImplements ==
    ASSUME OneNonceLength, Inv, [Next]_vars
    PROVE  [Box!Next]_(Box!vars)
<1>1. ASSUME NEW c \in contacts, NEW n \in Nonce, NEW m \in Message, Post(c, n, m)
      PROVE  Taken' = Taken /\ \E l \in Box!Letter : Letters' = Letters \cup {l}
  <2> DEFINE new == [queue |-> c.queue, to |-> c.to, nonce |-> n, message |-> m,
                     tag |-> AuthTag(c.queue, m, n)]
             letter == [reader |-> c.queue, context |-> n, body |-> m]
             Of(p) == [reader |-> p.queue, context |-> p.nonce, body |-> p.message]
  <2>1. posts' = posts \cup {new} /\ accepted' = accepted
    BY <1>1 DEF Post
  <2>2. c.queue \in 1..MaxQueues
    <3>1. /\ queues \in Seq([recipient : QueueId, sender : QueueId, relay : Locator])
          /\ Len(queues) <= MaxQueues /\ c.queue \in DOMAIN queues
          /\ MaxQueues \in Nat
      BY BoundAssumption DEF Inv, QueuesInv
    <3>2. c.queue \in 1..Len(queues) /\ Len(queues) \in Nat
      BY <3>1
    <3> QED  BY <3>1, <3>2
  <2>3. letter \in Box!Letter
    BY <2>2 DEF Box!Letter
  <2>4. Of(new) = letter
    OBVIOUS
  <2>5. Letters = {Of(p) : p \in posts} /\ Letters' = {Of(p) : p \in posts'}
    BY DEF Letters
  <2> HIDE DEF new, letter, Of
  <2>6. Letters' = Letters \cup {letter}
    BY <2>1, <2>4, <2>5
  <2>7. Taken' = Taken
    BY <2>1 DEF Taken
  <2> QED  BY <2>3, <2>6, <2>7
<1>2. ASSUME NEW q \in DOMAIN queues, NEW p \in posts, NEW n \in Nonce, NEW m \in Message,
             NEW i \in BOOLEAN, Deliver(q, p, n, m, i)
      PROVE  Letters' = Letters /\ \E l \in Letters : Taken' = Taken \cup {l}
  <2> DEFINE new == [queue |-> q, nonce |-> n, message |-> m]
             letter == [reader |-> q, context |-> n, body |-> m]
             Of(a) == [reader |-> a.queue, context |-> a.nonce, body |-> a.message]
  <2>1. accepted' = accepted \cup {new} /\ posts' = posts
    BY <1>2 DEF Deliver
  <2>2. p.queue = q /\ p.nonce \o p.message = n \o m
    BY <1>2, VerifiesExact DEF Inv
  <2>3. p.nonce \in Nonce /\ p.message \in Message
    BY DEF Inv, PostsInv
  <2>4. p.nonce = n /\ p.message = m
    BY <2>2, <2>3, PartsOfOneLength
  <2>5. letter \in Letters
    BY <2>2, <2>4 DEF Letters
  <2>6. Of(new) = letter
    OBVIOUS
  <2>7. Taken = {Of(a) : a \in accepted} /\ Taken' = {Of(a) : a \in accepted'}
    BY DEF Taken
  <2> HIDE DEF new, letter, Of
  <2>8. Taken' = Taken \cup {letter}
    BY <2>1, <2>6, <2>7
  <2>9. Letters' = Letters
    BY <2>1 DEF Letters
  <2> QED  BY <2>5, <2>8, <2>9
<1>3. ASSUME UNCHANGED <<posts, accepted>>
      PROVE  Letters' = Letters /\ Taken' = Taken
  BY <1>3 DEF Letters, Taken
<1>4. \/ \E c \in contacts, n \in Nonce, m \in Message : Post(c, n, m)
      \/ \E q \in DOMAIN queues, p \in posts, n \in Nonce, m \in Message, i \in BOOLEAN :
           Deliver(q, p, n, m, i)
      \/ UNCHANGED <<posts, accepted>>
  BY DEF Next, vars, NewQueue, Miscopy, Decode
<1>5. Letters \subseteq Box!Letter
  <2>1. ASSUME NEW p \in posts
        PROVE  [reader |-> p.queue, context |-> p.nonce, body |-> p.message] \in Box!Letter
    <3>1. /\ queues \in Seq([recipient : QueueId, sender : QueueId, relay : Locator])
          /\ Len(queues) <= MaxQueues /\ p.queue \in DOMAIN queues
          /\ MaxQueues \in Nat /\ p.nonce \in Nonce /\ p.message \in Message
      BY BoundAssumption DEF Inv, QueuesInv, PostsInv
    <3>2. p.queue \in 1..Len(queues) /\ Len(queues) \in Nat
      BY <3>1
    <3>3. p.queue \in 1..MaxQueues
      BY <3>1, <3>2
    <3> QED  BY <3>1, <3>3 DEF Box!Letter
  <2> QED  BY <2>1 DEF Letters
<1> QED  BY <1>1, <1>2, <1>3, <1>4, <1>5
         DEF Box!Next, Box!vars, Box!Post, Box!Read, Letters, Taken

\* Recipients, peers and relay together do what a letterbox does: what is accepted
\* was posted for that queue, with that nonce and that message.
THEOREM QueuesImplementLetterbox ==
    ASSUME OneNonceLength
    PROVE  Spec => ImplementsLetterbox
<1>1. Init => Box!Init
  BY DEF Init, Box!Init
<1>2. Inv /\ [Next]_vars => [Box!Next]_(Box!vars)
  BY NextImplements
<1> QED  BY <1>1, <1>2, InvHolds, PTL DEF Spec, ImplementsLetterbox, Box!Spec

----------------------------------------------------------------------------
(* Addresses and contacts. *)

\* Addresses, as published or copied with mistakes.
Address == [scheme : BOOLEAN, body : Seq(Character)]

\* Where a peer posts to.
Target == [relay : Locator, id : QueueId]

\* The address that a peer decoded.
AddressOf(c) == [scheme |-> TRUE, body |-> c.body]

\* Every queue has an address, however miscopied, and ids of its own.
AddressesInv ==
    /\ addresses \in Seq(Address) /\ Len(addresses) = Len(queues)
    /\ \A q \in DOMAIN queues : queues[q].recipient # queues[q].sender
    /\ edits \in Nat

\* A peer has what decode_aqid returned for the address it got.
ContactsInv ==
    \A c \in contacts : /\ AddressOf(c) \in Address /\ Decodes(AddressOf(c))
                        /\ c.to = DecodeAqid(AddressOf(c))

\* Posts go to where a peer's address led, and records have no other fields.
PostedInv ==
    /\ \A p \in posts :
         /\ p.to \in Target
         /\ p = [queue |-> p.queue, to |-> p.to, nonce |-> p.nonce, message |-> p.message,
                 tag |-> p.tag]
    /\ \A a \in accepted : a = [queue |-> a.queue, nonce |-> a.nonce, message |-> a.message]

CodecInv == AddressesInv /\ ContactsInv /\ PostedInv

\* The parts of two texts in a row.
LEMMA ConcatParts ==
    ASSUME NEW x \in Seq(Character), NEW y \in Seq(Character)
    PROVE  /\ x \o y \in Seq(Character) /\ Len(x \o y) = Len(x) + Len(y)
           /\ \A i \in 1..Len(x) : (x \o y)[i] = x[i]
           /\ \A i \in 1..Len(y) : (x \o y)[Len(x) + i] = y[i]
<1>1. Len(x) \in Nat /\ Len(y) \in Nat
  OBVIOUS
<1> QED  BY <1>1, ConcatProperties

\* The delimiter of a text with a slash is its first slash.
LEMMA DelimiterFirst ==
    ASSUME NEW body \in Seq(Character), HasDelimiter(body)
    PROVE  /\ Delimiter(body) \in 1..Len(body) /\ body[Delimiter(body)] = Slash
           /\ \A j \in 1..(Delimiter(body) - 1) : body[j] # Slash
<1> DEFINE T == {i \in 1..Len(body) : body[i] = Slash}
           IsFirst(i) == body[i] = Slash /\ \A j \in 1..(i - 1) : body[j] # Slash
<1>1. DOMAIN body = 1..Len(body) /\ Len(body) \in Nat
  OBVIOUS
<1>2. T \subseteq Nat /\ T # {}
  BY <1>1 DEF HasDelimiter, ToSet
<1>3. PICK i \in T : \A j \in T : i <= j
  BY <1>2, LeastExists
<1>4. i \in DOMAIN body /\ IsFirst(i)
  <2>1. i \in 1..Len(body) /\ body[i] = Slash
    OBVIOUS
  <2>2. ASSUME NEW j \in 1..(i - 1) PROVE body[j] # Slash
    <3>1. j \in 1..Len(body) /\ ~(i <= j)
      BY <1>1, <2>1
    <3> QED  BY <1>3, <3>1
  <2> QED  BY <1>1, <2>1, <2>2
<1>5. Delimiter(body) = CHOOSE k \in DOMAIN body : IsFirst(k)
  BY DEF Delimiter
<1> HIDE DEF IsFirst, T
<1>6. Delimiter(body) \in DOMAIN body /\ IsFirst(Delimiter(body))
  BY <1>4, <1>5
<1> QED  BY <1>1, <1>6 DEF IsFirst

\* A text is its relay, which has no slash, a slash, and its id.
LEMMA BodyParts ==
    ASSUME NEW body \in Seq(Character), HasDelimiter(body)
    PROVE  /\ RelayOf(body) \in Seq(Character) /\ IdOf(body) \in Seq(Character)
           /\ Slash \notin ToSet(RelayOf(body))
           /\ Len(RelayOf(body)) = Delimiter(body) - 1
           /\ body = RelayOf(body) \o <<Slash>> \o IdOf(body)
<1> DEFINE d == Delimiter(body)
           n == Len(body)
           r == RelayOf(body)
           id == IdOf(body)
<1>1. /\ d \in 1..n /\ body[d] = Slash /\ n \in Nat
      /\ \A j \in 1..(d - 1) : body[j] # Slash
  BY DelimiterFirst
<1>2. r = SubSeq(body, 1, d - 1) /\ id = SubSeq(body, d + 1, n)
  BY DEF RelayOf, IdOf
<1> HIDE DEF d, r, id
<1>3. /\ r \in Seq(Character) /\ Len(r) = d - 1
      /\ \A i \in 1..(d - 1) : r[i] = body[i]
  BY <1>1, <1>2
<1>4. /\ id \in Seq(Character) /\ Len(id) = n - d
      /\ \A i \in 1..(n - d) : id[i] = body[d + i]
  BY <1>1, <1>2
<1>5. Slash \notin ToSet(r)
  BY <1>1, <1>3 DEF ToSet
<1>6. body = r \o <<Slash>> \o id
  <2> DEFINE one == <<Slash>>
             x == r \o one
             w == x \o id
  <2>1. one \in Seq(Character) /\ Len(one) = 1 /\ one[1] = Slash
    BY DEF Character, Slash, Other
  <2> HIDE DEF one
  <2>2. /\ x \in Seq(Character) /\ Len(x) = d
        /\ \A i \in 1..(d - 1) : x[i] = body[i]
        /\ x[d] = Slash
    <3>1. /\ x \in Seq(Character) /\ Len(x) = Len(r) + Len(one)
          /\ \A i \in 1..Len(r) : x[i] = r[i]
          /\ \A i \in 1..Len(one) : x[Len(r) + i] = one[i]
      BY <1>3, <2>1, ConcatParts
    <3> HIDE DEF x
    <3> QED  BY <1>1, <1>3, <2>1, <3>1
  <2> HIDE DEF x
  <2>3. /\ w \in Seq(Character) /\ Len(w) = n
        /\ \A i \in 1..d : w[i] = x[i]
        /\ \A i \in 1..(n - d) : w[d + i] = id[i]
    <3>1. /\ w \in Seq(Character) /\ Len(w) = Len(x) + Len(id)
          /\ \A i \in 1..Len(x) : w[i] = x[i]
          /\ \A i \in 1..Len(id) : w[Len(x) + i] = id[i]
      BY <1>4, <2>2, ConcatParts
    <3> HIDE DEF w, n
    <3>2. Len(x) = d /\ Len(id) = n - d /\ d \in Int /\ n \in Int
      BY <1>1, <1>4, <2>2
    <3>3. Len(w) = n
      BY <3>1, <3>2
    <3> QED  BY <3>1, <3>2, <3>3
  <2> HIDE DEF w
  <2>4. ASSUME NEW i \in 1..n PROVE w[i] = body[i]
    <3>1. CASE i < d
      BY <1>1, <2>2, <2>3, <3>1
    <3>2. CASE i = d
      BY <1>1, <2>2, <2>3, <3>2
    <3>3. CASE i > d
      <4>1. i - d \in 1..(n - d) /\ d + (i - d) = i
        BY <1>1, <3>3
      <4> QED  BY <1>4, <2>3, <4>1
    <3> QED  BY <1>1, <3>1, <3>2, <3>3
  <2>5. w = body
    BY <2>3, <2>4, SeqEqual
  <2> QED  BY <2>5 DEF w, x, one
<1> QED  BY <1>3, <1>4, <1>5, <1>6 DEF r, id, d

\* What encode_aqid puts together comes apart where it was put together: the relay
\* has no slash of its own.
LEMMA BodyApart ==
    ASSUME NEW relay \in Locator, NEW text \in Seq(Character)
    PROVE  LET body == relay \o <<Slash>> \o text
           IN  /\ body \in Seq(Character) /\ HasDelimiter(body)
               /\ RelayOf(body) = relay /\ IdOf(body) = text
<1> DEFINE one == <<Slash>>
           x == relay \o one
           body == x \o text
           m == Len(relay)
           n == Len(text)
<1>1. one \in Seq(Character) /\ Len(one) = 1 /\ one[1] = Slash
  BY DEF Character, Slash, Other
<1>2. /\ relay \in Seq(Character) /\ m \in Nat /\ n \in Nat
      /\ \A i \in 1..m : relay[i] # Slash
  BY DEF Locator, Character, ToSet
<1> HIDE DEF one
<1>3. /\ x \in Seq(Character) /\ Len(x) = m + 1
      /\ \A i \in 1..m : x[i] = relay[i]
      /\ x[m + 1] = Slash
  <2>1. /\ x \in Seq(Character) /\ Len(x) = Len(relay) + Len(one)
        /\ \A i \in 1..Len(relay) : x[i] = relay[i]
        /\ \A i \in 1..Len(one) : x[Len(relay) + i] = one[i]
    BY <1>1, <1>2, ConcatParts
  <2> HIDE DEF x
  <2> QED  BY <1>1, <1>2, <2>1
<1> HIDE DEF x
<1>4. /\ body \in Seq(Character) /\ Len(body) = m + 1 + n
      /\ \A i \in 1..(m + 1) : body[i] = x[i]
      /\ \A i \in 1..n : body[m + 1 + i] = text[i]
  <2>1. /\ body \in Seq(Character) /\ Len(body) = Len(x) + Len(text)
        /\ \A i \in 1..Len(x) : body[i] = x[i]
        /\ \A i \in 1..Len(text) : body[Len(x) + i] = text[i]
    BY <1>3, ConcatParts
  <2> HIDE DEF body
  <2> QED  BY <1>2, <1>3, <2>1
<1> HIDE DEF body
<1>5. HasDelimiter(body)
  <2>1. m + 1 \in DOMAIN body /\ body[m + 1] = Slash
    BY <1>2, <1>3, <1>4
  <2> QED  BY <2>1 DEF HasDelimiter, ToSet
<1>6. Delimiter(body) = m + 1
  <2> DEFINE d == Delimiter(body)
  <2>1. /\ d \in 1..Len(body) /\ body[d] = Slash
        /\ \A j \in 1..(d - 1) : body[j] # Slash
    BY <1>4, <1>5, DelimiterFirst
  <2> HIDE DEF d
  <2>2. ~(d < m + 1)
    <3> SUFFICES ASSUME d < m + 1 PROVE FALSE
      OBVIOUS
    <3>1. d \in 1..m /\ d \in 1..(m + 1)
      BY <1>2, <2>1
    <3>2. body[d] = relay[d]
      BY <1>3, <1>4, <3>1
    <3> QED  BY <1>2, <2>1, <3>1, <3>2
  <2>3. ~(m + 1 < d)
    <3> SUFFICES ASSUME m + 1 < d PROVE FALSE
      OBVIOUS
    <3>1. m + 1 \in 1..(d - 1) /\ m + 1 \in 1..(m + 1)
      BY <1>2, <2>1
    <3> QED  BY <1>3, <1>4, <2>1, <3>1
  <2>4. d = m + 1
    BY <1>2, <1>4, <2>1, <2>2, <2>3
  <2> QED  BY <2>4 DEF d
<1>7. RelayOf(body) = relay
  <2> DEFINE y == RelayOf(body)
  <2>1. y = SubSeq(body, 1, m)
    BY <1>2, <1>6 DEF RelayOf
  <2> HIDE DEF y
  <2>2. y \in Seq(Character) /\ Len(y) = m /\ \A i \in 1..m : y[i] = relay[i]
    BY <1>2, <1>3, <1>4, <2>1
  <2>3. y = relay
    BY <1>2, <2>2, SeqEqual
  <2> QED  BY <2>3 DEF y
<1>8. IdOf(body) = text
  <2> DEFINE y == IdOf(body)
  <2>1. y = SubSeq(body, m + 2, m + 1 + n)
    BY <1>2, <1>4, <1>6 DEF IdOf
  <2> HIDE DEF y
  <2>2. y \in Seq(Character) /\ Len(y) = n /\ \A i \in 1..n : y[i] = text[i]
    BY <1>2, <1>4, <2>1
  <2>3. y = text
    BY <2>2, SeqEqual
  <2> QED  BY <2>3 DEF y
<1>9. body \in Seq(Character)
  BY <1>4
<1> QED  BY <1>5, <1>7, <1>8, <1>9 DEF body, x, one

\* What decode_aqid returns is a relay and an id of the right length: the text before
\* the first slash, and the octets read behind it.
LEMMA DecodesTo ==
    ASSUME NEW a \in Address, Decodes(a)
    PROVE  /\ DecodeAqid(a) = [relay |-> RelayOf(a.body), id |-> Reading(IdOf(a.body)).out]
           /\ DecodeAqid(a) \in Target
<1> DEFINE text == IdOf(a.body)
           relay == RelayOf(a.body)
           out == Reading(text).out
<1>1. /\ a.body \in Seq(Character) /\ HasDelimiter(a.body) /\ relay # <<>>
      /\ Len(out) = QueueIdLen
  BY DEF Address, Decodes
<1>2. text \in Seq(Character) /\ relay \in Locator
  BY <1>1, BodyParts DEF Locator, Character
<1> HIDE DEF text, relay
<1>3. out \in Seq(Octet)
  BY <1>2, ReadingTracks, StateParts
<1> HIDE DEF out
<1>4. SubSeq(out, 1, QueueIdLen) = out
  BY <1>1, <1>3, SubSeqFull
<1>5. out \in QueueId
  <2>1. out \in [1..Len(out) -> Octet]
    BY <1>3
  <2> QED  BY <1>1, <2>1 DEF QueueId, Octet
<1>6. DecodeAqid(a) = [relay |-> relay, id |-> out]
  BY <1>4 DEF DecodeAqid, out, text, relay
<1> QED  BY <1>2, <1>5, <1>6 DEF Target, out, text, relay

\* Queue ids are byte strings.
LEMMA IdShape ==
    ASSUME NEW id \in QueueId
    PROVE  id \in Seq(Octet) /\ Len(id) = QueueIdLen
<1>1. QueueIdLen \in Nat /\ id \in [1..QueueIdLen -> Octet]
  BY LenAssumption DEF QueueId, Octet
<1> QED  BY <1>1

\* Published addresses are addresses.
LEMMA PublishedAddress ==
    ASSUME NEW relay \in Locator, NEW id \in QueueId
    PROVE  EncodeAqid(relay, id) \in Address
<1>1. Encode(id) \in Seq(Character)
  BY IdShape, RoundTrip
<1> DEFINE text == Encode(id)
           body == relay \o <<Slash>> \o text
<1> HIDE DEF text
<1>2. body \in Seq(Character)
  BY <1>1, BodyApart DEF text
<1> HIDE DEF body
<1>3. [scheme |-> TRUE, body |-> body] \in Address
  BY <1>2 DEF Address
<1> QED  BY <1>3 DEF EncodeAqid, body, text

\* One mistake more leaves an address.
LEMMA MiscopiedAddress ==
    ASSUME NEW a \in Address, NEW b \in Miscopies(a)
    PROVE  b \in Address
<1>1. a.body \in Seq(Character) /\ Len(a.body) \in Nat
  BY DEF Address
<1>2. Symbol \subseteq Character
  BY SymbolAssumption DEF Character
<1>3. \A t \in Seq(Character) : [a EXCEPT !.body = t] \in Address
  BY DEF Address
<1>4. CASE b \in {[a EXCEPT !.body = InsertAt(@, i, c)] : i \in 1..(Len(a.body) + 1), c \in Symbol}
  <2>1. PICK i \in 1..(Len(a.body) + 1), c \in Symbol : b = [a EXCEPT !.body = InsertAt(@, i, c)]
    BY <1>4
  <2> DEFINE x == SubSeq(a.body, 1, i - 1)
             y == SubSeq(a.body, i, Len(a.body))
  <2>2. x \in Seq(Character) /\ y \in Seq(Character) /\ <<c>> \in Seq(Character)
    BY <1>1, <1>2
  <2>3. InsertAt(a.body, i, c) = (x \o <<c>>) \o y
    BY DEF InsertAt
  <2> HIDE DEF x, y
  <2>4. InsertAt(a.body, i, c) \in Seq(Character)
    BY <2>2, <2>3, ConcatProperties
  <2> QED  BY <1>3, <2>1, <2>4
<1>5. CASE b \in {[a EXCEPT !.body = ReplaceAt(@, i, c)] : i \in DOMAIN a.body, c \in Symbol}
  <2>1. PICK i \in DOMAIN a.body, c \in Symbol : b = [a EXCEPT !.body = ReplaceAt(@, i, c)]
    BY <1>5
  <2>2. ReplaceAt(a.body, i, c) \in Seq(Character)
    <3>1. i \in 1..Len(a.body) /\ c \in Character
      BY <1>1, <1>2
    <3> QED  BY <1>1, <3>1, ExceptSeq DEF ReplaceAt
  <2> QED  BY <1>3, <2>1, <2>2
<1>6. CASE b \in {[a EXCEPT !.body = RemoveAt(@, i)] : i \in DOMAIN a.body}
  <2>1. PICK i \in DOMAIN a.body : b = [a EXCEPT !.body = RemoveAt(@, i)]
    BY <1>6
  <2> DEFINE x == SubSeq(a.body, 1, i - 1)
             y == SubSeq(a.body, i + 1, Len(a.body))
  <2>2. x \in Seq(Character) /\ y \in Seq(Character)
    BY <1>1
  <2>3. RemoveAt(a.body, i) = x \o y
    BY DEF RemoveAt
  <2> HIDE DEF x, y
  <2>4. RemoveAt(a.body, i) \in Seq(Character)
    BY <2>2, <2>3, ConcatProperties
  <2> QED  BY <1>3, <2>1, <2>4
<1>7. CASE b = [a EXCEPT !.scheme = FALSE]
  <2>1. \A v \in BOOLEAN : [a EXCEPT !.scheme = v] \in Address
    BY DEF Address
  <2> QED  BY <1>7, <2>1
<1> QED  BY <1>4, <1>5, <1>6, <1>7 DEF Miscopies

\* At the start there are no addresses.
LEMMA InitCodec == Init => CodecInv
<1> SUFFICES ASSUME Init PROVE CodecInv
  OBVIOUS
<1>1. AddressesInv
  BY DEF Init, AddressesInv
<1> QED  BY <1>1 DEF Init, CodecInv, ContactsInv, PostedInv

\* Every action keeps the addresses and contacts in order.
LEMMA NextCodec == Inv /\ CodecInv /\ [Next]_vars => CodecInv'
<1> SUFFICES ASSUME Inv, CodecInv, [Next]_vars PROVE CodecInv'
  OBVIOUS
<1>a. /\ queues \in Seq([recipient : QueueId, sender : QueueId, relay : Locator])
      /\ addresses \in Seq(Address) /\ Len(addresses) = Len(queues) /\ Len(queues) \in Nat
      /\ DOMAIN queues = 1..Len(queues) /\ DOMAIN addresses = 1..Len(queues)
  BY DEF Inv, QueuesInv, CodecInv, AddressesInv
<1>1. ASSUME NEW r \in DrawnId, NEW s \in DrawnId, NEW relay \in Relay,
             NewQueue(r, s, relay)
      PROVE  CodecInv'
  <2> DEFINE queue == [recipient |-> r, sender |-> s, relay |-> relay]
             a == EncodeAqid(relay, s)
  <2>1. /\ queues' = Append(queues, queue) /\ addresses' = Append(addresses, a)
        /\ UNCHANGED <<edits, contacts, posts, accepted>>
        /\ queue.recipient # queue.sender /\ relay \in Locator
    BY <1>1, EncodedRelay DEF NewQueue, QueuePair
  <2>2. a \in Address
    BY <2>1, PublishedAddress, DrawAssumption
  <2>3. queue \in [recipient : QueueId, sender : QueueId, relay : Locator]
    BY <2>1, DrawAssumption
  <2> HIDE DEF queue, a
  <2>4. addresses' \in Seq(Address) /\ Len(addresses') = Len(queues')
    BY <1>a, <2>1, <2>2, <2>3
  <2>5. ASSUME NEW q \in DOMAIN queues' PROVE queues'[q].recipient # queues'[q].sender
    <3>1. (q \in DOMAIN queues /\ queues'[q] = queues[q]) \/ queues'[q] = queue
      BY <1>a, <2>1, <2>3
    <3> QED  BY <2>1, <3>1 DEF CodecInv, AddressesInv
  <2>6. AddressesInv'
    BY <2>1, <2>4, <2>5 DEF CodecInv, AddressesInv
  <2> QED  BY <2>1, <2>6 DEF CodecInv, ContactsInv, PostedInv, AddressOf
<1>2. ASSUME NEW q \in DOMAIN queues, Miscopy(q) PROVE CodecInv'
  <2>1. PICK a \in Miscopies(addresses[q]) : addresses' = [addresses EXCEPT ![q] = a]
    BY <1>2 DEF Miscopy
  <2>2. edits' = edits + 1 /\ UNCHANGED <<queues, contacts, posts, accepted>>
    BY <1>2 DEF Miscopy
  <2>3. a \in Address
    <3>1. addresses[q] \in Address
      BY <1>a
    <3> QED  BY <3>1, MiscopiedAddress
  <2>4. addresses' \in Seq(Address) /\ Len(addresses') = Len(queues)
    BY <1>a, <2>1, <2>3, ExceptSeq
  <2>5. AddressesInv'
    BY <2>2, <2>4 DEF CodecInv, AddressesInv
  <2> QED  BY <2>2, <2>5 DEF CodecInv, ContactsInv, PostedInv, AddressOf
<1>3. ASSUME NEW q \in DOMAIN queues, Decode(q) PROVE CodecInv'
  <2> DEFINE a == addresses[q]
             new == [queue |-> q, body |-> a.body, to |-> DecodeAqid(a)]
  <2>1. /\ contacts' = contacts \cup {new} /\ Decodes(a)
        /\ UNCHANGED <<queues, addresses, edits, posts, accepted>>
    BY <1>3 DEF Decode
  <2>2. a \in Address
    BY <1>a
  <2>3. new.body = a.body /\ new.to = DecodeAqid(a)
    OBVIOUS
  <2> HIDE DEF new
  <2>4. AddressOf(new) = a
    <3>1. a = [scheme |-> a.scheme, body |-> a.body]
      BY <2>2 DEF Address
    <3>2. a.scheme = TRUE
      BY <2>1, <2>2 DEF Decodes, Address
    <3> HIDE DEF a
    <3> QED  BY <2>3, <3>1, <3>2 DEF AddressOf
  <2>5. ContactsInv'
    <3>1. \A c \in contacts' : c \in contacts \/ c = new
      BY <2>1
    <3> QED  BY <2>1, <2>2, <2>3, <2>4, <3>1 DEF CodecInv, ContactsInv, AddressOf
  <2> QED  BY <2>1, <2>5 DEF CodecInv, AddressesInv, PostedInv
<1>4. ASSUME NEW c \in contacts, NEW n \in Nonce, NEW m \in Message, Post(c, n, m)
      PROVE  CodecInv'
  <2> DEFINE new == [queue |-> c.queue, to |-> c.to, nonce |-> n, message |-> m,
                     tag |-> AuthTag(c.queue, m, n)]
  <2>1. posts' = posts \cup {new} /\ UNCHANGED <<queues, addresses, edits, contacts, accepted>>
    BY <1>4 DEF Post
  <2>2. c.to \in Target
    BY DecodesTo DEF CodecInv, ContactsInv
  <2>3. /\ new.to = c.to
        /\ new = [queue |-> new.queue, to |-> new.to, nonce |-> new.nonce,
                  message |-> new.message, tag |-> new.tag]
    OBVIOUS
  <2> HIDE DEF new
  <2>4. PostedInv'
    BY <2>1, <2>2, <2>3 DEF CodecInv, PostedInv
  <2> QED  BY <2>1, <2>4 DEF CodecInv, AddressesInv, ContactsInv, AddressOf
<1>5. ASSUME NEW q \in DOMAIN queues, NEW p \in posts, NEW n \in Nonce, NEW m \in Message,
             NEW i \in BOOLEAN, Deliver(q, p, n, m, i)
      PROVE  CodecInv'
  <2> DEFINE new == [queue |-> q, nonce |-> n, message |-> m]
  <2>1. accepted' = accepted \cup {new} /\ UNCHANGED <<queues, addresses, edits, contacts, posts>>
    BY <1>5 DEF Deliver
  <2>2. new = [queue |-> new.queue, nonce |-> new.nonce, message |-> new.message]
    OBVIOUS
  <2> HIDE DEF new
  <2>3. PostedInv'
    BY <2>1, <2>2 DEF CodecInv, PostedInv
  <2> QED  BY <2>1, <2>3 DEF CodecInv, AddressesInv, ContactsInv, AddressOf
<1>6. CASE UNCHANGED vars
  BY <1>6 DEF vars, CodecInv, AddressesInv, ContactsInv, PostedInv, AddressOf
<1> QED  BY <1>1, <1>2, <1>3, <1>4, <1>5, <1>6 DEF Next

\* Whatever mistakes addresses are copied with, what a peer holds is what
\* decode_aqid made of a text, and what it posts goes there.
THEOREM CodecInvHolds == Spec => []CodecInv
<1> QED  BY InitCodec, NextCodec, InvHolds, PTL DEF Spec

\* An address copied without a mistake decodes to the queue it was published for:
\* for ids of any length.
THEOREM PublishedDecodes == Spec => []PublishedAddressDecodes
<1>1. Inv => PublishedAddressDecodes
  <2> SUFFICES ASSUME Inv, NEW q \in DOMAIN queues,
                      addresses[q] = EncodeAqid(queues[q].relay, queues[q].sender)
               PROVE  /\ Decodes(addresses[q])
                      /\ DecodeAqid(addresses[q]) =
                           [relay |-> queues[q].relay, id |-> queues[q].sender]
    BY DEF PublishedAddressDecodes
  <2> DEFINE relay == queues[q].relay
             id == queues[q].sender
             a == addresses[q]
  <2>1. relay \in Locator /\ id \in QueueId
    <3>1. queues \in Seq([recipient : QueueId, sender : QueueId, relay : Locator])
      BY DEF Inv, QueuesInv
    <3>2. queues[q] \in [recipient : QueueId, sender : QueueId, relay : Locator]
      <4> DEFINE S == [recipient : QueueId, sender : QueueId, relay : Locator]
      <4>1. queues \in Seq(S)
        BY <3>1
      <4> HIDE DEF S
      <4>2. q \in 1..Len(queues)
        BY <4>1
      <4>3. queues[q] \in S
        BY <4>1, <4>2, ElementOfSeq
      <4> QED  BY <4>3 DEF S
    <3> QED  BY <3>2
  <2>2. id \in Seq(Octet) /\ Len(id) = QueueIdLen
    <3> HIDE DEF id
    <3> QED  BY <2>1, IdShape
  <2>3. a = EncodeAqid(relay, id)
    OBVIOUS
  <2> HIDE DEF relay, id, a
  <2> DEFINE text == Encode(id)
             body == relay \o <<Slash>> \o text
  <2>4. a.scheme = TRUE /\ a.body = body
    BY <2>3 DEF EncodeAqid
  <2>5. /\ text \in Seq(Character)
        /\ Reading(text).done \/ Reading(text).quad = 0
        /\ Reading(text).out = id
    BY <2>2, RoundTrip
  <2>6. text # <<>>
    <3>1. Len(text) = (8 * QueueIdLen + 5) \div 6
      BY <2>2, EncodeParts
    <3>2. (8 * QueueIdLen + 5) \div 6 >= 1
      BY LenAssumption
    <3> QED  BY <3>1, <3>2
  <2>7. a \in Address
    BY <2>1, <2>3, PublishedAddress
  <2> HIDE DEF text
  <2>8. HasDelimiter(body) /\ RelayOf(body) = relay /\ IdOf(body) = text
    BY <2>1, <2>5, BodyApart
  <2> HIDE DEF body
  <2>9. relay # <<>>
    BY <2>1 DEF Locator
  <2>10. Decodes(a)
    BY <2>2, <2>4, <2>5, <2>6, <2>8, <2>9 DEF Decodes
  <2>11. DecodeAqid(a) = [relay |-> relay, id |-> id]
    BY <2>4, <2>5, <2>7, <2>8, <2>10, DecodesTo
  <2> QED  BY <2>10, <2>11 DEF a, relay, id
<1> QED  BY <1>1, InvHolds, PTL

\* However lenient the decoder is, and wherever the first slash of the address is
\* from, a peer that got it accepted posts to the relay before that slash and to the
\* id the characters behind it spell: for texts and ids of any length.
THEOREM DecodesTyped == Spec => []DecodesWhatWasTyped
<1>1. CodecInv => DecodesWhatWasTyped
  <2> SUFFICES ASSUME CodecInv, NEW c \in contacts
               PROVE  LET text == SubSeq(c.body, Len(c.to.relay) + 2, Len(c.body))
                      IN  /\ c.to.relay \in Locator
                          /\ c.body = c.to.relay \o <<Slash>> \o text
                          /\ \/ Spells(Typed(text), c.to.id)
                             \/ \E i \in DOMAIN text :
                                  /\ text[i] = Pad
                                  /\ Spells(Typed(SubSeq(text, 1, i)), c.to.id)
    BY DEF DecodesWhatWasTyped
  <2> DEFINE a == AddressOf(c)
             text == IdOf(c.body)
             s == Reading(text)
  <2>1. a \in Address /\ Decodes(a) /\ c.to = DecodeAqid(a) /\ a.body = c.body
    BY DEF CodecInv, ContactsInv, AddressOf
  <2> HIDE DEF a
  <2>2. /\ c.body \in Seq(Character) /\ HasDelimiter(c.body)
        /\ c.to.relay = RelayOf(c.body) /\ c.to.id = s.out
        /\ c.to.relay \in Locator
    BY <2>1, DecodesTo DEF Address, Decodes, Target
  <2>3. /\ text \in Seq(Character) /\ Len(RelayOf(c.body)) = Delimiter(c.body) - 1
        /\ c.body = RelayOf(c.body) \o <<Slash>> \o text
        /\ Delimiter(c.body) \in Int
    BY <2>2, BodyParts, DelimiterFirst
  <2>4. text = SubSeq(c.body, Len(c.to.relay) + 2, Len(c.body))
    <3>1. Len(c.to.relay) + 2 = Delimiter(c.body) + 1
      BY <2>2, <2>3
    <3> QED  BY <3>1 DEF IdOf
  <2>5. (s.done \/ s.quad = 0) /\ Len(s.out) = QueueIdLen
    BY <2>1 DEF Decodes
  <2> HIDE DEF text
  <2>6. s \in DecoderState
    BY <2>3, ReadingTracks
  <2>7. ASSUME NEW x \in Seq(Character), Tracks(s, Typed(x))
        PROVE  Spells(Typed(x), c.to.id)
    <3>1. Typed(x) \in Seq(0..63)
      <4>1. PICK t : TypedRow(t, x) /\ Typed(x) = t[Len(x)]
        BY TypedSteps
      <4>2. Len(x) \in 0..Len(x)
        OBVIOUS
      <4> QED  BY <4>1, <4>2 DEF TypedRow
    <3> HIDE DEF s
    <3> QED  BY <2>2, <2>5, <2>6, <2>7, <3>1, TracksSpells
  <2>8. \A i \in DOMAIN text : SubSeq(text, 1, i) \in Seq(Character)
    BY <2>3
  <2>9. \/ Spells(Typed(text), c.to.id)
        \/ \E i \in DOMAIN text : /\ text[i] = Pad
                                  /\ Spells(Typed(SubSeq(text, 1, i)), c.to.id)
    BY <2>3, <2>7, <2>8, ReadingTracks
  <2> HIDE DEF s
  <2> QED  BY <2>2, <2>3, <2>4, <2>9
<1> QED  BY <1>1, CodecInvHolds, PTL

\* Every variable has the shape the code gives it; the two ids of a queue differ.
THEOREM TypeCorrect == Spec => []TypeOK
<1>1. Inv /\ CodecInv => TypeOK
  <2> SUFFICES ASSUME Inv, CodecInv PROVE TypeOK
    OBVIOUS
  <2>1. /\ queues \in Seq([recipient : QueueId, sender : QueueId, relay : Locator])
        /\ addresses \in Seq(Address) /\ Len(addresses) = Len(queues)
        /\ \A q \in DOMAIN queues : queues[q].recipient # queues[q].sender
        /\ edits \in Nat
    BY DEF Inv, QueuesInv, CodecInv, AddressesInv
  <2>2. DOMAIN addresses = DOMAIN queues
    BY <2>1
  <2>3. \A q \in DOMAIN addresses : addresses[q].body \in Seq(0..Other)
    <3> SUFFICES ASSUME NEW q \in DOMAIN addresses
                 PROVE  addresses[q].body \in Seq(0..Other)
      OBVIOUS
    <3>1. addresses[q] \in Address
      BY <2>1, ElementOfSeq
    <3>2. addresses[q].body \in Seq(Character)
      BY <3>1 DEF Address
    <3> QED  BY <3>2 DEF Character
  <2>4. \A c \in contacts : c.to \in [relay : Locator, id : QueueId]
    BY DecodesTo DEF CodecInv, ContactsInv, Target
  <2>5. ASSUME NEW p \in posts
        PROVE  p \in [queue : DOMAIN queues, to : [relay : Locator, id : QueueId],
                      nonce : Nonce, message : Message,
                      tag : [secret : DOMAIN queues, data : Seq(Byte), intact : {TRUE}]]
    <3>1. /\ p.queue \in DOMAIN queues /\ p.nonce \in Nonce /\ p.message \in Message
          /\ p.tag = AuthTag(p.queue, p.message, p.nonce)
      BY DEF Inv, PostsInv
    <3>2. p.nonce \o p.message \in Seq(Byte)
      <4>1. PICK n \in NonceLens : p.nonce \in [1..n -> Byte]
        BY <3>1, NonceShape
      <4>2. p.nonce \in Seq(Byte)
        BY <4>1, NonceAssumption
      <4>3. p.message \in Seq(Byte)
        BY <3>1, MessageShape
      <4> QED  BY <4>2, <4>3, ConcatProperties
    <3>3. p.tag \in [secret : DOMAIN queues, data : Seq(Byte), intact : {TRUE}]
      BY <3>1, <3>2 DEF AuthTag, HMAC
    <3>4. /\ p.to \in [relay : Locator, id : QueueId]
          /\ p = [queue |-> p.queue, to |-> p.to, nonce |-> p.nonce, message |-> p.message,
                  tag |-> p.tag]
      BY DEF CodecInv, PostedInv, Target
    <3> QED  BY <3>1, <3>3, <3>4
  <2>6. ASSUME NEW a \in accepted
        PROVE  a \in [queue : DOMAIN queues, nonce : Nonce, message : Message]
    <3>1. a.queue \in DOMAIN queues /\ a.nonce \in Nonce /\ a.message \in Message
      BY DEF Inv, AcceptedInv
    <3>2. a = [queue |-> a.queue, nonce |-> a.nonce, message |-> a.message]
      BY DEF CodecInv, PostedInv
    <3> QED  BY <3>1, <3>2
  <2> QED  BY <2>1, <2>2, <2>3, <2>4, <2>5, <2>6 DEF TypeOK
<1> QED  BY <1>1, InvHolds, CodecInvHolds, PTL

============================================================================
