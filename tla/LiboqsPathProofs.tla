-------------------------- MODULE LiboqsPathProofs --------------------------
(* Theorems about LiboqsPath, for every value of its constants. *)
EXTENDS LiboqsPath, SequenceTheorems, Integers, TLAPS

----------------------------------------------------------------------------
(* The inductive invariant. *)

\* Sequence s ends sequence t, place by place.
Ends(s, t) == /\ Len(s) <= Len(t)
              /\ \A i \in 1..Len(s) : t[(Len(t) - Len(s)) + i] = s[i]

\* None of these prefixes holds a liboqs, unless liboqs was moved during a call.
Empty(P) == ~raced => P \cap libs = {}

\* What thread t has yet to look at; it found nothing before that.
InOrder(t) ==
    \/ todo[t] = <<env.hint, Home, UsrLocal, Usr>> /\ env.hint # None
    \/ todo[t] = <<Home, UsrLocal, Usr>> /\ Empty({env.hint})
    \/ todo[t] = <<UsrLocal, Usr>>       /\ Empty({env.hint, Home})
    \/ todo[t] = <<Usr>>                 /\ Empty({env.hint, Home, UsrLocal})
    \/ todo[t] = <<>>                    /\ Empty({env.hint, Home, UsrLocal, Usr})

\* The candidate every thread of this process finds.
Best == IF env.hint \in libs THEN env.hint
        ELSE IF Home \in libs THEN Home
        ELSE IF UsrLocal \in libs THEN UsrLocal ELSE Usr

Searching == {"search", "export", "read", "write"}
Found     == {"export", "read", "write"}

\* The operator's settings.
EnvInv ==
    /\ given.install # None => env.install = given.install
    /\ Ends(given.path, env.path)
    /\ IsInjective(env.path)

\* Threads in ensure_liboqs_path.
ThreadInv(t) ==
    /\ at[t] \in Searching => given.install = None /\ InOrder(t)
    /\ at[t] \in Found => todo[t] # <<>> /\ (~raced => Head(todo[t]) \in libs)
    /\ at[t] \in {"read", "write"} => env.install # None
    /\ at[t] = "write" => /\ Ends(given.path, seen[t])
                          /\ IsInjective(seen[t])
                          /\ ~Listed(Head(todo[t]), seen[t])

SearchInv == \A t \in Thread : ThreadInv(t)

\* Unless liboqs was moved during a call, threads agree on what they export, and
\* what is loaded is what is exported.
NamedInv ==
    ~raced =>
      /\ loaded \in Prefix => env.install = loaded
      /\ \A t \in Thread : at[t] \in Searching /\ env.install # None => env.install = Best
      /\ given.install = None /\ env.install # None =>
           \/ Contains(env.path, env.install)
           \/ \E t \in Thread : at[t] \in {"read", "write"}
      /\ \A t \in Thread : at[t] = "import" /\ env.install = None =>
           {env.hint, Home, UsrLocal, Usr} \cap libs = {}

Inv == TypeOK /\ EnvInv /\ SearchInv /\ NamedInv

----------------------------------------------------------------------------
(* Facts about the search path and the candidates. *)

\* Ends, element by element, is the library's IsSuffix.
LEMMA EndsIsSuffix ==
    ASSUME NEW s \in Seq(Prefix), NEW t \in Seq(Prefix), Ends(s, t)
    PROVE  IsSuffix(s, t)
<1>1. /\ Len(s) \in Nat /\ Len(t) \in Nat /\ Len(s) <= Len(t)
      /\ \A i \in 1..Len(s) : t[(Len(t) - Len(s)) + i] = s[i]
  BY DEF Ends
<1>2. /\ Reverse(s) \in Seq(Prefix) /\ Len(Reverse(s)) = Len(s)
      /\ \A i \in 1..Len(s) : Reverse(s)[i] = s[(Len(s) - i) + 1]
  BY <1>1 DEF Reverse
<1>3. /\ Reverse(t) \in Seq(Prefix) /\ Len(Reverse(t)) = Len(t)
      /\ \A i \in 1..Len(t) : Reverse(t)[i] = t[(Len(t) - i) + 1]
  BY <1>1 DEF Reverse
<1>4. \A i \in 1..Len(s) : Reverse(s)[i] = Reverse(t)[i]
  <2> SUFFICES ASSUME NEW i \in 1..Len(s)
               PROVE  Reverse(s)[i] = Reverse(t)[i]
    OBVIOUS
  <2> DEFINE j == (Len(s) - i) + 1
  <2>1. j \in 1..Len(s) /\ (Len(t) - Len(s)) + j = (Len(t) - i) + 1
    BY <1>1
  <2>2. s[j] = t[(Len(t) - Len(s)) + j]
    BY <1>1, <2>1
  <2>3. i \in 1..Len(t)
    BY <1>1
  <2> QED  BY <1>2, <1>3, <2>1, <2>2, <2>3
<1> DEFINE m == Len(s)
           a == SubSeq(Reverse(s), 1, m)
           b == SubSeq(Reverse(t), 1, m)
<1>5. /\ a \in Seq(Prefix) /\ Len(a) = m /\ \A i \in 1..m : a[i] = Reverse(s)[i]
      /\ b \in Seq(Prefix) /\ Len(b) = m /\ \A i \in 1..m : b[i] = Reverse(t)[i]
  BY <1>1, <1>2, <1>3
<1>6. a = b
  <2> HIDE DEF a, b
  <2> QED  BY <1>4, <1>5, SeqEqual
<1> QED  BY <1>1, <1>2, <1>3, <1>6 DEF IsSuffix, IsPrefix

\* A path ends itself, and goes on to once a directory is put in front of it.
LEMMA EndsItself ==
    ASSUME NEW s \in Seq(Prefix)
    PROVE  Ends(s, s)
BY DEF Ends

\* What a search path is after one more directory was put in front.
LEMMA PrependParts ==
    ASSUME NEW t \in Seq(Prefix), NEW p \in Prefix
    PROVE  /\ Prepend(p, t) \in Seq(Prefix)
           /\ Len(Prepend(p, t)) = Len(t) + 1
           /\ Prepend(p, t)[1] = p
           /\ \A i \in 1..Len(t) : Prepend(p, t)[i + 1] = t[i]
BY DEF Prepend

\* Putting a directory in front keeps what the path ends in.
LEMMA EndsPrepended ==
    ASSUME NEW s \in Seq(Prefix), NEW t \in Seq(Prefix), Ends(s, t), NEW p \in Prefix
    PROVE  Prepend(p, t) \in Seq(Prefix) /\ Ends(s, Prepend(p, t))
<1>1. /\ Prepend(p, t) \in Seq(Prefix) /\ Len(Prepend(p, t)) = Len(t) + 1
      /\ \A i \in 1..Len(t) : Prepend(p, t)[i + 1] = t[i]
  BY PrependParts
<1>2. /\ Len(s) \in Nat /\ Len(t) \in Nat /\ Len(s) <= Len(t)
      /\ \A i \in 1..Len(s) : t[(Len(t) - Len(s)) + i] = s[i]
  BY DEF Ends
<1>3. ASSUME NEW i \in 1..Len(s)
      PROVE  Prepend(p, t)[(Len(Prepend(p, t)) - Len(s)) + i] = s[i]
  <2> DEFINE j == (Len(t) - Len(s)) + i
  <2>1. j \in 1..Len(t) /\ (Len(Prepend(p, t)) - Len(s)) + i = j + 1
    BY <1>1, <1>2
  <2> QED  BY <1>1, <1>2, <2>1
<1> QED  BY <1>1, <1>2, <1>3 DEF Ends

\* A directory that is not listed may be put in front, and is listed then.
LEMMA PrependedOnce ==
    ASSUME NEW t \in Seq(Prefix), NEW p \in Prefix
    PROVE  /\ Contains(Prepend(p, t), p)
           /\ IsInjective(t) /\ ~Listed(p, t) => IsInjective(Prepend(p, t))
<1>1. /\ Prepend(p, t) \in Seq(Prefix) /\ Len(Prepend(p, t)) = Len(t) + 1
      /\ Prepend(p, t)[1] = p
      /\ \A i \in 1..Len(t) : Prepend(p, t)[i + 1] = t[i]
      /\ Len(t) \in Nat
  <2>1. Len(t) \in Nat
    OBVIOUS
  <2> QED  BY <2>1, PrependParts
<1>2. Contains(Prepend(p, t), p)
  BY <1>1 DEF Contains
<1>3. ASSUME IsInjective(t), ~Listed(p, t)
      PROVE  IsInjective(Prepend(p, t))
  <2> SUFFICES ASSUME NEW i \in 1..(Len(t) + 1), NEW j \in 1..(Len(t) + 1),
                      Prepend(p, t)[i] = Prepend(p, t)[j]
               PROVE  i = j
    BY <1>1 DEF IsInjective
  <2>1. \A k \in 2..(Len(t) + 1) : k - 1 \in 1..Len(t) /\ Prepend(p, t)[k] = t[k - 1]
    <3> SUFFICES ASSUME NEW k \in 2..(Len(t) + 1)
                 PROVE  k - 1 \in 1..Len(t) /\ Prepend(p, t)[k] = t[k - 1]
      OBVIOUS
    <3>1. k - 1 \in 1..Len(t) /\ (k - 1) + 1 = k
      BY <1>1
    <3> QED  BY <1>1, <3>1
  <2>2. \A k \in 1..Len(t) : t[k] # p
    BY <1>3 DEF Listed, Contains
  <2>3. \A k, l \in 1..Len(t) : t[k] = t[l] => k = l
    BY <1>3 DEF IsInjective
  <2>4. CASE i = 1 /\ j = 1
    BY <2>4
  <2>5. CASE i = 1 /\ j # 1
    BY <1>1, <2>1, <2>2, <2>5
  <2>6. CASE i # 1 /\ j = 1
    BY <1>1, <2>1, <2>2, <2>6
  <2>7. CASE i # 1 /\ j # 1
    <3>1. /\ i \in 2..(Len(t) + 1) /\ j \in 2..(Len(t) + 1)
      BY <1>1, <2>7
    <3>2. i - 1 = j - 1
      BY <2>1, <2>3, <3>1
    <3> QED  BY <1>1, <3>2
  <2> QED  BY <2>4, <2>5, <2>6, <2>7
<1> QED  BY <1>2, <1>3

\* The home and system prefixes are prefixes; the markers of an unset
\* variable and of a library of oqs's own are not.
LEMMA PrefixFacts ==
    /\ Home \in Prefix /\ UsrLocal \in Prefix /\ Usr \in Prefix
    /\ None \notin Prefix /\ Own \notin Prefix /\ None # Own
BY NoneAssumption DEF Prefix

\* The candidates, in full.
LEMMA CandidatesInFull ==
    ASSUME NEW hint \in Prefix \cup {None}
    PROVE  /\ Candidates(hint) \in Seq(Prefix)
           /\ Candidates(hint) = IF hint = None THEN <<Home, UsrLocal, Usr>>
                                 ELSE <<hint, Home, UsrLocal, Usr>>
<1> DEFINE three == <<Home, UsrLocal, Usr>>
           four  == <<hint, Home, UsrLocal, Usr>>
<1>1. three \in Seq(Prefix) /\ Len(three) = 3
  BY PrefixFacts
<1>2. CASE hint = None
  <2>1. Candidates(hint) = <<>> \o three
    BY <1>2 DEF Candidates
  <2>2. <<>> \o three = three
    BY <1>1, ConcatEmptySeq
  <2> QED  BY <1>1, <1>2, <2>1, <2>2
<1>3. CASE hint # None
  <2>1. Candidates(hint) = Prepend(hint, three) /\ hint \in Prefix
    BY <1>3 DEF Candidates, Prepend
  <2>2. four \in Seq(Prefix) /\ Len(four) = 4
    BY <1>3, PrefixFacts
  <2>3. three[1] = Home /\ three[2] = UsrLocal /\ three[3] = Usr
    OBVIOUS
  <2>4. Prepend(hint, three) = four
    <3> DEFINE u == Prepend(hint, three)
    <3>1. /\ u \in Seq(Prefix) /\ Len(u) = 4 /\ u[1] = hint
          /\ u[1 + 1] = three[1] /\ u[2 + 1] = three[2] /\ u[3 + 1] = three[3]
      <4>1. /\ u \in Seq(Prefix) /\ Len(u) = Len(three) + 1 /\ u[1] = hint
            /\ \A i \in 1..Len(three) : u[i + 1] = three[i]
        <5> HIDE DEF three
        <5> QED  BY <1>1, <2>1, PrependParts
      <4>2. 1 \in 1..Len(three) /\ 2 \in 1..Len(three) /\ 3 \in 1..Len(three)
        BY <1>1
      <4> HIDE DEF three, u
      <4> QED  BY <1>1, <4>1, <4>2
    <3> HIDE DEF u, three
    <3>2. \A i \in 1..4 : u[i] = four[i]
      BY <2>3, <3>1
    <3> HIDE DEF four
    <3> QED  BY <2>2, <3>1, <3>2, SeqEqual DEF u
  <2> QED  BY <1>3, <2>1, <2>2, <2>4
<1> QED  BY <1>2, <1>3

----------------------------------------------------------------------------
(* The invariant is inductive. *)

\* The environment, field by field.
LEMMA EnvTyped ==
    ASSUME TypeOK
    PROVE  /\ env.install \in Prefix \cup {None} /\ env.hint \in Prefix \cup {None}
           /\ env.path \in Seq(Prefix) /\ env.home \in BOOLEAN
           /\ given.install \in Prefix \cup {None} /\ given.path \in Seq(Prefix)
BY DEF TypeOK, Environment

\* A process starts.
LEMMA FreshProcess ==
    ASSUME libs' \subseteq Writable, given' \in Environment, env' = given',
           IsInjective(env'.path), loaded' = None,
           at' = InEveryThread("idle"), result' = InEveryThread("none"),
           todo' = InEveryThread(<<>>), seen' = InEveryThread(<<>>), raced' = FALSE
    PROVE  Inv'
<1>1. \A t \in Thread : at'[t] = "idle"
  BY DEF InEveryThread
<1>2. given'.path \in Seq(Prefix) /\ given'.install \in Prefix \cup {None}
  BY DEF Environment
<1>3. TypeOK'
  <2>1. <<>> \in Seq(Prefix)
    OBVIOUS
  <2> QED  BY <2>1, PrefixFacts DEF TypeOK, InEveryThread
<1>4. EnvInv'
  <2>1. Ends(given'.path, env'.path)
    BY <1>2, EndsItself
  <2> QED  BY <2>1 DEF EnvInv, Ends
<1>5. SearchInv'
  BY <1>1 DEF SearchInv, ThreadInv, Searching, Found
<1>6. NamedInv'
  BY <1>1, PrefixFacts DEF NamedInv, Searching
<1> QED  BY <1>3, <1>4, <1>5, <1>6 DEF Inv

\* A process starts with no thread in the search and its configured settings.
LEMMA InitInv == Init => Inv
<1> SUFFICES ASSUME Init PROVE Inv
  OBVIOUS
<1>1. given \in Environment /\ IsInjective(env.path) /\ env = given
  BY ConfiguredAssumption DEF Init
<1>2. \A t \in Thread : at[t] = "idle"
  BY DEF Init, InEveryThread
<1>3. given.path \in Seq(Prefix) /\ given.install \in Prefix \cup {None}
  BY <1>1 DEF Environment
<1>4. TypeOK
  <2>1. <<>> \in Seq(Prefix)
    OBVIOUS
  <2> QED  BY <1>1, <2>1, PrefixFacts DEF Init, TypeOK, InEveryThread
<1>5. EnvInv
  BY <1>1, <1>3, EndsItself DEF EnvInv
<1>6. SearchInv
  BY <1>2 DEF SearchInv, ThreadInv, Searching, Found
<1>7. NamedInv
  BY <1>2, PrefixFacts DEF Init, NamedInv, Searching
<1> QED  BY <1>4, <1>5, <1>6, <1>7 DEF Inv

\* A step of one thread leaves the others where they are.
LEMMA OthersStand ==
    ASSUME Inv, NEW t \in Thread, UNCHANGED <<libs, given, raced>>,
           env'.hint = env.hint, env.install # None => env'.install # None,
           \A u \in Thread \ {t} :
             at'[u] = at[u] /\ todo'[u] = todo[u] /\ seen'[u] = seen[u],
           ThreadInv(t)'
    PROVE  SearchInv'
<1> SUFFICES ASSUME NEW u \in Thread, u # t PROVE ThreadInv(u)'
  BY DEF SearchInv
<1>1. ThreadInv(u)
  BY DEF Inv, SearchInv
<1>2. InOrder(u) => InOrder(u)'
  BY DEF InOrder, Empty
<1> QED  BY <1>1, <1>2 DEF ThreadInv

\* What thread t has in front of it while it searches.
LEMMA HeadOfOrder ==
    ASSUME TypeOK, NEW t \in Thread, InOrder(t), todo[t] # <<>>
    PROVE  /\ Head(todo[t]) \in Prefix
           /\ ~raced /\ Head(todo[t]) \in libs => Head(todo[t]) = Best
<1>1. /\ libs \subseteq Prefix /\ None \notin Prefix
      /\ env.hint \in Prefix \cup {None}
  BY EnvTyped, PrefixAssumption, PrefixFacts DEF TypeOK
<1>2. CASE todo[t] = <<env.hint, Home, UsrLocal, Usr>> /\ env.hint # None
  BY <1>1, <1>2 DEF Best
<1>3. CASE todo[t] = <<Home, UsrLocal, Usr>> /\ Empty({env.hint})
  <2>1. Head(todo[t]) = Home
    BY <1>3
  <2> QED  BY <1>3, <2>1, PrefixFacts DEF Best, Empty
<1>4. CASE todo[t] = <<UsrLocal, Usr>> /\ Empty({env.hint, Home})
  <2>1. Head(todo[t]) = UsrLocal
    BY <1>4
  <2> QED  BY <1>4, <2>1, PrefixFacts DEF Best, Empty
<1>5. CASE todo[t] = <<Usr>> /\ Empty({env.hint, Home, UsrLocal})
  <2>1. Head(todo[t]) = Usr
    BY <1>5
  <2> QED  BY <1>5, <2>1, PrefixFacts DEF Best, Empty
<1> QED  BY <1>2, <1>3, <1>4, <1>5 DEF InOrder

\* A refused candidate is the next one, and the rest is still in order.
LEMMA TailOfOrder ==
    ASSUME TypeOK, NEW t \in Thread, InOrder(t), todo[t] # <<>>,
           Head(todo[t]) \notin libs, UNCHANGED <<libs, env, raced>>,
           todo'[t] = Tail(todo[t])
    PROVE  InOrder(t)' /\ todo'[t] \in Seq(Prefix)
<1>1. CASE todo[t] = <<env.hint, Home, UsrLocal, Usr>> /\ env.hint # None
  <2>1. Head(todo[t]) = env.hint /\ todo'[t] = <<Home, UsrLocal, Usr>>
    BY <1>1
  <2>2. Empty({env.hint})'
    BY <2>1 DEF Empty
  <2>3. InOrder(t)'
    BY <2>1, <2>2 DEF InOrder
  <2>4. <<Home, UsrLocal, Usr>> \in Seq(Prefix)
    BY PrefixFacts
  <2> QED  BY <2>1, <2>3, <2>4
<1>2. CASE todo[t] = <<Home, UsrLocal, Usr>> /\ Empty({env.hint})
  <2>1. Head(todo[t]) = Home /\ todo'[t] = <<UsrLocal, Usr>>
    BY <1>2
  <2> QED  BY <1>2, <2>1, PrefixFacts DEF InOrder, Empty
<1>3. CASE todo[t] = <<UsrLocal, Usr>> /\ Empty({env.hint, Home})
  <2>1. Head(todo[t]) = UsrLocal /\ todo'[t] = <<Usr>>
    BY <1>3
  <2> QED  BY <1>3, <2>1, PrefixFacts DEF InOrder, Empty
<1>4. CASE todo[t] = <<Usr>> /\ Empty({env.hint, Home, UsrLocal})
  <2>1. Head(todo[t]) = Usr /\ todo'[t] = <<>>
    BY <1>4
  <2> QED  BY <1>4, <2>1, PrefixFacts DEF InOrder, Empty
<1> QED  BY <1>1, <1>2, <1>3, <1>4 DEF InOrder

\* The early return of ensure_liboqs_path, or the start of a search.
LEMMA EnterStep ==
    ASSUME Inv, NEW t \in Thread, Enter(t)
    PROVE  Inv'
<1>1. /\ at[t] = "idle" /\ UNCHANGED <<libs, given, env, loaded, seen, raced>>
      /\ at \in [Thread -> {"idle", "search", "export", "read", "write", "import"}]
      /\ todo \in [Thread -> Seq(Prefix)]
      /\ result \in [Thread -> {"none", "raised", "oqs", "PqKemUnavailable"}]
  BY DEF Enter, Inv, TypeOK
<1>2. \/ /\ at' = [at EXCEPT ![t] = "import"] /\ UNCHANGED <<todo, result>>
         /\ env.install # None
      \/ /\ at' = [at EXCEPT ![t] = "search"] /\ UNCHANGED result
         /\ todo' = [todo EXCEPT ![t] = Candidates(env.hint)]
         /\ env.install = None
      \/ /\ at' = [at EXCEPT ![t] = "idle"] /\ UNCHANGED todo
         /\ result' = [result EXCEPT ![t] = "raised"]
  BY DEF Enter, Set, Goto, Finish
<1>3. /\ env.install \in Prefix \cup {None} /\ env.hint \in Prefix \cup {None}
      /\ libs \subseteq Prefix
  BY EnvTyped, PrefixAssumption DEF Inv, TypeOK
<1>4. /\ Candidates(env.hint) \in Seq(Prefix)
      /\ Candidates(env.hint) = IF env.hint = None THEN <<Home, UsrLocal, Usr>>
                                ELSE <<env.hint, Home, UsrLocal, Usr>>
  BY <1>3, CandidatesInFull
<1>5. TypeOK'
  <2>1. /\ at' \in [Thread -> {"idle", "search", "export", "read", "write", "import"}]
        /\ todo' \in [Thread -> Seq(Prefix)]
        /\ result' \in [Thread -> {"none", "raised", "oqs", "PqKemUnavailable"}]
    BY <1>1, <1>2, <1>4
  <2> QED  BY <1>1, <2>1 DEF Inv, TypeOK
<1>6. EnvInv'
  BY <1>1 DEF Inv, EnvInv
<1>7. SearchInv'
  <2>1. \A u \in Thread \ {t} : at'[u] = at[u] /\ todo'[u] = todo[u] /\ seen'[u] = seen[u]
    BY <1>1, <1>2
  <2>2. ThreadInv(t)'
    <3>1. CASE at'[t] \in {"idle", "import"}
      BY <3>1 DEF ThreadInv, Searching, Found
    <3>2. CASE /\ at' = [at EXCEPT ![t] = "search"]
               /\ todo' = [todo EXCEPT ![t] = Candidates(env.hint)]
               /\ env.install = None
      <4>1. at'[t] = "search" /\ todo'[t] = Candidates(env.hint)
        BY <1>1, <3>2
      <4>2. given'.install = None
        BY <1>1, <3>2 DEF Inv, EnvInv
      <4>3. env.hint = None => Empty({env.hint})
        BY <1>3, PrefixFacts DEF Empty
      <4>4. InOrder(t)'
        <5>1. CASE env.hint = None
          <6>1. Empty({env.hint})'
            BY <1>1, <4>3, <5>1 DEF Empty
          <6> QED  BY <1>1, <1>4, <4>1, <5>1, <6>1 DEF InOrder
        <5>2. CASE env.hint # None
          BY <1>1, <1>4, <4>1, <5>2 DEF InOrder
        <5> QED  BY <5>1, <5>2
      <4> QED  BY <4>1, <4>2, <4>4 DEF ThreadInv, Found
    <3> QED  BY <1>1, <1>2, <3>1, <3>2
  <2> QED  BY <1>1, <2>1, <2>2, OthersStand
<1>8. NamedInv'
  <2>1. \A u \in Thread : u # t => at'[u] = at[u]
    BY <1>1, <1>2
  <2>2. \/ at'[t] = "import" /\ env.install # None
        \/ at'[t] = "search" /\ env.install = None
        \/ at'[t] = "idle"
    BY <1>1, <1>2
  <2> QED  BY <1>1, <2>1, <2>2 DEF Inv, NamedInv, Searching, Best
<1> QED  BY <1>5, <1>6, <1>7, <1>8 DEF Inv

\* Looking at a candidate: it is refused, forbidden or taken, or none is left.
LEMMA LookStep ==
    ASSUME Inv, NEW t \in Thread, Refuse(t) \/ Forbidden(t) \/ Take(t) \/ NoneLeft(t)
    PROVE  Inv'
<1>1. /\ at[t] = "search" /\ UNCHANGED <<libs, given, env, loaded, seen, raced>>
      /\ at \in [Thread -> {"idle", "search", "export", "read", "write", "import"}]
      /\ todo \in [Thread -> Seq(Prefix)]
      /\ result \in [Thread -> {"none", "raised", "oqs", "PqKemUnavailable"}]
  BY DEF Refuse, Forbidden, Take, NoneLeft, Inv, TypeOK
<1>2. \/ /\ UNCHANGED <<at, result>> /\ todo[t] # <<>> /\ Head(todo[t]) \notin libs
         /\ todo' = [todo EXCEPT ![t] = Tail(todo[t])]
      \/ /\ at' = [at EXCEPT ![t] = "idle"] /\ UNCHANGED todo
         /\ result' = [result EXCEPT ![t] = "raised"]
      \/ /\ at' = [at EXCEPT ![t] = "export"] /\ UNCHANGED <<todo, result>>
         /\ todo[t] # <<>> /\ Head(todo[t]) \in libs
      \/ /\ at' = [at EXCEPT ![t] = "import"] /\ UNCHANGED <<todo, result>>
         /\ todo[t] = <<>>
  BY DEF Refuse, Forbidden, Take, NoneLeft, Goto, Finish
<1>3. ThreadInv(t) /\ given.install = None /\ InOrder(t)
  BY <1>1 DEF Inv, SearchInv, ThreadInv, Searching
<1>4. \A u \in Thread \ {t} : at'[u] = at[u] /\ todo'[u] = todo[u] /\ seen'[u] = seen[u]
  BY <1>1, <1>2
<1>5. CASE /\ UNCHANGED <<at, result>> /\ todo[t] # <<>> /\ Head(todo[t]) \notin libs
           /\ todo' = [todo EXCEPT ![t] = Tail(todo[t])]
  <2>1. InOrder(t)' /\ todo'[t] \in Seq(Prefix)
    <3>1. todo'[t] = Tail(todo[t])
      BY <1>1, <1>5
    <3> QED  BY <1>1, <1>3, <1>5, <3>1, TailOfOrder DEF Inv
  <2>2. TypeOK'
    <3>1. todo' \in [Thread -> Seq(Prefix)]
      BY <1>1, <1>5, <2>1
    <3> QED  BY <1>1, <1>5, <3>1 DEF Inv, TypeOK
  <2>3. ThreadInv(t)'
    BY <1>1, <1>3, <1>5, <2>1 DEF ThreadInv, Found
  <2>4. SearchInv'
    BY <1>1, <1>4, <2>3, OthersStand
  <2>5. EnvInv' /\ NamedInv'
    BY <1>1, <1>5 DEF Inv, EnvInv, NamedInv, Best
  <2> QED  BY <2>2, <2>4, <2>5 DEF Inv
<1>6. CASE /\ at' = [at EXCEPT ![t] = "idle"] /\ UNCHANGED todo
           /\ result' = [result EXCEPT ![t] = "raised"]
  <2>1. at'[t] = "idle"
    BY <1>1, <1>6
  <2>2. TypeOK'
    <3>1. /\ at' \in [Thread -> {"idle", "search", "export", "read", "write", "import"}]
          /\ result' \in [Thread -> {"none", "raised", "oqs", "PqKemUnavailable"}]
      BY <1>1, <1>6
    <3> QED  BY <1>1, <1>6, <3>1 DEF Inv, TypeOK
  <2>3. ThreadInv(t)'
    BY <2>1 DEF ThreadInv, Searching, Found
  <2>4. SearchInv'
    BY <1>1, <1>4, <2>3, OthersStand
  <2>5. EnvInv' /\ NamedInv'
    BY <1>1, <1>4, <2>1 DEF Inv, EnvInv, NamedInv, Best, Searching
  <2> QED  BY <2>2, <2>4, <2>5 DEF Inv
<1>7. CASE /\ at' = [at EXCEPT ![t] = "export"] /\ UNCHANGED <<todo, result>>
           /\ todo[t] # <<>> /\ Head(todo[t]) \in libs
  <2>1. at'[t] = "export"
    BY <1>1, <1>7
  <2>2. TypeOK'
    <3>1. at' \in [Thread -> {"idle", "search", "export", "read", "write", "import"}]
      BY <1>1, <1>7
    <3> QED  BY <1>1, <1>7, <3>1 DEF Inv, TypeOK
  <2>3. ThreadInv(t)'
    <3>1. InOrder(t)'
      BY <1>1, <1>3, <1>7 DEF InOrder, Empty
    <3> QED  BY <1>1, <1>3, <1>7, <2>1, <3>1 DEF ThreadInv
  <2>4. SearchInv'
    BY <1>1, <1>4, <2>3, OthersStand
  <2>5. EnvInv' /\ NamedInv'
    BY <1>1, <1>4, <2>1 DEF Inv, EnvInv, NamedInv, Best, Searching
  <2> QED  BY <2>2, <2>4, <2>5 DEF Inv
<1>8. CASE /\ at' = [at EXCEPT ![t] = "import"] /\ UNCHANGED <<todo, result>>
           /\ todo[t] = <<>>
  <2>1. at'[t] = "import"
    BY <1>1, <1>8
  <2>2. TypeOK'
    <3>1. at' \in [Thread -> {"idle", "search", "export", "read", "write", "import"}]
      BY <1>1, <1>8
    <3> QED  BY <1>1, <1>8, <3>1 DEF Inv, TypeOK
  <2>3. ThreadInv(t)'
    BY <2>1 DEF ThreadInv, Searching, Found
  <2>4. SearchInv'
    BY <1>1, <1>4, <2>3, OthersStand
  <2>5. ~raced => {env.hint, Home, UsrLocal, Usr} \cap libs = {}
    BY <1>3, <1>8 DEF InOrder, Empty
  <2>6. EnvInv' /\ NamedInv'
    BY <1>1, <1>4, <2>1, <2>5 DEF Inv, EnvInv, NamedInv, Best, Searching
  <2> QED  BY <2>2, <2>4, <2>6 DEF Inv
<1> QED  BY <1>2, <1>5, <1>6, <1>7, <1>8

\* Unless liboqs was moved during a call, a thread that has found a candidate holds
\* the best there is, and that is what is exported if anything is.
LEMMA FoundBest ==
    ASSUME Inv, NEW t \in Thread, at[t] \in Found
    PROVE  /\ Head(todo[t]) \in Prefix
           /\ ~raced => /\ Head(todo[t]) = Best
                        /\ env.install # None => env.install = Head(todo[t])
<1>1. /\ given.install = None /\ InOrder(t) /\ todo[t] # <<>>
      /\ ~raced => Head(todo[t]) \in libs
  BY DEF Inv, SearchInv, ThreadInv, Searching, Found
<1>2. /\ Head(todo[t]) \in Prefix
      /\ ~raced /\ Head(todo[t]) \in libs => Head(todo[t]) = Best
  BY <1>1, HeadOfOrder DEF Inv
<1>3. ~raced /\ env.install # None => env.install = Best
  BY DEF Inv, NamedInv, Searching, Found
<1> QED  BY <1>1, <1>2, <1>3

\* The environment after an assignment to one of its variables.
LEMMA SetInstall ==
    ASSUME NEW e \in Environment, NEW p \in Prefix
    PROVE  /\ [e EXCEPT !.install = p] \in Environment
           /\ [e EXCEPT !.install = p].install = p
           /\ [e EXCEPT !.install = p].hint = e.hint
           /\ [e EXCEPT !.install = p].path = e.path
BY DEF Environment

\* Writing LD_LIBRARY_PATH leaves the other settings alone.
LEMMA SetPath ==
    ASSUME NEW e \in Environment, NEW q \in Seq(Prefix)
    PROVE  /\ [e EXCEPT !.path = q] \in Environment
           /\ [e EXCEPT !.path = q].path = q
           /\ [e EXCEPT !.path = q].hint = e.hint
           /\ [e EXCEPT !.path = q].install = e.install
BY DEF Environment

\* The prefix found is exported: all threads find the same.
LEMMA ExportStep ==
    ASSUME Inv, NEW t \in Thread, Export(t)
    PROVE  Inv'
<1> DEFINE p == Head(todo[t])
<1>1. /\ at[t] = "export" /\ at' = [at EXCEPT ![t] = "read"]
      /\ env' = [env EXCEPT !.install = p]
      /\ UNCHANGED <<libs, given, loaded, todo, seen, result, raced>>
      /\ at \in [Thread -> {"idle", "search", "export", "read", "write", "import"}]
      /\ env \in Environment
  BY DEF Export, Goto, Inv, TypeOK
<1>2. /\ p \in Prefix /\ p # None
      /\ ~raced => p = Best /\ (env.install # None => env.install = p)
  BY <1>1, FoundBest, PrefixFacts DEF Found
<1>3. /\ env' \in Environment /\ env'.install = p
      /\ env'.hint = env.hint /\ env'.path = env.path
  <2> HIDE DEF p
  <2> QED  BY <1>1, <1>2, SetInstall
<1>4. ThreadInv(t) /\ given.install = None /\ InOrder(t)
  BY <1>1 DEF Inv, SearchInv, ThreadInv, Searching
<1>5. at'[t] = "read" /\ \A u \in Thread \ {t} : at'[u] = at[u]
  BY <1>1
<1>6. TypeOK'
  <2>1. at' \in [Thread -> {"idle", "search", "export", "read", "write", "import"}]
    BY <1>1
  <2> QED  BY <1>1, <1>3, <2>1 DEF Inv, TypeOK
<1>7. EnvInv'
  BY <1>1, <1>3, <1>4 DEF Inv, EnvInv
<1>8. SearchInv'
  <2>1. InOrder(t)'
    BY <1>1, <1>3, <1>4 DEF InOrder, Empty
  <2>2. ThreadInv(t)'
    BY <1>1, <1>2, <1>3, <1>4, <1>5, <2>1 DEF ThreadInv, Found
  <2> HIDE DEF p
  <2> QED  BY <1>1, <1>2, <1>3, <1>5, <2>2, OthersStand
<1>9. NamedInv'
  <2>1. ~raced => Best' = p
    BY <1>1, <1>2, <1>3 DEF Best
  <2>2. ~raced /\ loaded \in Prefix => env'.install = loaded
    BY <1>2, <1>3, PrefixFacts DEF Inv, NamedInv
  <2> HIDE DEF p
  <2> QED  BY <1>1, <1>2, <1>3, <1>5, <2>1, <2>2 DEF NamedInv
<1> QED  BY <1>6, <1>7, <1>8, <1>9 DEF Inv

\* LD_LIBRARY_PATH is read.
LEMMA ReadPathStep ==
    ASSUME Inv, NEW t \in Thread, ReadPath(t)
    PROVE  Inv'
<1> DEFINE p == Head(todo[t])
<1>1. /\ at[t] = "read" /\ UNCHANGED <<libs, given, env, loaded, todo, result, raced>>
      /\ at \in [Thread -> {"idle", "search", "export", "read", "write", "import"}]
      /\ seen \in [Thread -> Seq(Prefix)]
  BY DEF ReadPath, Inv, TypeOK
<1>2. \/ /\ at' = [at EXCEPT ![t] = "import"] /\ UNCHANGED seen
         /\ Listed(p, env.path)
      \/ /\ at' = [at EXCEPT ![t] = "write"] /\ seen' = [seen EXCEPT ![t] = env.path]
         /\ ~Listed(p, env.path)
  BY DEF ReadPath, Goto
<1>3. /\ ThreadInv(t) /\ given.install = None /\ InOrder(t)
      /\ env.install # None
  BY <1>1 DEF Inv, SearchInv, ThreadInv, Searching
<1>4. /\ env.path \in Seq(Prefix)
      /\ ~raced => env.install = p
  BY <1>1, <1>3, FoundBest, EnvTyped DEF Inv, Found
<1>5. \A u \in Thread \ {t} : at'[u] = at[u] /\ seen'[u] = seen[u]
  BY <1>1, <1>2
<1>6. EnvInv'
  BY <1>1 DEF Inv, EnvInv
<1>7. CASE /\ at' = [at EXCEPT ![t] = "import"] /\ UNCHANGED seen
           /\ Listed(p, env.path)
  <2>1. at'[t] = "import"
    BY <1>1, <1>7
  <2>2. TypeOK'
    <3>1. at' \in [Thread -> {"idle", "search", "export", "read", "write", "import"}]
      BY <1>1, <1>7
    <3> QED  BY <1>1, <1>7, <3>1 DEF Inv, TypeOK
  <2>3. ThreadInv(t)'
    BY <2>1 DEF ThreadInv, Searching, Found
  <2>4. SearchInv'
    BY <1>1, <1>5, <2>3, OthersStand
  <2>5. ~raced => Contains(env.path, env.install)
    BY <1>4, <1>7 DEF Listed
  <2>6. NamedInv'
    <3> HIDE DEF p
    <3> QED  BY <1>1, <1>3, <1>5, <2>1, <2>5 DEF Inv, NamedInv, Best, Searching
  <2> QED  BY <1>6, <2>2, <2>4, <2>6 DEF Inv
<1>8. CASE /\ at' = [at EXCEPT ![t] = "write"]
           /\ seen' = [seen EXCEPT ![t] = env.path]
           /\ ~Listed(p, env.path)
  <2>1. at'[t] = "write" /\ seen'[t] = env.path
    BY <1>1, <1>8
  <2>2. TypeOK'
    <3>1. /\ at' \in [Thread -> {"idle", "search", "export", "read", "write", "import"}]
          /\ seen' \in [Thread -> Seq(Prefix)]
      BY <1>1, <1>4, <1>8
    <3> QED  BY <1>1, <3>1 DEF Inv, TypeOK
  <2>3. ThreadInv(t)'
    <3>1. InOrder(t)'
      BY <1>1, <1>3 DEF InOrder, Empty
    <3>2. Ends(given.path, env.path) /\ IsInjective(env.path)
      BY DEF Inv, EnvInv
    <3>3. todo[t] # <<>> /\ (~raced => p \in libs)
      BY <1>1, <1>3 DEF ThreadInv, Found
    <3> QED  BY <1>1, <1>3, <1>8, <2>1, <3>1, <3>2, <3>3 DEF ThreadInv
  <2>4. SearchInv'
    BY <1>1, <1>5, <2>3, OthersStand
  <2>5. NamedInv'
    <3> HIDE DEF p
    <3> QED  BY <1>1, <1>3, <1>5, <2>1 DEF Inv, NamedInv, Best, Searching
  <2> QED  BY <1>6, <2>2, <2>4, <2>5 DEF Inv
<1> QED  BY <1>2, <1>7, <1>8

\* LD_LIBRARY_PATH is written, from what this thread read of it.
LEMMA WritePathStep ==
    ASSUME Inv, NEW t \in Thread, WritePath(t)
    PROVE  Inv'
<1> DEFINE p == Head(todo[t])
           q == Prepend(p, seen[t])
<1>1. /\ at[t] = "write" /\ at' = [at EXCEPT ![t] = "import"]
      /\ env' = [env EXCEPT !.path = q]
      /\ UNCHANGED <<libs, given, loaded, todo, seen, result, raced>>
      /\ at \in [Thread -> {"idle", "search", "export", "read", "write", "import"}]
      /\ env \in Environment /\ seen[t] \in Seq(Prefix)
  BY DEF WritePath, Goto, Inv, TypeOK
<1>2. /\ given.install = None /\ env.install # None
      /\ Ends(given.path, seen[t]) /\ IsInjective(seen[t]) /\ ~Listed(p, seen[t])
  BY <1>1 DEF Inv, SearchInv, ThreadInv, Searching
<1>3. /\ p \in Prefix
      /\ ~raced => env.install = p
  BY <1>1, <1>2, FoundBest DEF Found
<1>4. given.path \in Seq(Prefix)
  BY EnvTyped DEF Inv
<1>5. /\ q \in Seq(Prefix) /\ Ends(given.path, q) /\ Contains(q, p) /\ IsInjective(q)
  <2>1. q \in Seq(Prefix) /\ Ends(given.path, q)
    <3> HIDE DEF p
    <3> QED  BY <1>1, <1>2, <1>3, <1>4, EndsPrepended
  <2>2. Contains(q, p) /\ IsInjective(q)
    <3> HIDE DEF p
    <3> QED  BY <1>1, <1>2, <1>3, PrependedOnce
  <2> QED  BY <2>1, <2>2
<1>6. /\ env' \in Environment /\ env'.path = q
      /\ env'.hint = env.hint /\ env'.install = env.install
  <2> HIDE DEF q
  <2> QED  BY <1>1, <1>5, SetPath
<1>7. at'[t] = "import" /\ \A u \in Thread \ {t} : at'[u] = at[u]
  BY <1>1
<1>8. TypeOK'
  <2>1. at' \in [Thread -> {"idle", "search", "export", "read", "write", "import"}]
    BY <1>1
  <2> QED  BY <1>1, <1>6, <2>1 DEF Inv, TypeOK
<1>9. EnvInv'
  <2> HIDE DEF p, q
  <2> QED  BY <1>1, <1>2, <1>5, <1>6 DEF EnvInv
<1>10. SearchInv'
  <2>1. ThreadInv(t)'
    BY <1>7 DEF ThreadInv, Searching, Found
  <2> HIDE DEF p, q
  <2> QED  BY <1>1, <1>6, <1>7, <2>1, OthersStand
<1>11. NamedInv'
  <2>1. ~raced => Contains(env'.path, env'.install)
    <3> HIDE DEF p, q
    <3> QED  BY <1>3, <1>5, <1>6
  <2>2. Best' = Best
    BY <1>1, <1>6 DEF Best
  <2> HIDE DEF p, q
  <2> QED  BY <1>1, <1>2, <1>6, <1>7, <2>1, <2>2 DEF Inv, NamedInv, Searching
<1> QED  BY <1>8, <1>9, <1>10, <1>11 DEF Inv

\* The import, which may load the library that is exported.
LEMMA ImportStep ==
    ASSUME Inv, NEW t \in Thread, Import(t)
    PROVE  Inv'
<1>1. /\ at[t] = "import" /\ at' = [at EXCEPT ![t] = "idle"]
      /\ UNCHANGED <<libs, given, env, todo, seen, raced>>
      /\ at \in [Thread -> {"idle", "search", "export", "read", "write", "import"}]
      /\ result \in [Thread -> {"none", "raised", "oqs", "PqKemUnavailable"}]
      /\ loaded \in Prefix \cup {None, Own}
      /\ result' = [result EXCEPT ![t] =
                      IF loaded' = None THEN "PqKemUnavailable" ELSE "oqs"]
  BY DEF Import, Goto, Finish, Inv, TypeOK
<1>2. env.install \in Prefix \cup {None} /\ libs \subseteq Prefix
  BY EnvTyped, PrefixAssumption DEF Inv, TypeOK
<1>3. loaded' = loaded \/ loaded' \in {None, Own} \/ loaded' = env.install
  BY DEF Import, Loads
<1>4. \A u \in Thread \ {t} : at'[u] = at[u]
  BY <1>1
<1>5. at'[t] = "idle"
  BY <1>1
<1>6. TypeOK'
  <2>1. /\ at' \in [Thread -> {"idle", "search", "export", "read", "write", "import"}]
        /\ result' \in [Thread -> {"none", "raised", "oqs", "PqKemUnavailable"}]
    BY <1>1
  <2>2. loaded' \in Prefix \cup {None, Own}
    BY <1>1, <1>2, <1>3
  <2> QED  BY <1>1, <2>1, <2>2 DEF Inv, TypeOK
<1>7. EnvInv'
  BY <1>1 DEF Inv, EnvInv
<1>8. SearchInv'
  <2>1. ThreadInv(t)'
    BY <1>5 DEF ThreadInv, Searching, Found
  <2> QED  BY <1>1, <1>4, <2>1, OthersStand
<1>9. NamedInv'
  <2>1. Best' = Best
    BY <1>1 DEF Best
  <2>2. ~raced /\ loaded' \in Prefix => env.install = loaded'
    BY <1>3, PrefixFacts DEF Inv, NamedInv
  <2> QED  BY <1>1, <1>4, <1>5, <2>1, <2>2 DEF Inv, NamedInv, Searching
<1> QED  BY <1>6, <1>7, <1>8, <1>9 DEF Inv

\* A liboqs comes or goes: no thread is in a call, or history has it.
LEMMA MovedStep ==
    ASSUME Inv, NEW p \in Writable, Install(p) \/ Uninstall(p)
    PROVE  Inv'
<1>1. /\ libs' \subseteq libs \cup {p} /\ raced' = (raced \/ ~Quiet)
      /\ UNCHANGED <<given, env, loaded, at, todo, seen, result>>
  BY DEF Install, Uninstall
<1>2. \/ raced' = TRUE
      \/ raced' = FALSE /\ raced = FALSE /\ \A t \in Thread : at[t] = "idle"
  BY <1>1 DEF Quiet, Inv, TypeOK
<1>3. TypeOK'
  BY <1>1, <1>2 DEF Inv, TypeOK
<1>4. EnvInv'
  BY <1>1 DEF Inv, EnvInv
<1>5. SearchInv'
  <2> SUFFICES ASSUME NEW t \in Thread PROVE ThreadInv(t)'
    BY DEF SearchInv
  <2>1. ThreadInv(t)
    BY DEF Inv, SearchInv
  <2>2. CASE at[t] = "idle"
    BY <1>1, <2>2 DEF ThreadInv, Searching, Found
  <2>3. CASE at[t] # "idle"
    <3>1. raced'
      BY <1>2, <2>3
    <3>2. InOrder(t) => InOrder(t)'
      BY <1>1, <3>1 DEF InOrder, Empty
    <3> QED  BY <1>1, <2>1, <3>1, <3>2 DEF ThreadInv
  <2> QED  BY <2>2, <2>3
<1>6. NamedInv'
  BY <1>1, <1>2 DEF Inv, NamedInv, Searching
<1> QED  BY <1>3, <1>4, <1>5, <1>6 DEF Inv

\* Every action keeps the invariant.
LEMMA NextInv == Inv /\ [Next]_vars => Inv'
<1> SUFFICES ASSUME Inv, [Next]_vars PROVE Inv'
  OBVIOUS
<1>1. ASSUME NEW t \in Thread, Enter(t) PROVE Inv'
  BY <1>1, EnterStep
<1>2. ASSUME NEW t \in Thread, Refuse(t) \/ Forbidden(t) \/ Take(t) \/ NoneLeft(t)
      PROVE  Inv'
  BY <1>2, LookStep
<1>3. ASSUME NEW t \in Thread, Export(t) PROVE Inv'
  BY <1>3, ExportStep
<1>4. ASSUME NEW t \in Thread, ReadPath(t) PROVE Inv'
  BY <1>4, ReadPathStep
<1>5. ASSUME NEW t \in Thread, WritePath(t) PROVE Inv'
  BY <1>5, WritePathStep
<1>6. ASSUME NEW t \in Thread, Import(t) PROVE Inv'
  BY <1>6, ImportStep
<1>7. ASSUME NEW p \in Writable, Install(p) \/ Uninstall(p) PROVE Inv'
  BY <1>7, MovedStep
<1>8. ASSUME NEW e \in Configured \cup {env}, Replace(e) PROVE Inv'
  <2>1. e \in Environment /\ IsInjective(e.path)
    BY ConfiguredAssumption DEF Inv, TypeOK, EnvInv
  <2> QED  BY <1>8, <2>1, FreshProcess DEF Replace, Inv, TypeOK
<1>9. ASSUME UNCHANGED vars PROVE Inv'
  <2>1. TypeOK'
    BY <1>9 DEF vars, Inv, TypeOK
  <2>2. EnvInv' /\ SearchInv' /\ NamedInv'
    BY <1>9 DEF vars, Inv, EnvInv, SearchInv, ThreadInv, InOrder, Empty, NamedInv, Best
  <2> QED  BY <2>1, <2>2 DEF Inv
<1> QED  BY <1>1, <1>2, <1>3, <1>4, <1>5, <1>6, <1>7, <1>8, <1>9 DEF Next

----------------------------------------------------------------------------
(* Theorems. *)

\* In every process of the chain and at every step of its threads: the search, the
\* environment and the import stand to each other as the invariant says.
THEOREM InvHolds == Spec => []Inv
<1>1. Init => Inv
  BY InitInv
<1>2. Inv /\ [Next]_vars => Inv'
  BY NextInv
<1> QED  BY <1>1, <1>2, PTL DEF Spec

\* The variables keep the shape the code gives them: what is exported and prepended
\* is always one of the prefixes, and oqs imports one, its own or none.
THEOREM TypeCorrect == Spec => []TypeOK
<1>1. Inv => TypeOK
  BY DEF Inv
<1> QED  BY <1>1, InvHolds, PTL

\* Any number of threads in ensure_liboqs_path, over any chain of processes, leave
\* an exported OQS_INSTALL_PATH alone and LD_LIBRARY_PATH as the end of what is
\* there now: a thread writes back what it read, which ended that way too.
THEOREM OperatorSettingsStand == Spec => []SettingsStand
<1>1. Inv => SettingsStand
  <2> SUFFICES ASSUME Inv PROVE SettingsStand
    OBVIOUS
  <2>1. given.path \in Seq(Prefix) /\ env.path \in Seq(Prefix)
    BY EnvTyped DEF Inv
  <2>2. Ends(given.path, env.path) /\ (given.install # None => env.install = given.install)
    BY DEF Inv, EnvInv
  <2>3. IsSuffix(given.path, env.path)
    BY <2>1, <2>2, EndsIsSuffix
  <2> QED  BY <2>2, <2>3 DEF SettingsStand
<1> QED  BY <1>1, InvHolds, PTL

\* LD_LIBRARY_PATH lists no directory twice, though a thread writes it from a value
\* that others may have replaced since it read it.
THEOREM SearchPathStaysShort == Spec => []PathStaysShort
<1>1. Inv => PathStaysShort
  BY DEF Inv, EnvInv, PathStaysShort
<1> QED  BY <1>1, InvHolds, PTL

\* A child process is led by its environment to the library its parent has loaded.
THEOREM ChildrenAreLedToIt == Spec => []LoadedIsNamed
<1>1. Inv => LoadedIsNamed
  <2> SUFFICES ASSUME Inv, loaded \in Prefix, ~raced
               PROVE  /\ env.install = loaded
                      /\ given.install = None /\ Quiet => Contains(env.path, loaded)
    BY DEF LoadedIsNamed
  <2>1. env.install = loaded /\ env.install # None
    BY PrefixFacts DEF Inv, NamedInv
  <2>2. given.install = None /\ Quiet => Contains(env.path, loaded)
    BY <2>1 DEF Inv, NamedInv, Quiet
  <2> QED  BY <2>1, <2>2
<1> QED  BY <1>1, InvHolds, PTL

\* _import_oqs leaves oqs to itself only when no candidate holds a liboqs, or the
\* prefix that was exported holds none any more, or one was moved during a call.
THEOREM LeftToItselfOnlyIfNoneFound == Spec => LeftToItselfExplained
<1>1. Inv /\ [Next]_vars =>
        [loaded = None /\ loaded' = Own =>
           \/ env.install \notin libs \cup {None}
           \/ {env.hint, Home, UsrLocal, Usr} \cap libs = {}
           \/ raced]_vars
  <2> SUFFICES ASSUME Inv, Next, loaded = None, loaded' = Own, ~raced,
                      env.install \in libs \cup {None}
               PROVE  {env.hint, Home, UsrLocal, Usr} \cap libs = {}
    BY DEF vars
  <2>1. None # Own /\ Own \notin Prefix /\ None \notin Prefix
    BY PrefixFacts
  <2>2. libs \subseteq Prefix /\ env.install \in Prefix \cup {None}
    BY EnvTyped, PrefixAssumption DEF Inv, TypeOK
  <2>3. PICK t \in Thread : Import(t)
    BY <2>1 DEF Next, Enter, Refuse, Forbidden, Take, NoneLeft, Export, ReadPath,
                WritePath, Install, Uninstall, Replace
  <2>4. at[t] = "import" /\ env.install = None
    BY <2>1, <2>2, <2>3 DEF Import, Loads
  <2> QED  BY <2>4 DEF Inv, NamedInv
<1> QED  BY <1>1, InvHolds, PTL DEF Spec, LeftToItselfExplained

\* Whatever threads search at once, the prefix exported is the first of the
\* candidates that held a liboqs, unless one was moved during a call.
THEOREM FirstOfTheCandidatesWins == Spec => BestIsExported
<1>1. Inv /\ [Next]_vars =>
        [given' = given /\ env.install = None /\ env'.install # None =>
           \/ env'.install = env.hint
           \/ env.hint \notin libs /\ (Home \in libs => env'.install = Home)
           \/ raced]_vars
  <2> SUFFICES ASSUME Inv, Next, given' = given, env.install = None,
                      env'.install # None, ~raced
               PROVE  \/ env'.install = env.hint
                      \/ env.hint \notin libs /\ (Home \in libs => env'.install = Home)
    BY DEF vars
  <2>1. env \in Environment
    BY DEF Inv, TypeOK
  <2>2. ASSUME NEW t \in Thread, WritePath(t) PROVE FALSE
    <3>1. env'.install = env.install
      BY <2>1, <2>2 DEF WritePath, Environment
    <3> QED  BY <3>1
  <2>3. ASSUME NEW e \in Configured \cup {env}, Replace(e) PROVE FALSE
    <3>1. given' = env'
      BY <2>3 DEF Replace
    <3> QED  BY <3>1 DEF Inv, EnvInv
  <2>4. PICK t \in Thread : Export(t)
    BY <2>2, <2>3 DEF Next, Enter, Refuse, Forbidden, Take, NoneLeft, ReadPath,
                      Import, Install, Uninstall
  <2>5. at[t] = "export" /\ env' = [env EXCEPT !.install = Head(todo[t])]
    BY <2>4 DEF Export
  <2>6. Head(todo[t]) \in Prefix /\ Head(todo[t]) = Best
    BY <2>5, FoundBest DEF Found
  <2>7. env'.install = Best
    BY <2>1, <2>5, <2>6, SetInstall
  <2> QED  BY <2>7 DEF Best
<1> QED  BY <1>1, InvHolds, PTL DEF Spec, BestIsExported

============================================================================
