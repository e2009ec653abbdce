----------------------------- MODULE LiboqsPath -----------------------------
(***************************************************************************)
(* How src/sk_pqc/pqkem.py finds and imports its liboqs backend, which it  *)
(* does again at the start of every KEM operation.                         *)
(*                                                                         *)
(* The threads of a process call it and share os.environ and the import;   *)
(* liboqs is installed and removed under them; the process is replaced, by *)
(* one that inherits its environment or by one an operator configured.     *)
(* The oqs package is external: it loads the library OQS_INSTALL_PATH      *)
(* names, or else one it finds or builds by itself, or none.               *)
(***************************************************************************)
EXTENDS Sequences, SequencesExt

CONSTANTS
    Thread,
    Home, UsrLocal, Usr,   \* the prefixes ~/.local, /usr/local and /usr
    Other,                 \* other prefixes operators name
    Unreadable,            \* those whose lib directory may not be searched
    None, Own,             \* no prefix; oqs's own find or build
    Writable,              \* prefixes where liboqs comes and goes
    Configured             \* environments operators start processes with

Prefix == {Home, UsrLocal, Usr} \cup Other

\* The variables read and written (SK_PQC_LIBOQS by the prefix it implies, the
\* parent of the file's parent; LD_LIBRARY_PATH as prefixes of its directories),
\* and whether Path.home() returns.
Environment == [install : Prefix \cup {None}, hint : Prefix \cup {None},
                path : Seq(Prefix), home : BOOLEAN]

ASSUME NoneAssumption == None \notin Prefix /\ Own \notin Prefix /\ None # Own
ASSUME PrefixAssumption == Writable \subseteq Prefix /\ Unreadable \subseteq Other
ASSUME ConfiguredAssumption ==
    Configured \subseteq Environment /\ \A e \in Configured : IsInjective(e.path)

VARIABLES
    libs,        \* prefixes with a liboqs under lib
    given,       \* the environment the process was started with
    env,         \* its environment now
    loaded,      \* the prefix of the liboqs the process imported, Own or None
    at,          \* where each thread is in _import_oqs
    todo,        \* candidates it has not refused yet
    seen,        \* LD_LIBRARY_PATH as it read it
    result,      \* how its last call ended
    raced        \* history: liboqs came or went during a call of this process

vars == <<libs, given, env, loaded, at, todo, seen, result, raced>>

----------------------------------------------------------------------------
\* Variant: the prefixes of the system come first.
CandidatesSystemFirst(hint) ==
    <<UsrLocal, Usr, Home>> \o (IF hint = None THEN <<>> ELSE <<hint>>)

\* Variant: the hint is put first even if there is none.
CandidatesUnfiltered(hint) == <<hint, Home, UsrLocal, Usr>>

\* Variant: a hint is all that is tried.
CandidatesHintAlone(hint) ==
    IF hint = None THEN <<Home, UsrLocal, Usr>> ELSE <<hint>>

\* The candidates, best first.
Candidates(hint) ==
    (IF hint = None THEN <<>> ELSE <<hint>>) \o <<Home, UsrLocal, Usr>>

\* Variant: a value that is already exported does not count.
SetAnew(install) == FALSE

\* ensure_liboqs_path returns at once.
Set(install) == install # None

\* Variant: the directory is put in front in any case.
ListedNever(prefix, path) == FALSE

\* The directory of a prefix is in LD_LIBRARY_PATH.
Listed(prefix, path) == Contains(path, prefix)

\* Variant: the directory replaces what was there.
PrependAlone(prefix, path) == <<prefix>>

Prepend(prefix, path) == <<prefix>> \o path

\* What oqs may load; the package may be missing, too.
Loads(install) == {None} \cup (IF install \in libs THEN {install} ELSE {Own})

----------------------------------------------------------------------------
Goto(t, place) == at' = [at EXCEPT ![t] = place]

Finish(t, how) == Goto(t, "idle") /\ result' = [result EXCEPT ![t] = how]

\* _import_oqs calls ensure_liboqs_path, which lists the candidates.  Without a
\* home directory Path.home() raises, whatever the hint.
Enter(t) ==
    /\ at[t] = "idle"
    /\ IF Set(env.install) THEN Goto(t, "import") /\ UNCHANGED <<todo, result>>
       ELSE IF env.home
       THEN Goto(t, "search") /\ todo' = [todo EXCEPT ![t] = Candidates(env.hint)]
              /\ UNCHANGED result
       ELSE Finish(t, "raised") /\ UNCHANGED todo
    /\ UNCHANGED <<libs, given, env, loaded, seen, raced>>

\* One candidate is looked into.  exists() raises where it may not search.
Refuse(t) ==
    /\ at[t] = "search" /\ todo[t] # <<>>
    /\ Head(todo[t]) \notin Unreadable \cup libs
    /\ todo' = [todo EXCEPT ![t] = Tail(@)]
    /\ UNCHANGED <<libs, given, env, loaded, at, seen, result, raced>>

Forbidden(t) ==
    /\ at[t] = "search" /\ todo[t] # <<>>
    /\ Head(todo[t]) \in Unreadable
    /\ Finish(t, "raised")
    /\ UNCHANGED <<libs, given, env, loaded, todo, seen, raced>>

Take(t) ==
    /\ at[t] = "search" /\ todo[t] # <<>>
    /\ Head(todo[t]) \in libs \ Unreadable
    /\ Goto(t, "export")
    /\ UNCHANGED <<libs, given, env, loaded, todo, seen, result, raced>>

NoneLeft(t) ==
    /\ at[t] = "search" /\ todo[t] = <<>>
    /\ Goto(t, "import")
    /\ UNCHANGED <<libs, given, env, loaded, todo, seen, result, raced>>

\* The prefix found is exported; LD_LIBRARY_PATH is read, and written after.
Export(t) ==
    /\ at[t] = "export"
    /\ env' = [env EXCEPT !.install = Head(todo[t])]
    /\ Goto(t, "read")
    /\ UNCHANGED <<libs, given, loaded, todo, seen, result, raced>>

ReadPath(t) ==
    /\ at[t] = "read"
    /\ IF Listed(Head(todo[t]), env.path)
       THEN Goto(t, "import") /\ UNCHANGED seen
       ELSE Goto(t, "write") /\ seen' = [seen EXCEPT ![t] = env.path]
    /\ UNCHANGED <<libs, given, env, loaded, todo, result, raced>>

WritePath(t) ==
    /\ at[t] = "write"
    /\ env' = [env EXCEPT !.path = Prepend(Head(todo[t]), seen[t])]
    /\ Goto(t, "import")
    /\ UNCHANGED <<libs, given, loaded, todo, seen, result, raced>>

\* The import, under Python's import lock: what has been imported is kept, and
\* what has failed is tried again by the next call.
Import(t) ==
    /\ at[t] = "import"
    /\ IF loaded # None THEN UNCHANGED loaded ELSE loaded' \in Loads(env.install)
    /\ Finish(t, IF loaded' = None THEN "PqKemUnavailable" ELSE "oqs")
    /\ UNCHANGED <<libs, given, env, todo, seen, raced>>

----------------------------------------------------------------------------
Quiet == \A t \in Thread : at[t] = "idle"

\* liboqs is installed under a prefix, or removed.
Install(p) ==
    /\ p \notin libs
    /\ libs' = libs \cup {p}
    /\ raced' = (raced \/ ~Quiet)
    /\ UNCHANGED <<given, env, loaded, at, todo, seen, result>>

Uninstall(p) ==
    /\ p \in libs
    /\ libs' = libs \ {p}
    /\ raced' = (raced \/ ~Quiet)
    /\ UNCHANGED <<given, env, loaded, at, todo, seen, result>>

InEveryThread(x) == [t \in Thread |-> x]

\* The process ends, at any point, and another starts in environment e.
Replace(e) ==
    /\ given' = e /\ env' = e
    /\ loaded' = None
    /\ at' = InEveryThread("idle") /\ result' = InEveryThread("none")
    /\ todo' = InEveryThread(<<>>) /\ seen' = InEveryThread(<<>>)
    /\ raced' = FALSE
    /\ UNCHANGED libs

Init ==
    /\ libs \in SUBSET Writable
    /\ given \in Configured /\ env = given
    /\ loaded = None
    /\ at = InEveryThread("idle") /\ result = InEveryThread("none")
    /\ todo = InEveryThread(<<>>) /\ seen = InEveryThread(<<>>)
    /\ raced = FALSE

Next ==
    \/ \E t \in Thread : Enter(t)
    \/ \E t \in Thread : Refuse(t)
    \/ \E t \in Thread : Forbidden(t)
    \/ \E t \in Thread : Take(t)
    \/ \E t \in Thread : NoneLeft(t)
    \/ \E t \in Thread : Export(t)
    \/ \E t \in Thread : ReadPath(t)
    \/ \E t \in Thread : WritePath(t)
    \/ \E t \in Thread : Import(t)
    \/ \E p \in Writable : Install(p)
    \/ \E p \in Writable : Uninstall(p)
    \/ \E e \in Configured \cup {env} : Replace(e)

Spec == Init /\ [][Next]_vars

----------------------------------------------------------------------------
(* Properties. *)

\* Every variable has the shape the code gives it.
TypeOK ==
    /\ libs \subseteq Writable
    /\ {given, env} \subseteq Environment
    /\ loaded \in Prefix \cup {None, Own}
    /\ at \in [Thread -> {"idle", "search", "export", "read", "write", "import"}]
    /\ todo \in [Thread -> Seq(Prefix)]
    /\ seen \in [Thread -> Seq(Prefix)]
    /\ result \in [Thread -> {"none", "raised", "oqs", "PqKemUnavailable"}]
    /\ raced \in BOOLEAN

\* Whatever the threads interleave and over any chain of processes, the operator's
\* settings stand: an exported install path is not replaced, and LD_LIBRARY_PATH
\* keeps what it held at the start behind what is put in front.
SettingsStand ==
    /\ given.install # None => env.install = given.install
    /\ IsSuffix(given.path, env.path)

\* LD_LIBRARY_PATH, handed from process to child without end, lists no directory
\* twice.
PathStaysShort == IsInjective(env.path)

\* The environment a child inherits leads it to the library its parent has loaded:
\* OQS_INSTALL_PATH names it and, unless that was exported before, LD_LIBRARY_PATH
\* lists it once every call has returned.  Not so if oqs came by one itself, or liboqs was moved during a call.
LoadedIsNamed ==
    loaded \in Prefix /\ ~raced =>
      /\ env.install = loaded
      /\ given.install = None /\ Quiet => Contains(env.path, loaded)

\* A prebuilt liboqs is used, so oqs is left to itself only if a prefix was
\* exported that holds none any more, or if no prefix the operator named nor any
\* of the standard ones held one, or if liboqs was moved during a call.
LeftToItselfExplained ==
    [][loaded = None /\ loaded' = Own =>
         \/ env.install \notin libs \cup {None}
         \/ {env.hint, Home, UsrLocal, Usr} \cap libs = {}
         \/ raced]_vars

\* What a search exports is the best there is: unless liboqs was moved during a
\* call, no prefix the operator hinted at held one when another was exported, and
\* none of the user's own when one of the system was.
BestIsExported ==
    [][given' = given /\ env.install = None /\ env'.install # None =>
         \/ env'.install = env.hint
         \/ env.hint \notin libs /\ (Home \in libs => env'.install = Home)
         \/ raced]_vars

============================================================================
