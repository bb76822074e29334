----------------------------- MODULE SearchIndex -----------------------------
(***************************************************************************)
(* How the API's threads search the clip index (clip_search.py): the file  *)
(* is read into a cache under a lock, known by its modification time and   *)
(* size, and the first search of a payload turns its embeddings into a     *)
(* matrix under another lock and takes them out of the payload.  The       *)
(* weekly job moves the file away and copies the next one in while they do.*)
(***************************************************************************)
EXTENDS Naturals, Sequences, SequenceTheorems, TLAPS

CONSTANTS Threads,
          LastVersion,   \* the indexes are 1 .. LastVersion in the order they are published
          MaxSearches    \* bound: searches that are begun

VARIABLES version,   \* the index that is published, or being published
          file,      \* "whole", "part" of it, or "absent"
          payloads,  \* every payload read: its version, embeddings and runtime
          cache,     \* the payload in the cache, or None, and its signature
          loader,    \* the thread that holds _SEARCH_INDEX_CACHE_LOCK
          builder,   \* the thread that holds _SEARCH_RUNTIME_LOCK
          thread,    \* what each thread is doing
          searches

vars == <<version, file, payloads, cache, loader, builder, thread, searches>>

None == 0
Idle == [pc |-> "idle", since |-> None, signature |-> <<None, "absent">>,
         found |-> <<None, "absent">>, attempt |-> 1, payload |-> None, matrix |-> "none"]

Signature == <<version, file>>

\* The last index that was whole.
Published == IF file = "part" THEN version - 1 ELSE version

Init ==
    /\ version = 1 /\ file = "whole"
    /\ payloads = <<>>
    /\ cache = [payload |-> None, signature |-> <<None, "absent">>]
    /\ loader = None /\ builder = None
    /\ thread = [t \in Threads |-> Idle]
    /\ searches = 0

\* mv of the directory, cp of the next one
Publish ==
    /\ \/ file = "whole" /\ version < LastVersion /\ file' = "absent" /\ UNCHANGED version
       \/ file = "absent" /\ file' = "part" /\ version' = version + 1
       \/ file = "part" /\ file' = "whole" /\ UNCHANGED version
    /\ UNCHANGED <<payloads, cache, loader, builder, thread, searches>>

Goto(t, pc) == thread' = [thread EXCEPT ![t].pc = pc]
EndSearch(t) == thread' = [thread EXCEPT ![t] = Idle]

-----------------------------------------------------------------------------
(* read_search_index.                                                      *)

Begin(t) ==
    /\ thread[t].pc = "idle" /\ searches < MaxSearches
    /\ searches' = searches + 1
    /\ thread' = [thread EXCEPT ![t].pc = "enter", ![t].since = Published]
    /\ UNCHANGED <<version, file, payloads, cache, loader, builder>>

Enter(t) ==
    /\ thread[t].pc = "enter" /\ loader = None
    /\ loader' = t /\ Goto(t, "stat")
    /\ UNCHANGED <<version, file, payloads, cache, builder, searches>>

Stat(t) ==
    /\ thread[t].pc = "stat"
    /\ \/ /\ file = "absent"
          /\ cache' = [cache EXCEPT !.payload = None]
          /\ loader' = None /\ EndSearch(t)
       \/ /\ file # "absent" /\ cache.payload # None /\ cache.signature = Signature
          /\ loader' = None
          /\ thread' = [thread EXCEPT ![t].pc = "search", ![t].payload = cache.payload]
          /\ UNCHANGED cache
       \/ /\ file # "absent" /\ (cache.payload = None \/ cache.signature # Signature)
          /\ thread' = [thread EXCEPT ![t].pc = "read", ![t].signature = Signature]
          /\ UNCHANGED <<cache, loader>>
    /\ UNCHANGED <<version, file, payloads, builder, searches>>

Read(t) ==
    /\ thread[t].pc = "read"
    /\ IF file = "absent" THEN loader' = None /\ EndSearch(t)
       ELSE /\ thread' = [thread EXCEPT ![t].pc = "check", ![t].found = Signature]
            /\ UNCHANGED loader
    /\ UNCHANGED <<version, file, payloads, cache, builder, searches>>

\* Mutant: whatever was read is kept under the signature that the file has now.
CheckLate(t) ==
    LET found == thread[t].found IN
    /\ thread[t].pc = "check"
    /\ loader' = None
    /\ IF found[2] = "part" THEN EndSearch(t) /\ UNCHANGED <<payloads, cache>>
       ELSE /\ payloads' = Append(payloads, [version |-> found[1], embeddings |-> TRUE,
                                             matrix |-> "none"])
            /\ cache' = [payload |-> Len(payloads'), signature |-> Signature]
            /\ thread' = [thread EXCEPT ![t].pc = "search", ![t].payload = Len(payloads')]
    /\ UNCHANGED <<version, file, builder, searches>>

\* The file must not have changed since its signature was taken; it is tried twice.
Check(t) ==
    LET found == thread[t].found
        changed == Signature # thread[t].signature
    IN  /\ thread[t].pc = "check"
        /\ \/ /\ changed /\ thread[t].attempt = 1
              /\ thread' = [thread EXCEPT ![t].pc = "stat", ![t].attempt = 2]
              /\ UNCHANGED <<payloads, cache, loader>>
           \/ /\ IF changed THEN thread[t].attempt = 2 ELSE found[2] = "part"
              /\ loader' = None /\ EndSearch(t)
              /\ UNCHANGED <<payloads, cache>>
           \/ /\ ~changed /\ found[2] = "whole"
              /\ payloads' = Append(payloads, [version |-> found[1], embeddings |-> TRUE,
                                               matrix |-> "none"])
              /\ cache' = [payload |-> Len(payloads'), signature |-> thread[t].signature]
              /\ loader' = None
              /\ thread' = [thread EXCEPT ![t].pc = "search", ![t].payload = Len(payloads')]
        /\ UNCHANGED <<version, file, builder, searches>>

-----------------------------------------------------------------------------
(* search_clips: _vector_search_runtime looks for the runtime without the  *)
(* lock and again with it.                                                 *)

Look(t) ==
    LET matrix == payloads[thread[t].payload].matrix IN
    /\ thread[t].pc = "search"
    /\ IF matrix = "none" THEN Goto(t, "lock")
       ELSE thread' = [thread EXCEPT ![t].pc = "answer", ![t].matrix = matrix]
    /\ UNCHANGED <<version, file, payloads, cache, loader, builder, searches>>

Lock(t) ==
    LET matrix == payloads[thread[t].payload].matrix IN
    /\ thread[t].pc = "lock" /\ builder = None
    /\ IF matrix = "none" THEN builder' = t /\ Goto(t, "build")
       ELSE /\ thread' = [thread EXCEPT ![t].pc = "answer", ![t].matrix = matrix]
            /\ UNCHANGED builder
    /\ UNCHANGED <<version, file, payloads, cache, loader, searches>>

\* _build_vector_search_runtime: clips without an embedding have no row in the matrix.
Build(t) ==
    LET p == thread[t].payload
        matrix == IF payloads[p].embeddings THEN "full" ELSE "empty"
    IN  /\ thread[t].pc = "build"
        /\ thread' = [thread EXCEPT ![t].pc = "pop", ![t].matrix = matrix]
        /\ payloads' = [payloads EXCEPT ![p].matrix = matrix]
        /\ UNCHANGED <<version, file, cache, loader, builder, searches>>

Pop(t) ==
    /\ thread[t].pc = "pop"
    /\ payloads' = [payloads EXCEPT ![thread[t].payload].embeddings = FALSE]
    /\ builder' = None /\ Goto(t, "answer")
    /\ UNCHANGED <<version, file, cache, loader, searches>>

Answer(t) ==
    /\ thread[t].pc = "answer" /\ EndSearch(t)
    /\ UNCHANGED <<version, file, payloads, cache, loader, builder, searches>>

SearchNext ==
    \/ Publish
    \/ \E t \in Threads : \/ Begin(t) \/ Enter(t) \/ Stat(t) \/ Read(t) \/ Check(t)
                         \/ Look(t) \/ Lock(t) \/ Build(t) \/ Pop(t) \/ Answer(t)

SearchSpec == Init /\ [][SearchNext]_vars

-----------------------------------------------------------------------------
\* A search that is answered was made over all the clips of one published index,
\* and of none older than the one that was published when it began, whatever the
\* other searches and the publication did meanwhile (search_clips).
AnswersAreWhole ==
    \A t \in Threads : thread[t].pc = "answer" =>
        /\ thread[t].matrix = "full"
        /\ payloads[thread[t].payload].version >= thread[t].since

-----------------------------------------------------------------------------
(* That it holds for any number of threads, indexes and searches.          *)

FileStates == {"whole", "absent", "part"}
Matrices   == {"none", "full", "empty"}
Loading    == {"stat", "read", "check"}
Building   == {"build", "pop"}
Searching  == Building \cup {"search", "lock", "answer"}
Signatures == Nat \X FileStates
Pcs        == {"idle", "enter", "stat", "read", "check",
               "search", "lock", "build", "pop", "answer"}
States     == [pc : Pcs, since : Nat, signature : Signatures, found : Signatures,
               attempt : Nat, payload : Nat, matrix : Matrices]

SearchTypes ==
    /\ version \in Nat \ {0} /\ file \in FileStates
    /\ payloads \in Seq([version : Nat, embeddings : BOOLEAN, matrix : Matrices])
    /\ cache \in [payload : Nat, signature : Signatures]
    /\ thread \in [Threads -> States]

\* A lock is held by the thread that is where it is needed.
LocksAreHeld ==
    \A t \in Threads : /\ thread[t].pc \in Loading <=> loader = t
                       /\ thread[t].pc \in Building <=> builder = t

\* The embeddings are there until the matrix is.
PayloadsAreRight ==
    \A p \in 1 .. Len(payloads) :
        /\ payloads[p].matrix # "empty"
        /\ payloads[p].matrix = "none" => payloads[p].embeddings

CacheIsRight ==
    cache.payload # None =>
        /\ cache.payload \in 1 .. Len(payloads)
        /\ payloads[cache.payload].version = cache.signature[1]

\* Signatures in the order in which the file has them.
Age(s) == 3 * s[1] + (CASE s[2] = "part" -> 0 [] s[2] = "whole" -> 1 [] OTHER -> 2)

\* A file whose signature is still the same was the same when it was read.
LoadIsRight(t) ==
    /\ thread[t].since <= Published
    /\ thread[t].pc \in {"read", "check"} =>
          /\ thread[t].since <= thread[t].signature[1]
          /\ Age(thread[t].signature) <= Age(Signature)
    /\ thread[t].pc = "check" =>
          /\ Age(thread[t].signature) <= Age(thread[t].found)
          /\ Age(thread[t].found) <= Age(Signature)

SearchIsRight(t) ==
    LET p == thread[t].payload IN
    /\ thread[t].pc \in Searching =>
          p \in 1 .. Len(payloads) /\ thread[t].since <= payloads[p].version
    /\ thread[t].pc = "build" => payloads[p].matrix = "none"
    /\ thread[t].pc = "pop" => payloads[p].matrix = "full"
    /\ thread[t].pc \in {"pop", "answer"} => thread[t].matrix = "full"

SearchInv ==
    /\ SearchTypes /\ LocksAreHeld /\ PayloadsAreRight /\ CacheIsRight
    /\ \A t \in Threads : LoadIsRight(t) /\ SearchIsRight(t)

\* The age of a signature is a number.
LEMMA AgeIsInt == ASSUME NEW s \in Signatures PROVE Age(s) \in Int
  BY DEF Signatures, Age

\* Two signatures of one age are the same.
LEMMA AgesDiffer ==
    ASSUME NEW s \in Signatures, NEW r \in Signatures, Age(s) = Age(r)
    PROVE  s = r
  <1>1. /\ s = <<s[1], s[2]>> /\ s[1] \in Nat /\ s[2] \in FileStates
        /\ r = <<r[1], r[2]>> /\ r[1] \in Nat /\ r[2] \in FileStates
    BY DEF Signatures
  <1>2. s[1] = r[1] /\ s[2] = r[2]
    BY <1>1 DEF Age, FileStates
  <1> QED
    BY <1>1, <1>2

\* What a step of thread t must see to: the rest stays as it is.
LEMMA OneThreadMoves ==
    ASSUME SearchInv, NEW t \in Threads, UNCHANGED <<version, file>>,
           SearchTypes', LocksAreHeld', PayloadsAreRight', CacheIsRight',
           LoadIsRight(t)', SearchIsRight(t)',
           \A u \in Threads \ {t} : thread'[u] = thread[u],
           \A p \in 1 .. Len(payloads) :
              /\ p \in 1 .. Len(payloads')
              /\ payloads'[p].version = payloads[p].version,
           \A u \in Threads \ {t} : thread[u].pc \in Building =>
              LET p == thread[u].payload IN payloads'[p].matrix = payloads[p].matrix
    PROVE  SearchInv'
  <1>1. ASSUME NEW u \in Threads
        PROVE  LoadIsRight(u)' /\ SearchIsRight(u)'
    <2>1. CASE u = t
      BY <2>1
    <2>2. CASE u # t
      <3>1. LoadIsRight(u)'
        BY <2>2 DEF SearchInv, LoadIsRight, Published, Signature
      <3>2. SearchIsRight(u)'
        BY <2>2 DEF SearchInv, SearchIsRight, Searching, Building
      <3> QED
        BY <3>1, <3>2
    <2> QED
      BY <2>1, <2>2
  <1> QED
    BY <1>1 DEF SearchInv

\* The same for a step that leaves the payloads alone.
LEMMA PayloadsStay ==
    ASSUME SearchInv, NEW t \in Threads, UNCHANGED <<version, file, payloads>>,
           SearchTypes', LocksAreHeld', CacheIsRight',
           LoadIsRight(t)', SearchIsRight(t)',
           \A u \in Threads \ {t} : thread'[u] = thread[u]
    PROVE  SearchInv'
  <1>1. PayloadsAreRight'
    BY DEF SearchInv, PayloadsAreRight
  <1>2. \A p \in 1 .. Len(payloads) :
            p \in 1 .. Len(payloads') /\ payloads'[p].version = payloads[p].version
    OBVIOUS
  <1>3. \A u \in Threads \ {t} : thread[u].pc \in Building =>
            LET p == thread[u].payload IN payloads'[p].matrix = payloads[p].matrix
    OBVIOUS
  <1> QED
    BY <1>1, <1>2, <1>3, OneThreadMoves

\* The invariant holds at first ...
LEMMA SearchInvInit == ASSUME None \notin Threads, Init PROVE SearchInv
  <1>1. SearchTypes
    <2>1. payloads \in Seq([version : Nat, embeddings : BOOLEAN, matrix : Matrices])
      BY EmptySeq DEF Init
    <2> QED
      BY <2>1 DEF Init, SearchTypes, Idle, None, Signatures, FileStates, Matrices, States, Pcs
  <1>2. LocksAreHeld
    BY DEF Init, LocksAreHeld, Idle, Loading, Building
  <1>3. Len(payloads) = 0
    BY EmptySeq DEF Init
  <1>4. PayloadsAreRight /\ CacheIsRight
    BY <1>3 DEF Init, PayloadsAreRight, CacheIsRight
  <1>5. ASSUME NEW t \in Threads PROVE LoadIsRight(t) /\ SearchIsRight(t)
    BY DEF Init, LoadIsRight, SearchIsRight, Idle, Searching, Building, Published, None
  <1> QED
    BY <1>1, <1>2, <1>4, <1>5 DEF SearchInv

\* ... and the publication of the next index keeps it.
LEMMA PublishStep == ASSUME SearchInv, Publish PROVE SearchInv'
  <1>1. /\ version' \in Nat \ {0} /\ file' \in FileStates
        /\ UNCHANGED <<payloads, cache, loader, builder, thread>>
    BY DEF SearchInv, SearchTypes, Publish, FileStates
  <1>2. SearchTypes'
    BY <1>1 DEF SearchInv, SearchTypes
  <1>3. LocksAreHeld' /\ PayloadsAreRight' /\ CacheIsRight'
    BY <1>1 DEF SearchInv, LocksAreHeld, PayloadsAreRight, CacheIsRight
  <1>4. Published <= Published' /\ Age(Signature) <= Age(Signature)'
    BY DEF SearchInv, SearchTypes, Publish, Published, Age, Signature, FileStates
  <1>5. ASSUME NEW t \in Threads PROVE LoadIsRight(t)' /\ SearchIsRight(t)'
    <2>1. SearchIsRight(t)'
      BY <1>1 DEF SearchInv, SearchIsRight
    <2>2. /\ thread[t].since \in Nat /\ thread'[t] = thread[t]
          /\ thread[t].signature \in Signatures /\ thread[t].found \in Signatures
          /\ Signature \in Signatures /\ Signature' \in Signatures
          /\ Published \in Int /\ Published' \in Int
      BY <1>1 DEF SearchInv, SearchTypes, States, Published, Signature, Signatures
    <2>4. /\ Age(thread[t].signature) \in Int /\ Age(thread[t].found) \in Int
          /\ Age(Signature) \in Int /\ Age(Signature)' \in Int
      BY <2>2, AgeIsInt
    <2>3. LoadIsRight(t)'
      BY <1>4, <2>2, <2>4 DEF SearchInv, LoadIsRight
    <2> QED
      BY <2>1, <2>3
  <1> QED
    BY <1>2, <1>3, <1>5 DEF SearchInv

\* A thread is given its new state.
LEMMA ThreadIsSet ==
    ASSUME SearchTypes, NEW t \in Threads, NEW th \in States,
           thread' = [thread EXCEPT ![t] = th]
    PROVE  /\ thread' \in [Threads -> States] /\ thread'[t] = th
           /\ \A u \in Threads \ {t} : thread'[u] = thread[u]
  BY DEF SearchTypes

\* A lock is taken only when it is free, and given back.
LEMMA LocksStay ==
    ASSUME None \notin Threads, SearchInv, NEW t \in Threads,
           \A u \in Threads \ {t} : thread'[u] = thread[u],
           IF thread'[t].pc \in Loading
           THEN loader' = t /\ (thread[t].pc \in Loading \/ loader = None)
           ELSE loader' = IF thread[t].pc \in Loading THEN None ELSE loader,
           IF thread'[t].pc \in Building
           THEN builder' = t /\ (thread[t].pc \in Building \/ builder = None)
           ELSE builder' = IF thread[t].pc \in Building THEN None ELSE builder
    PROVE  LocksAreHeld'
  <1>1. \A u \in Threads : u = t \/ (u # t /\ thread'[u] = thread[u])
    OBVIOUS
  <1>2. ASSUME NEW u \in Threads PROVE thread'[u].pc \in Loading <=> loader' = u
    BY <1>1 DEF SearchInv, LocksAreHeld
  <1>3. ASSUME NEW u \in Threads PROVE thread'[u].pc \in Building <=> builder' = u
    BY <1>1 DEF SearchInv, LocksAreHeld
  <1> QED
    BY <1>2, <1>3 DEF LocksAreHeld

\* A search begins with the index of this moment.
LEMMA BeginStep ==
    ASSUME None \notin Threads, SearchInv, NEW t \in Threads, Begin(t) PROVE SearchInv'
  <1>9. thread[t].pc = "idle"
    BY DEF Begin
  <1>1. UNCHANGED <<version, file, payloads, cache, loader, builder>>
    BY DEF Begin
  <1> DEFINE th == [thread[t] EXCEPT !.pc = "enter", !.since = Published]
  <1>3. Published \in Nat
    BY DEF SearchInv, SearchTypes, Published
  <1>8. th \in States /\ thread' = [thread EXCEPT ![t] = th]
    BY <1>3 DEF SearchInv, SearchTypes, States, Pcs, Begin
  <1>2. /\ thread' \in [Threads -> States] /\ thread'[t] = th
        /\ \A u \in Threads \ {t} : thread'[u] = thread[u]
    BY <1>8, ThreadIsSet DEF SearchInv
  <1>4. SearchTypes'
    BY <1>1, <1>2 DEF SearchInv, SearchTypes
  <1>5. LocksAreHeld'
    <2>1. /\ thread'[t].pc \notin Loading /\ thread[t].pc \notin Loading
          /\ thread'[t].pc \notin Building /\ thread[t].pc \notin Building
      BY <1>2, <1>9 DEF SearchInv, SearchTypes, States, Loading, Building
    <2> QED
      BY <1>1, <1>2, <2>1, LocksStay
  <1>6. CacheIsRight'
    BY <1>1 DEF SearchInv, CacheIsRight
  <1>7. LoadIsRight(t)' /\ SearchIsRight(t)'
    BY <1>1, <1>2, <1>3 DEF SearchTypes, SearchInv, LoadIsRight, SearchIsRight, Searching,
                           Building, Published
  <1> QED
    BY <1>1, <1>2, <1>4, <1>5, <1>6, <1>7, PayloadsStay

\* The cache is locked.
LEMMA EnterStep ==
    ASSUME None \notin Threads, SearchInv, NEW t \in Threads, Enter(t) PROVE SearchInv'
  <1>1. UNCHANGED <<version, file, payloads, cache, builder>> /\ loader = None /\ loader' = t
    BY DEF Enter
  <1> DEFINE th == [thread[t] EXCEPT !.pc = "stat"]
  <1>3. thread[t].pc = "enter" /\ th \in States /\ thread' = [thread EXCEPT ![t] = th]
    BY DEF Enter, Goto, SearchInv, SearchTypes, States, Pcs
  <1>2. /\ thread' \in [Threads -> States] /\ thread'[t] = th /\ thread[t].pc = "enter"
        /\ \A u \in Threads \ {t} : thread'[u] = thread[u]
    BY <1>3, ThreadIsSet DEF SearchInv
  <1>4. SearchTypes'
    BY <1>1, <1>2 DEF SearchInv, SearchTypes
  <1>5. LocksAreHeld'
    <2>1. /\ thread'[t].pc \in Loading /\ thread[t].pc \notin Loading
          /\ thread'[t].pc \notin Building /\ thread[t].pc \notin Building
      BY <1>2 DEF SearchInv, SearchTypes, States, Loading, Building
    <2> QED
      BY <1>1, <1>2, <2>1, LocksStay
  <1>6. CacheIsRight'
    BY <1>1 DEF SearchInv, CacheIsRight
  <1>7. LoadIsRight(t)' /\ SearchIsRight(t)'
    BY <1>1, <1>2 DEF SearchTypes, SearchInv, LoadIsRight, SearchIsRight, Searching,
                           Building, Published
  <1> QED
    BY <1>1, <1>2, <1>4, <1>5, <1>6, <1>7, PayloadsStay

\* A search that is over, with or without an answer, holds nothing any more.
LEMMA EndsIsFine ==
    ASSUME None \notin Threads, SearchInv, NEW t \in Threads, EndSearch(t),
           UNCHANGED <<version, file, payloads>>,
           cache' \in [payload : Nat, signature : Signatures], CacheIsRight',
           loader' = (IF thread[t].pc \in Loading THEN None ELSE loader),
           builder' = builder, thread[t].pc \notin Building
    PROVE  SearchInv'
  <1>1. Idle \in States
    BY DEF Idle, None, Signatures, FileStates, Matrices, States, Pcs
  <1>2. /\ thread' = [thread EXCEPT ![t] = Idle]
        /\ thread'[t] = Idle
        /\ \A u \in Threads \ {t} : thread'[u] = thread[u]
    BY DEF EndSearch, SearchInv, SearchTypes
  <1>3. SearchTypes'
    BY <1>1, <1>2 DEF SearchInv, SearchTypes
  <1>4. Idle.pc \notin Loading /\ Idle.pc \notin Building
    BY DEF Idle, Loading, Building
  <1>5. LocksAreHeld'
    BY <1>2, <1>4 DEF SearchInv, LocksAreHeld
  <1>6. LoadIsRight(t)' /\ SearchIsRight(t)'
    BY <1>2 DEF SearchInv, SearchTypes, LoadIsRight, SearchIsRight, Idle, Searching,
                Building, Published, None
  <1> QED
    BY <1>2, <1>3, <1>5, <1>6, PayloadsStay

\* The cached payload has the signature of the file, or the file is to be read.
LEMMA StatStep ==
    ASSUME None \notin Threads, SearchInv, NEW t \in Threads, Stat(t) PROVE SearchInv'
  <1>1. /\ UNCHANGED <<version, file, payloads, builder>> /\ thread[t].pc = "stat"
        /\ thread[t].pc \in Loading /\ thread[t].pc \notin Building /\ loader = t
    BY DEF Stat, SearchInv, LocksAreHeld, Loading, Building
  <1>2. CASE cache' = [cache EXCEPT !.payload = None] /\ loader' = None /\ EndSearch(t)
    <2>1. cache' \in [payload : Nat, signature : Signatures] /\ CacheIsRight'
      BY <1>2 DEF SearchInv, SearchTypes, CacheIsRight, None
    <2> QED
      BY <1>1, <1>2, <2>1, EndsIsFine
  <1>3. CASE /\ file # "absent" /\ cache.payload # None /\ cache.signature = Signature
             /\ loader' = None
             /\ thread' = [thread EXCEPT ![t].pc = "search", ![t].payload = cache.payload]
             /\ UNCHANGED cache
    <2> DEFINE th == [thread[t] EXCEPT !.pc = "search", !.payload = cache.payload]
    <2>8. th \in States /\ thread' = [thread EXCEPT ![t] = th]
      BY <1>3 DEF SearchInv, SearchTypes, States, Pcs
    <2>1. /\ thread' \in [Threads -> States] /\ thread'[t] = th
          /\ \A u \in Threads \ {t} : thread'[u] = thread[u]
      BY <2>8, ThreadIsSet DEF SearchInv
    <2>2. SearchTypes'
      BY <1>1, <1>3, <2>1 DEF SearchInv, SearchTypes
    <2>3. LocksAreHeld'
      <3>1. thread'[t].pc \notin Loading /\ thread'[t].pc \notin Building
        BY <2>1 DEF SearchInv, SearchTypes, States, Loading, Building
      <3> QED
        BY <1>1, <1>3, <2>1, <3>1, LocksStay
    <2>4. CacheIsRight'
      BY <1>1, <1>3 DEF SearchInv, CacheIsRight
    <2>5. /\ cache.payload \in 1 .. Len(payloads)
          /\ payloads[cache.payload].version = version
      BY <1>3 DEF SearchInv, CacheIsRight, Signature
    <2>6. thread[t].since <= version
      BY DEF SearchInv, SearchTypes, States, LoadIsRight, Published
    <2>7. LoadIsRight(t)' /\ SearchIsRight(t)'
      BY <1>1, <2>1, <2>5, <2>6 DEF SearchTypes, SearchInv, LoadIsRight, SearchIsRight,
                                    Searching, Building, Published
    <2> QED
      BY <1>1, <2>1, <2>2, <2>3, <2>4, <2>7, PayloadsStay
  <1>4. CASE /\ file # "absent" /\ UNCHANGED <<cache, loader>>
             /\ thread' = [thread EXCEPT ![t].pc = "read", ![t].signature = Signature]
    <2> DEFINE th == [thread[t] EXCEPT !.pc = "read", !.signature = Signature]
    <2>2. Signature \in Signatures
      BY DEF SearchInv, SearchTypes, Signature, Signatures
    <2>10. th \in States /\ thread' = [thread EXCEPT ![t] = th]
      BY <1>4, <2>2 DEF SearchInv, SearchTypes, States, Pcs
    <2>1. /\ thread' \in [Threads -> States] /\ thread'[t] = th
          /\ \A u \in Threads \ {t} : thread'[u] = thread[u]
      BY <2>10, ThreadIsSet DEF SearchInv
    <2>3. SearchTypes'
      BY <1>1, <1>4, <2>1 DEF SearchInv, SearchTypes
    <2>4. LocksAreHeld'
      <3>1. thread'[t].pc \in Loading /\ thread'[t].pc \notin Building
        BY <2>1 DEF SearchInv, SearchTypes, States, Loading, Building
      <3> QED
        BY <1>1, <1>4, <2>1, <3>1, LocksStay
    <2>5. CacheIsRight'
      BY <1>1, <1>4 DEF SearchInv, CacheIsRight
    <2>6. Age(Signature) \in Int /\ Signature[1] = version
      BY <2>2, AgeIsInt DEF Signature
    <2>7. thread[t].since <= version
      BY DEF SearchInv, SearchTypes, States, LoadIsRight, Published
    <2>8. LoadIsRight(t)'
      BY <1>1, <2>1, <2>6, <2>7 DEF SearchInv, SearchTypes, LoadIsRight, Published, Signature
    <2>9. SearchIsRight(t)'
      BY <2>1 DEF SearchInv, SearchTypes, SearchIsRight, Searching, Building
    <2> QED
      BY <1>1, <2>1, <2>3, <2>4, <2>5, <2>8, <2>9, PayloadsStay
  <1> QED
    BY <1>2, <1>3, <1>4 DEF Stat

\* What is read is as old as the file is now.
LEMMA ReadStep ==
    ASSUME None \notin Threads, SearchInv, NEW t \in Threads, Read(t) PROVE SearchInv'
  <1>1. /\ UNCHANGED <<version, file, payloads, cache, builder>> /\ thread[t].pc = "read"
        /\ thread[t].pc \in Loading /\ thread[t].pc \notin Building /\ loader = t
    BY DEF Read, SearchInv, LocksAreHeld, Loading, Building
  <1>2. CacheIsRight'
    BY <1>1 DEF SearchInv, CacheIsRight
  <1>3. CASE file = "absent"
    <2>1. loader' = None /\ EndSearch(t)
      BY <1>3 DEF Read
    <2> QED
      BY <1>1, <1>2, <2>1, EndsIsFine DEF SearchInv, SearchTypes
  <1>4. CASE file # "absent"
    <2> DEFINE th == [thread[t] EXCEPT !.pc = "check", !.found = Signature]
    <2>2. Signature \in Signatures
      BY DEF SearchInv, SearchTypes, Signature, Signatures
    <2>9. thread[t] \in States
      BY DEF SearchInv, SearchTypes
    <2>10. th \in States
      BY <2>2, <2>9 DEF States, Pcs
    <2>11. thread' = [thread EXCEPT ![t] = th] /\ loader' = loader
      BY <1>4 DEF Read, SearchInv, SearchTypes
    <2>8. th \in States /\ thread' = [thread EXCEPT ![t] = th] /\ loader' = loader
      BY <2>10, <2>11
    <2>1. /\ thread' \in [Threads -> States] /\ thread'[t] = th /\ loader' = loader
          /\ \A u \in Threads \ {t} : thread'[u] = thread[u]
      BY <2>8, ThreadIsSet DEF SearchInv
    <2>3. SearchTypes'
      BY <1>1, <2>1 DEF SearchInv, SearchTypes
    <2>4. LocksAreHeld'
      <3>1. thread'[t].pc \in Loading /\ thread'[t].pc \notin Building
        BY <2>1 DEF SearchInv, SearchTypes, States, Loading, Building
      <3> QED
        BY <1>1, <2>1, <3>1, LocksStay
    <2>5. Age(Signature) \in Int
      BY <2>2, AgeIsInt
    <2>6. LoadIsRight(t)'
      <3>1. /\ thread'[t].pc = "check" /\ thread'[t].found = Signature
            /\ thread'[t].since = thread[t].since
            /\ thread'[t].signature = thread[t].signature
        BY <2>1 DEF SearchInv, SearchTypes, States
      <3>2. Published' = Published /\ Signature' = Signature
        BY <1>1 DEF Published, Signature
      <3> QED
        BY <1>1, <2>5, <3>1, <3>2 DEF SearchInv, LoadIsRight
    <2>7. SearchIsRight(t)'
      BY <2>1 DEF SearchInv, SearchTypes, SearchIsRight, Searching, Building
    <2> QED
      BY <1>1, <1>2, <2>1, <2>3, <2>4, <2>6, <2>7, PayloadsStay
  <1> QED
    BY <1>3, <1>4

\* A payload is kept only if the file is the one whose signature was taken.
LEMMA CheckStep ==
    ASSUME None \notin Threads, SearchInv, NEW t \in Threads, Check(t) PROVE SearchInv'
  <1> DEFINE found   == thread[t].found
             changed == Signature # thread[t].signature
  <1>1. /\ UNCHANGED <<version, file, builder>> /\ thread[t].pc = "check"
        /\ thread[t].pc \in Loading /\ thread[t].pc \notin Building /\ loader = t
    BY DEF Check, SearchInv, LocksAreHeld, Loading, Building
  <1>2. CASE /\ thread' = [thread EXCEPT ![t].pc = "stat", ![t].attempt = 2]
             /\ UNCHANGED <<payloads, cache, loader>>
    <2> DEFINE th == [thread[t] EXCEPT !.pc = "stat", !.attempt = 2]
    <2>1. th \in States /\ thread' = [thread EXCEPT ![t] = th]
      BY <1>2 DEF SearchInv, SearchTypes, States, Pcs
    <2>2. /\ thread' \in [Threads -> States] /\ thread'[t] = th
          /\ \A u \in Threads \ {t} : thread'[u] = thread[u]
      BY <2>1, ThreadIsSet DEF SearchInv
    <2>3. SearchTypes'
      BY <1>1, <1>2, <2>2 DEF SearchInv, SearchTypes
    <2>4. thread'[t].pc = "stat" /\ thread'[t].since = thread[t].since
      BY <2>2 DEF SearchInv, SearchTypes, States
    <2>5. thread'[t].pc \in Loading /\ thread'[t].pc \notin Building
      BY <2>4 DEF Loading, Building
    <2>6. LocksAreHeld'
      BY <1>1, <1>2, <2>2, <2>5, LocksStay
    <2>7. CacheIsRight'
      BY <1>1, <1>2 DEF SearchInv, CacheIsRight
    <2>8. LoadIsRight(t)' /\ SearchIsRight(t)'
      BY <1>1, <2>4 DEF SearchInv, LoadIsRight, SearchIsRight, Searching, Building, Published
    <2> QED
      BY <1>1, <1>2, <2>2, <2>3, <2>6, <2>7, <2>8, PayloadsStay
  <1>3. CASE loader' = None /\ EndSearch(t) /\ UNCHANGED <<payloads, cache>>
    <2>1. cache' \in [payload : Nat, signature : Signatures] /\ CacheIsRight'
      BY <1>3 DEF SearchInv, SearchTypes, CacheIsRight
    <2> QED
      BY <1>1, <1>3, <2>1, EndsIsFine
  <1>4. CASE /\ ~changed /\ found[2] = "whole"
             /\ payloads' = Append(payloads, [version |-> found[1], embeddings |-> TRUE,
                                              matrix |-> "none"])
             /\ cache' = [payload |-> Len(payloads'), signature |-> thread[t].signature]
             /\ loader' = None
             /\ thread' = [thread EXCEPT ![t].pc = "search", ![t].payload = Len(payloads')]
    <2> DEFINE n   == Len(payloads) + 1
               new == [version |-> found[1], embeddings |-> TRUE, matrix |-> "none"]
               th  == [thread[t] EXCEPT !.pc = "search", !.payload = n]
               PS  == [version : Nat, embeddings : BOOLEAN, matrix : Matrices]
    <2>1. /\ thread[t] \in States /\ found \in Signatures
          /\ thread[t].signature \in Signatures /\ Signature \in Signatures
      BY DEF SearchInv, SearchTypes, States, Signature, Signatures
    <2>2. found = thread[t].signature
      <3>1. /\ Age(thread[t].signature) <= Age(found) /\ Age(found) <= Age(Signature)
            /\ Age(thread[t].signature) = Age(Signature)
        BY <1>1, <1>4 DEF SearchInv, LoadIsRight
      <3>2. Age(thread[t].signature) \in Int /\ Age(found) \in Int /\ Age(Signature) \in Int
        BY <2>1, AgeIsInt
      <3> QED
        BY <2>1, <3>1, <3>2, AgesDiffer
    <2>3. new \in PS
      BY <2>1 DEF Signatures, Matrices
    <2>4. /\ payloads \in Seq(PS) /\ payloads' \in Seq(PS)
          /\ Len(payloads') = n /\ n \in Nat /\ payloads'[n] = new
          /\ \A p \in 1 .. Len(payloads) : p \in 1 .. n /\ payloads'[p] = payloads[p]
      BY <1>4, <2>3, AppendProperties, LenProperties DEF SearchInv, SearchTypes
    <2>5. th \in States /\ thread' = [thread EXCEPT ![t] = th]
      BY <1>4, <2>1, <2>4 DEF SearchInv, SearchTypes, States, Pcs
    <2>6. /\ thread' \in [Threads -> States] /\ thread'[t] = th
          /\ \A u \in Threads \ {t} : thread'[u] = thread[u]
      BY <2>5, ThreadIsSet DEF SearchInv
    <2>7. cache' \in [payload : Nat, signature : Signatures]
      BY <1>4, <2>1, <2>4
    <2>8. SearchTypes'
      BY <1>1, <2>4, <2>6, <2>7 DEF SearchInv, SearchTypes
    <2>9. /\ thread'[t].pc = "search" /\ thread'[t].payload = n
          /\ thread'[t].since = thread[t].since
      BY <2>1, <2>6 DEF States
    <2>10. thread'[t].pc \notin Loading /\ thread'[t].pc \notin Building
      BY <2>9 DEF Loading, Building
    <2>11. LocksAreHeld'
      BY <1>1, <1>4, <2>6, <2>10, LocksStay
    <2>12. PayloadsAreRight'
      <3>1. \A p \in 1 .. n : p \in 1 .. Len(payloads) \/ p = n
        BY <2>4
      <3>2. payloads'[n].matrix = "none" /\ payloads'[n].embeddings
        BY <2>4
      <3>3. \A p \in 1 .. Len(payloads) :
                /\ payloads'[p].matrix # "empty"
                /\ payloads'[p].matrix = "none" => payloads'[p].embeddings
        BY <2>4 DEF SearchInv, PayloadsAreRight
      <3>4. Len(payloads') = n
        BY <2>4
      <3> QED
        BY <3>1, <3>2, <3>3, <3>4 DEF PayloadsAreRight
    <2>13. CacheIsRight'
      BY <1>4, <2>2, <2>4 DEF CacheIsRight
    <2>14. thread[t].since <= found[1]
      BY <1>1, <2>2 DEF SearchInv, LoadIsRight
    <2>15. LoadIsRight(t)' /\ SearchIsRight(t)'
      BY <1>1, <2>4, <2>9, <2>14 DEF SearchInv, LoadIsRight, SearchIsRight, Published
    <2>16. \A p \in 1 .. Len(payloads) :
              p \in 1 .. Len(payloads') /\ payloads'[p].version = payloads[p].version
      BY <2>4
    <2>17. \A u \in Threads \ {t} : thread[u].pc \in Building =>
              LET p == thread[u].payload IN payloads'[p].matrix = payloads[p].matrix
      BY <2>4 DEF SearchInv, SearchIsRight, Searching
    <2> QED
      BY <1>1, <2>6, <2>8, <2>11, <2>12, <2>13, <2>15, <2>16, <2>17, OneThreadMoves
  <1> QED
    BY <1>2, <1>3, <1>4 DEF Check

\* The steps of a search that change no payload.
LEMMA LookStep ==
    ASSUME None \notin Threads, SearchInv, NEW t \in Threads, Look(t) \/ Lock(t)
    PROVE  SearchInv'
  <1> DEFINE p      == thread[t].payload
             matrix == payloads[p].matrix
  <1>1. /\ UNCHANGED <<version, file, payloads, cache, loader>>
        /\ thread[t].pc \in {"search", "lock"}
    BY DEF Look, Lock
  <1>2. /\ thread[t].pc \notin Loading /\ thread[t].pc \notin Building
        /\ p \in 1 .. Len(payloads) /\ thread[t].since <= payloads[p].version
        /\ matrix # "empty" /\ matrix \in Matrices
    <2>1. thread[t].pc \in Searching
      BY <1>1 DEF Searching
    <2>2. p \in 1 .. Len(payloads) /\ thread[t].since <= payloads[p].version
      BY <2>1 DEF SearchInv, SearchIsRight
    <2>3. payloads[p] \in [version : Nat, embeddings : BOOLEAN, matrix : Matrices]
      BY <2>2, ElementOfSeq DEF SearchInv, SearchTypes
    <2>4. thread[t].pc \notin Loading /\ thread[t].pc \notin Building
      BY <1>1 DEF Loading, Building
    <2> QED
      BY <2>2, <2>3, <2>4 DEF SearchInv, PayloadsAreRight
  <1>3. CacheIsRight'
    BY <1>1 DEF SearchInv, CacheIsRight
  <1>4. ASSUME NEW pc \in {"lock", "build", "answer"},
               NEW m \in Matrices,
               thread' = [thread EXCEPT ![t] = [thread[t] EXCEPT !.pc = pc, !.matrix = m]],
               IF pc = "build" THEN builder = None /\ builder' = t ELSE builder' = builder,
               pc = "build" => matrix = "none",
               pc = "answer" => m = "full"
        PROVE  SearchInv'
    <2> DEFINE th == [thread[t] EXCEPT !.pc = pc, !.matrix = m]
    <2>8. thread[t] \in States
      BY DEF SearchInv, SearchTypes
    <2>1. th \in States
      BY <2>8 DEF States, Pcs
    <2>2. /\ thread' \in [Threads -> States] /\ thread'[t] = th
          /\ \A u \in Threads \ {t} : thread'[u] = thread[u]
      BY <1>4, <2>1, ThreadIsSet DEF SearchInv
    <2>3. SearchTypes'
      BY <1>1, <2>2 DEF SearchInv, SearchTypes
    <2>4. /\ thread'[t].pc = pc /\ thread'[t].matrix = m
          /\ thread'[t].since = thread[t].since /\ thread'[t].payload = p
      BY <2>2 DEF SearchInv, SearchTypes, States
    <2>5. thread'[t].pc \notin Loading /\ (thread'[t].pc \in Building <=> pc = "build")
      BY <2>4 DEF Loading, Building
    <2>6. LocksAreHeld'
      BY <1>1, <1>2, <1>4, <2>2, <2>5, LocksStay
    <2>7. LoadIsRight(t)' /\ SearchIsRight(t)'
      BY <1>1, <1>2, <1>4, <2>4 DEF SearchInv, LoadIsRight, SearchIsRight, Published
    <2> QED
      BY <1>1, <1>3, <2>2, <2>3, <2>6, <2>7, PayloadsStay
  <1>5. thread[t] \in States /\ thread[t].matrix \in Matrices
    BY DEF SearchInv, SearchTypes, States
  <1>6. CASE matrix = "none" /\ Look(t)
    <2>1. thread' = [thread EXCEPT ![t] = [thread[t] EXCEPT !.pc = "lock",
                                                            !.matrix = thread[t].matrix]]
      BY <1>5, <1>6 DEF Look, Goto, SearchInv, SearchTypes, States
    <2>2. builder' = builder
      BY <1>6 DEF Look
    <2> QED
      BY <1>4, <1>5, <2>1, <2>2
  <1>7. CASE matrix = "none" /\ Lock(t)
    <2>1. thread' = [thread EXCEPT ![t] = [thread[t] EXCEPT !.pc = "build",
                                                            !.matrix = thread[t].matrix]]
      BY <1>5, <1>7 DEF Lock, Goto, SearchInv, SearchTypes, States
    <2>2. builder = None /\ builder' = t
      BY <1>7 DEF Lock
    <2> QED
      BY <1>4, <1>5, <1>7, <2>1, <2>2
  <1>8. CASE matrix # "none"
    <2>1. thread' = [thread EXCEPT ![t] = [thread[t] EXCEPT !.pc = "answer",
                                                            !.matrix = matrix]]
      BY <1>8 DEF Look, Lock, SearchInv, SearchTypes
    <2>2. builder' = builder /\ matrix = "full"
      BY <1>2, <1>8 DEF Look, Lock, Matrices
    <2> QED
      BY <1>2, <1>4, <2>1, <2>2
  <1> QED
    BY <1>6, <1>7, <1>8

\* The matrix is built once, by the thread that holds the lock, from all embeddings.
LEMMA BuildStep ==
    ASSUME None \notin Threads, SearchInv, NEW t \in Threads, Build(t) PROVE SearchInv'
  <1> DEFINE p  == thread[t].payload
             th == [thread[t] EXCEPT !.pc = "pop", !.matrix = "full"]
             PS == [version : Nat, embeddings : BOOLEAN, matrix : Matrices]
  <1>1. /\ UNCHANGED <<version, file, cache, loader, builder>> /\ thread[t].pc = "build"
        /\ thread[t].pc \notin Loading /\ thread[t].pc \in Building /\ builder = t
        /\ thread[t].pc \in Searching
    BY DEF Build, SearchInv, LocksAreHeld, Loading, Building, Searching
  <1>2. /\ p \in 1 .. Len(payloads) /\ thread[t].since <= payloads[p].version
        /\ payloads[p].embeddings
    BY <1>1 DEF SearchInv, SearchIsRight, PayloadsAreRight
  <1>3. /\ payloads' = [payloads EXCEPT ![p].matrix = "full"]
        /\ thread' = [thread EXCEPT ![t].pc = "pop", ![t].matrix = "full"]
    BY <1>2 DEF Build
  <1>4. payloads \in Seq(PS) /\ payloads[p] \in PS
    BY <1>2, ElementOfSeq DEF SearchInv, SearchTypes
  <1>5. /\ payloads' \in Seq(PS) /\ Len(payloads') = Len(payloads)
        /\ payloads'[p] = [payloads[p] EXCEPT !.matrix = "full"]
        /\ \A q \in 1 .. Len(payloads) : q # p => payloads'[q] = payloads[q]
    <2>1. [payloads[p] EXCEPT !.matrix = "full"] \in PS
      BY <1>4 DEF Matrices
    <2> DEFINE new == [payloads[p] EXCEPT !.matrix = "full"]
    <2>2. payloads' = [payloads EXCEPT ![p] = new]
      BY <1>2, <1>3, <1>4
    <2>3. new \in PS
      BY <2>1
    <2> HIDE DEF new, PS
    <2>4. /\ payloads' \in Seq(PS) /\ Len(payloads') = Len(payloads)
          /\ \A q \in 1 .. Len(payloads) :
                payloads'[q] = IF q = p THEN new ELSE payloads[q]
      BY <1>2, <1>4, <2>2, <2>3, ExceptSeq
    <2> QED
      BY <1>2, <2>4 DEF new
  <1>6. th \in States /\ thread' = [thread EXCEPT ![t] = th]
    BY <1>3 DEF SearchInv, SearchTypes, States, Pcs, Matrices
  <1>7. /\ thread' \in [Threads -> States] /\ thread'[t] = th
        /\ \A u \in Threads \ {t} : thread'[u] = thread[u]
    BY <1>6, ThreadIsSet DEF SearchInv
  <1>8. SearchTypes'
    BY <1>1, <1>5, <1>7 DEF SearchInv, SearchTypes
  <1>9. /\ thread'[t].pc = "pop" /\ thread'[t].matrix = "full"
        /\ thread'[t].since = thread[t].since /\ thread'[t].payload = p
    BY <1>7 DEF SearchInv, SearchTypes, States
  <1>10. LocksAreHeld'
    <2>1. thread'[t].pc \notin Loading /\ thread'[t].pc \in Building
      BY <1>9 DEF Loading, Building
    <2> QED
      BY <1>1, <1>7, <2>1, LocksStay
  <1>11. /\ payloads'[p].matrix = "full" /\ payloads'[p].embeddings
         /\ \A q \in 1 .. Len(payloads) : payloads'[q].version = payloads[q].version
    BY <1>2, <1>4, <1>5
  <1>12. PayloadsAreRight'
    BY <1>5, <1>11 DEF SearchInv, PayloadsAreRight
  <1>13. CacheIsRight'
    BY <1>1, <1>5, <1>11 DEF SearchInv, CacheIsRight
  <1>14. LoadIsRight(t)' /\ SearchIsRight(t)'
    <2>1. LoadIsRight(t)'
      BY <1>1, <1>9 DEF SearchInv, LoadIsRight, Published
    <2>2. payloads'[p].version = payloads[p].version
      BY <1>2, <1>11
    <2>3. SearchIsRight(t)'
      BY <1>2, <1>5, <1>9, <1>11, <2>2 DEF SearchIsRight
    <2> QED
      BY <2>1, <2>3
  <1>15. \A u \in Threads \ {t} : thread[u].pc \notin Building
    BY <1>1 DEF SearchInv, LocksAreHeld
  <1>16. \A q \in 1 .. Len(payloads) :
            q \in 1 .. Len(payloads') /\ payloads'[q].version = payloads[q].version
    BY <1>5, <1>11
  <1> QED
    BY <1>1, <1>7, <1>8, <1>10, <1>12, <1>13, <1>14, <1>15, <1>16, OneThreadMoves

\* The embeddings go when the matrix is there.
LEMMA PopStep ==
    ASSUME None \notin Threads, SearchInv, NEW t \in Threads, Pop(t) PROVE SearchInv'
  <1> DEFINE p  == thread[t].payload
             th == [thread[t] EXCEPT !.pc = "answer"]
             PS == [version : Nat, embeddings : BOOLEAN, matrix : Matrices]
  <1>1. /\ UNCHANGED <<version, file, cache, loader>> /\ thread[t].pc = "pop"
        /\ builder' = None
        /\ thread[t].pc \notin Loading /\ thread[t].pc \in Building /\ builder = t
        /\ thread[t].pc \in Searching
        /\ payloads' = [payloads EXCEPT ![p].embeddings = FALSE]
    BY DEF Pop, SearchInv, LocksAreHeld, Loading, Building, Searching
  <1>2. /\ p \in 1 .. Len(payloads) /\ thread[t].since <= payloads[p].version
        /\ payloads[p].matrix = "full" /\ thread[t].matrix = "full"
    BY <1>1 DEF SearchInv, SearchIsRight
  <1>3. payloads \in Seq(PS) /\ payloads[p] \in PS
    BY <1>2, ElementOfSeq DEF SearchInv, SearchTypes
  <1>4. /\ payloads' \in Seq(PS) /\ Len(payloads') = Len(payloads)
        /\ payloads'[p] = [payloads[p] EXCEPT !.embeddings = FALSE]
        /\ \A q \in 1 .. Len(payloads) : q # p => payloads'[q] = payloads[q]
    <2>1. [payloads[p] EXCEPT !.embeddings = FALSE] \in PS
      BY <1>3
    <2> DEFINE new == [payloads[p] EXCEPT !.embeddings = FALSE]
    <2>2. payloads' = [payloads EXCEPT ![p] = new]
      BY <1>1, <1>2, <1>3
    <2>3. new \in PS
      BY <2>1
    <2> HIDE DEF new, PS
    <2>4. /\ payloads' \in Seq(PS) /\ Len(payloads') = Len(payloads)
          /\ \A q \in 1 .. Len(payloads) :
                payloads'[q] = IF q = p THEN new ELSE payloads[q]
      BY <1>2, <1>3, <2>2, <2>3, ExceptSeq
    <2> QED
      BY <1>2, <2>4 DEF new
  <1>5. th \in States /\ thread' = [thread EXCEPT ![t] = th]
    BY DEF Pop, Goto, SearchInv, SearchTypes, States, Pcs
  <1>6. /\ thread' \in [Threads -> States] /\ thread'[t] = th
        /\ \A u \in Threads \ {t} : thread'[u] = thread[u]
    BY <1>5, ThreadIsSet DEF SearchInv
  <1>7. SearchTypes'
    BY <1>1, <1>4, <1>6 DEF SearchInv, SearchTypes
  <1>8. /\ thread'[t].pc = "answer" /\ thread'[t].matrix = thread[t].matrix
        /\ thread'[t].since = thread[t].since /\ thread'[t].payload = p
    BY <1>6 DEF SearchInv, SearchTypes, States
  <1>9. LocksAreHeld'
    <2>1. thread'[t].pc \notin Loading /\ thread'[t].pc \notin Building
      BY <1>8 DEF Loading, Building
    <2> QED
      BY <1>1, <1>6, <2>1, LocksStay
  <1>10. \A q \in 1 .. Len(payloads) : /\ payloads'[q].version = payloads[q].version
                                       /\ payloads'[q].matrix = payloads[q].matrix
    BY <1>2, <1>3, <1>4
  <1>11. PayloadsAreRight'
    BY <1>2, <1>4, <1>10 DEF SearchInv, PayloadsAreRight
  <1>12. CacheIsRight'
    BY <1>1, <1>4, <1>10 DEF SearchInv, CacheIsRight
  <1>13. LoadIsRight(t)' /\ SearchIsRight(t)'
    <2>1. LoadIsRight(t)'
      BY <1>1, <1>8 DEF SearchInv, LoadIsRight, Published
    <2>2. payloads'[p].version = payloads[p].version
      BY <1>2, <1>10
    <2>3. SearchIsRight(t)'
      BY <1>2, <1>4, <1>8, <2>2 DEF SearchIsRight
    <2> QED
      BY <2>1, <2>3
  <1>14. \A u \in Threads \ {t} : thread[u].pc \notin Building
    BY <1>1 DEF SearchInv, LocksAreHeld
  <1>15. \A q \in 1 .. Len(payloads) :
            q \in 1 .. Len(payloads') /\ payloads'[q].version = payloads[q].version
    BY <1>4, <1>10
  <1> QED
    BY <1>1, <1>6, <1>7, <1>9, <1>11, <1>12, <1>13, <1>14, <1>15, OneThreadMoves

\* An answer ends the search.
LEMMA AnswerStep ==
    ASSUME None \notin Threads, SearchInv, NEW t \in Threads, Answer(t) PROVE SearchInv'
  <1>1. thread[t].pc \notin Loading /\ thread[t].pc \notin Building
    BY DEF Answer, Loading, Building
  <1>2. /\ UNCHANGED <<version, file, payloads, cache, loader, builder>>
        /\ EndSearch(t)
    BY DEF Answer
  <1>3. cache' \in [payload : Nat, signature : Signatures] /\ CacheIsRight'
    BY <1>2 DEF SearchInv, SearchTypes, CacheIsRight
  <1> QED
    BY <1>1, <1>2, <1>3, EndsIsFine

\* Every step keeps the invariant.
LEMMA SearchInvStep ==
    ASSUME None \notin Threads, SearchInv, [SearchNext]_vars PROVE SearchInv'
  <1>1. CASE UNCHANGED vars
    BY <1>1 DEF vars, SearchInv, SearchTypes, LocksAreHeld, PayloadsAreRight, CacheIsRight,
                LoadIsRight, SearchIsRight, Published, Signature
  <1>2. CASE Publish
    BY <1>2, PublishStep
  <1>3. ASSUME NEW t \in Threads,
               \/ Begin(t) \/ Enter(t) \/ Stat(t) \/ Read(t) \/ Check(t)
               \/ Look(t) \/ Lock(t) \/ Build(t) \/ Pop(t) \/ Answer(t)
        PROVE  SearchInv'
    BY <1>3, BeginStep, EnterStep, StatStep, ReadStep, CheckStep, LookStep, BuildStep,
       PopStep, AnswerStep
  <1> QED
    BY <1>1, <1>2, <1>3 DEF SearchNext

\* For any threads, indexes and searches, a search that is answered was made over
\* all the clips of one index, no older than the one published when it began
\* (read_search_index, _vector_search_runtime).
THEOREM AnswersWhole ==
    ASSUME None \notin Threads PROVE SearchSpec => []AnswersAreWhole
  <1>1. Init => SearchInv
    BY SearchInvInit
  <1>2. SearchInv /\ [SearchNext]_vars => SearchInv'
    BY SearchInvStep
  <1>3. SearchInv => AnswersAreWhole
    BY DEF SearchInv, SearchIsRight, AnswersAreWhole, Searching
  <1> QED
    BY <1>1, <1>2, <1>3, PTL DEF SearchSpec
=============================================================================
