------------------------- MODULE FileStorageProofs -------------------------
(***************************************************************************)
(* Proofs about FileStorage, for any writers, traces, contents and number  *)
(* of prunes: types, the mutual exclusion of stores, complete files, an    *)
(* index that says what the files say, and that the files implement the    *)
(* contract TraceStorage.                                                  *)
(***************************************************************************)
EXTENDS FileStorage, FiniteSetTheorems, TLAPS

Request == [trace : Traces, value : Values]

\* TypeOK, with the arguments of a call for their number.
Types ==
  /\ pc \in [Writers -> {"idle", "lock"} \cup Holding]
  /\ request \in [Writers -> SUBSET Request]
  /\ \A w \in Writers : IF pc[w] = "idle" THEN request[w] = {}
                                          ELSE \E r \in Request : request[w] = {r}
  /\ mutex \in [Writers -> 0..MaxPrunes] /\ current \in [Traces -> 0..MaxPrunes]
  /\ handle \in [Writers -> {"none", "tmp", "file", "replaced"}]
  /\ \A w \in Writers : handle[w] # "none" <=> pc[w] = "write"
  /\ tmp \in [Traces -> Contents] /\ file \in [Traces -> Contents]
  /\ index \in [Traces -> Entries] /\ newEntries \in [Traces -> Entries]
  /\ prunePc \in {"idle", "delete"} /\ toDelete \subseteq Traces
  /\ prunes \in 0..MaxPrunes /\ disturbed \subseteq Traces

\* A round of pruning takes the mutex of a trace out of the map at most once.
Rounds ==
  /\ prunePc = "idle" => toDelete = {}
  /\ \A t \in Traces : current[t] + (IF t \in toDelete THEN 1 ELSE 0) <= prunes

\* A store has the mutex that the map holds, so that no two work at once.
SameMutex ==
  \A w \in Writers : \A r \in request[w] :
    r.trace \notin disturbed => mutex[w] = current[r.trace]

Alone ==
  \A v, w \in Writers : \A q \in request[v], r \in request[w] :
    /\ pc[v] \in Holding /\ pc[w] \in Holding
    /\ q.trace = r.trace /\ r.trace \notin disturbed
    => v = w

\* What a store alone has made of its files.
Progress ==
  \A w \in Writers : \A r \in request[w] : r.trace \notin disturbed =>
    /\ pc[w] = "write"  => handle[w] = "tmp" /\ tmp[r.trace] = Empty
    /\ pc[w] = "rename" => tmp[r.trace] = r.value
    /\ pc[w] = "index"  => file[r.trace] = r.value

\* What a prune has read still is so, less what it has deleted.
PruneInv ==
  prunePc = "delete" => \A t \in Traces \ disturbed :
    /\ newEntries[t] # Absent => newEntries[t] = index[t]
    /\ t \in toDelete => newEntries[t] = Absent /\ index[t] \in Expired
    /\ newEntries[t] = Absent /\ ~Indexing(t) =>
         file[t] = IF t \in toDelete THEN index[t] ELSE Absent

IInv == /\ Types /\ Rounds /\ SameMutex /\ Alone /\ Progress
        /\ NeverTorn /\ IndexMatchesFiles /\ PruneInv
-----------------------------------------------------------------------------
USE DEF store, files, prune, vars, Holding, Contents, Entries, Request

LEMMA SpecialContents ==
  /\ Absent # Empty /\ Empty # Torn /\ Absent # Torn
  /\ Absent \notin Values /\ Empty \notin Values /\ Torn \notin Values
<1>1. \A x, y : Cardinality({x, y}) <= 2
  <2> TAKE x, y
  <2>1. IsFiniteSet({x}) /\ Cardinality({x}) = 1
    BY FS_Singleton
  <2>2. {x, y} = {x} \cup {y}
    OBVIOUS
  <2>3. Cardinality({x} \cup {y}) = IF y \in {x} THEN 1 ELSE 1 + 1
    BY <2>1, FS_AddElement
  <2>4. QED
    BY <2>2, <2>3
<1>2. {Absent, Empty, Torn} = {Empty, Torn} \/ Absent \notin {Empty, Torn}
  OBVIOUS
<1>3. Empty # Torn \/ {Absent, Empty, Torn} = {Absent, Torn}
  OBVIOUS
<1>4. Cardinality({Empty, Torn}) <= 2 /\ Cardinality({Absent, Torn}) <= 2
  BY <1>1
<1>5. {Absent, Empty, Torn} # {Empty, Torn} /\ {Absent, Empty, Torn} # {Absent, Torn}
  BY <1>4, ContentAssumption
<1>6. QED
  BY <1>2, <1>3, <1>5, ContentAssumption

\* The call a writer is in, if it is in one.
LEMMA CallOf ==
  ASSUME Types, NEW w \in Writers, pc[w] # "idle"
  PROVE  \E r \in Request :
           /\ request[w] = {r} /\ r.trace \in Traces /\ r.value \in Values
           /\ TraceOf(w) = r.trace /\ ValueOf(w) = r.value
<1>1. PICK r \in Request : request[w] = {r}
  BY DEF Types
<1>2. r.trace \in Traces /\ r.value \in Values
  OBVIOUS
<1>3. (CHOOSE q \in request[w] : TRUE) = r
  BY <1>1
<1>4. \A t : On(w, t) <=> t = r.trace
  BY <1>1 DEF On
<1>5. TraceOf(w) = r.trace
  BY <1>2, <1>4 DEF TraceOf
<1>6. QED
  BY <1>1, <1>2, <1>3, <1>5 DEF ValueOf

LEMMA StoreTraceStep ==
  ASSUME IInv, NEW w \in Writers, NEW t \in Traces, NEW v \in Values, StoreTrace(w, t, v)
  PROVE  IInv'
<1> USE SpecialContents, PrunesAssumption, ExpiredAssumption DEF IInv
<1>1. Types'
  <2>1. request' = [request EXCEPT ![w] = {[trace |-> t, value |-> v]}] /\ pc[w] = "idle"
    BY DEF StoreTrace, Step
  <2>2. request' \in [Writers -> SUBSET Request]
    BY <2>1 DEF Types
  <2>3. ASSUME NEW x \in Writers
        PROVE  IF pc'[x] = "idle" THEN request'[x] = {} ELSE \E r \in Request : request'[x] = {r}
    <3>1. [trace |-> t, value |-> v] \in Request
      OBVIOUS
    <3>2. CASE x = w
      <4>1. pc'[x] = "lock" /\ request'[x] = {[trace |-> t, value |-> v]}
        BY <2>1, <3>2 DEF StoreTrace, Step, Types
      <4>2. QED
        BY <3>1, <4>1
    <3>3. CASE x # w
      <4>1. pc'[x] = pc[x] /\ request'[x] = request[x]
        BY <2>1, <3>3 DEF StoreTrace, Step
      <4>2. QED
        BY <4>1 DEF Types
    <3>4. QED
      BY <3>2, <3>3
  <2>4. QED
    BY <2>2, <2>3 DEF StoreTrace, Step, Types
<1>2. Rounds'
  BY SMT DEF StoreTrace, Rounds
<1>3. SameMutex'
  BY SMT DEF StoreTrace, SameMutex, Types
<1>4. Alone'
  BY SMT DEF StoreTrace, Step, Alone
<1>5. Progress'
  BY SMT DEF StoreTrace, Step, Progress
<1>6. NeverTorn'
  BY SMT DEF StoreTrace, NeverTorn
<1>7. IndexMatchesFiles'
  BY SMT DEF StoreTrace, Step, IndexMatchesFiles, Pruned, Indexing, Active, On
<1>8. PruneInv'
  BY SMT DEF StoreTrace, Step, PruneInv, Indexing, Active, On
<1> QED
  BY <1>1, <1>2, <1>3, <1>4, <1>5, <1>6, <1>7, <1>8

LEMMA LockStep ==
  ASSUME IInv, NEW w \in Writers, Lock(w)
  PROVE  IInv'
<1> USE SpecialContents, PrunesAssumption, ExpiredAssumption DEF IInv
<1>r. PICK r \in Request :
        /\ request[w] = {r} /\ r.trace \in Traces /\ r.value \in Values
        /\ TraceOf(w) = r.trace /\ ValueOf(w) = r.value
  BY CallOf DEF Lock, Step
<1>1. Types'
  BY <1>r, SMT DEF Lock, Step, Types
<1>2. Rounds'
  BY <1>r, SMT DEF Lock, Rounds
<1>3. SameMutex'
  BY <1>r, SMT DEF Lock, SameMutex
<1>4. Alone'
  BY <1>r, SMT DEF Lock, Step, Holders, Active, On, Alone, SameMutex
<1>5. Progress'
  BY <1>r, SMT DEF Lock, Step, Progress
<1>6. NeverTorn'
  BY <1>r, SMT DEF Lock, NeverTorn
<1>7. IndexMatchesFiles'
  BY <1>r, SMT DEF Lock, Step, Active, On, IndexMatchesFiles, Pruned, Indexing
<1>8. PruneInv'
  BY <1>r, SMT DEF Lock, Step, Active, On, PruneInv, Indexing
<1> QED
  BY <1>1, <1>2, <1>3, <1>4, <1>5, <1>6, <1>7, <1>8

LEMMA OpenTmpStep ==
  ASSUME IInv, NEW w \in Writers, OpenTmp(w)
  PROVE  IInv'
<1> USE SpecialContents, PrunesAssumption, ExpiredAssumption DEF IInv
<1>r. PICK r \in Request :
        /\ request[w] = {r} /\ r.trace \in Traces /\ r.value \in Values
        /\ TraceOf(w) = r.trace /\ ValueOf(w) = r.value
  BY CallOf DEF OpenTmp, Step
<1>1. Types'
  BY <1>r, SMT DEF OpenTmp, Step, Types
<1>2. Rounds'
  BY <1>r, SMT DEF OpenTmp, Rounds
<1>3. SameMutex'
  BY <1>r, SMT DEF OpenTmp, SameMutex
<1>4. Alone'
  BY <1>r, SMT DEF OpenTmp, Step, Alone
<1>5. Progress'
  BY <1>r, SMT DEF OpenTmp, Step, Progress, Types, Alone
<1>6. NeverTorn'
  BY <1>r, SMT DEF OpenTmp, NeverTorn
<1>7. IndexMatchesFiles'
  BY <1>r, SMT DEF OpenTmp, Step, IndexMatchesFiles, Pruned, Indexing, Active, On
<1>8. PruneInv'
  BY <1>r, SMT DEF OpenTmp, Step, PruneInv, Indexing, Active, On
<1> QED
  BY <1>1, <1>2, <1>3, <1>4, <1>5, <1>6, <1>7, <1>8

LEMMA WriteTmpStep ==
  ASSUME IInv, NEW w \in Writers, WriteTmp(w)
  PROVE  IInv'
<1> USE SpecialContents, PrunesAssumption, ExpiredAssumption DEF IInv
<1>r. PICK r \in Request :
        /\ request[w] = {r} /\ r.trace \in Traces /\ r.value \in Values
        /\ TraceOf(w) = r.trace /\ ValueOf(w) = r.value
  BY CallOf DEF WriteTmp, Step
<1>1. Types'
  BY <1>r, SMT DEF WriteTmp, Step, WriteTo, Overwrite, Types
<1>2. Rounds'
  BY <1>r, SMT DEF WriteTmp, Rounds
<1>3. SameMutex'
  BY <1>r, SMT DEF WriteTmp, SameMutex
<1>4. Alone'
  BY <1>r, SMT DEF WriteTmp, Step, Alone
<1>5. Progress'
  BY <1>r, SMT DEF WriteTmp, Step, WriteTo, Overwrite, Progress, Types, Alone
<1>6. NeverTorn'
  BY <1>r, SMT DEF WriteTmp, WriteTo, NeverTorn, Types, Progress
<1>7. IndexMatchesFiles'
  BY <1>r, SMT DEF WriteTmp, Step, WriteTo, IndexMatchesFiles, Types, Progress, Pruned,
     Indexing, Active, On
<1>8. PruneInv'
  BY <1>r, SMT DEF WriteTmp, Step, WriteTo, PruneInv, Types, Indexing, Active, On,
     Progress
<1> QED
  BY <1>1, <1>2, <1>3, <1>4, <1>5, <1>6, <1>7, <1>8

LEMMA RenameTmpStep ==
  ASSUME IInv, NEW w \in Writers, RenameTmp(w)
  PROVE  IInv'
<1> USE SpecialContents, PrunesAssumption, ExpiredAssumption DEF IInv
<1>r. PICK r \in Request :
        /\ request[w] = {r} /\ r.trace \in Traces /\ r.value \in Values
        /\ TraceOf(w) = r.trace /\ ValueOf(w) = r.value
  BY CallOf DEF RenameTmp, Step
<1>1. Types'
  BY <1>r, SMT DEF RenameTmp, Step, Renamed, Types
<1>2. Rounds'
  BY <1>r, SMT DEF RenameTmp, Rounds
<1>3. SameMutex'
  BY <1>r, SMT DEF RenameTmp, SameMutex
<1>4. Alone'
  BY <1>r, SMT DEF RenameTmp, Step, Alone
<1>5. Progress'
  BY <1>r, SMT DEF RenameTmp, Step, Active, On, Progress, Types, Alone
<1>6. NeverTorn'
  BY <1>r, SMT DEF RenameTmp, Step, NeverTorn, Progress
<1>7. IndexMatchesFiles'
  BY <1>r, SMT DEF RenameTmp, Step, Active, On, IndexMatchesFiles, Types, Pruned,
     Indexing
<1>8. PruneInv'
  BY <1>r, SMT DEF RenameTmp, Step, Active, On, PruneInv, Types, Indexing
<1> QED
  BY <1>1, <1>2, <1>3, <1>4, <1>5, <1>6, <1>7, <1>8

LEMMA UpdateIndexStep ==
  ASSUME IInv, NEW w \in Writers, UpdateIndex(w)
  PROVE  IInv'
<1> USE SpecialContents, PrunesAssumption, ExpiredAssumption DEF IInv
<1>r. PICK r \in Request :
        /\ request[w] = {r} /\ r.trace \in Traces /\ r.value \in Values
        /\ TraceOf(w) = r.trace /\ ValueOf(w) = r.value
  BY CallOf DEF UpdateIndex, Finish, Step
<1>1. Types'
  BY <1>r, SMT DEF UpdateIndex, Finish, Step, Overwritten, Types
<1>2. Rounds'
  BY <1>r, SMT DEF UpdateIndex, Finish, Rounds
<1>3. SameMutex'
  BY <1>r, SMT DEF UpdateIndex, Finish, SameMutex, Types
<1>4. Alone'
  BY <1>r, SMT DEF UpdateIndex, Finish, Step, Alone
<1>5. Progress'
  BY <1>r, SMT DEF UpdateIndex, Finish, Step, Progress
<1>6. NeverTorn'
  BY <1>r, SMT DEF UpdateIndex, NeverTorn
<1>7. IndexMatchesFiles'
  <2> SUFFICES ASSUME NEW t \in Traces, t \notin disturbed', ~Pruned(t)', ~Indexing(t)'
               PROVE  index'[t] = file'[t]
    BY DEF IndexMatchesFiles
  <2>1. CASE t = r.trace
    BY <1>r, <2>1 DEF UpdateIndex, Finish, Step, Progress, Types
  <2>2. CASE t # r.trace
    <3>1. index'[t] = index[t] /\ file'[t] = file[t] /\ t \notin disturbed
      BY <1>r, <2>2 DEF UpdateIndex
    <3>2. ~Pruned(t)
      BY DEF Pruned, UpdateIndex, Finish
    <3>3. ~Indexing(t)
      BY <1>r, <2>2 DEF Indexing, Active, On, UpdateIndex, Finish, Step
    <3>4. QED
      BY <3>1, <3>2, <3>3 DEF IndexMatchesFiles
  <2>3. QED
    BY <2>1, <2>2
<1>8. PruneInv'
  BY <1>r, SMT DEF UpdateIndex, Finish, Step, Overwritten, PruneInv, Indexing, Active,
     On
<1> QED
  BY <1>1, <1>2, <1>3, <1>4, <1>5, <1>6, <1>7, <1>8

LEMMA GiveUpStep ==
  ASSUME IInv, NEW w \in Writers, GiveUp(w)
  PROVE  IInv'
<1> USE SpecialContents, PrunesAssumption, ExpiredAssumption DEF IInv
<1>r. PICK r \in Request :
        /\ request[w] = {r} /\ r.trace \in Traces /\ r.value \in Values
        /\ TraceOf(w) = r.trace /\ ValueOf(w) = r.value
  BY CallOf DEF GiveUp
<1>1. Types'
  BY <1>r, SMT DEF GiveUp, Finish, Step, Types
<1>2. Rounds'
  BY <1>r, SMT DEF GiveUp, Finish, Rounds
<1>3. SameMutex'
  BY <1>r, SMT DEF GiveUp, Finish, SameMutex, Types
<1>4. Alone'
  BY <1>r, SMT DEF GiveUp, Finish, Step, Alone
<1>5. Progress'
  BY <1>r, SMT DEF GiveUp, Finish, Step, Progress, Types
<1>6. NeverTorn'
  BY <1>r, SMT DEF GiveUp, NeverTorn
<1>7. IndexMatchesFiles'
  BY <1>r, SMT DEF GiveUp, Finish, Step, IndexMatchesFiles, Pruned, Indexing, Active,
     On
<1>8. PruneInv'
  BY <1>r, SMT DEF GiveUp, Finish, Step, PruneInv, Indexing, Active, On
<1> QED
  BY <1>1, <1>2, <1>3, <1>4, <1>5, <1>6, <1>7, <1>8

LEMMA PruneReadStep ==
  ASSUME IInv, PruneRead
  PROVE  IInv'
<1> USE SpecialContents, PrunesAssumption, ExpiredAssumption DEF IInv
<1>1. Types'
  BY SMT DEF PruneRead, PruneRead_Which, Types
<1>2. Rounds'
  BY SMT DEF PruneRead, PruneRead_Which, Rounds, Types
<1>3. SameMutex'
  BY SMT DEF PruneRead, PruneRead_Which, SameMutex
<1>4. Alone'
  BY SMT DEF PruneRead, PruneRead_Which, Alone
<1>5. Progress'
  BY SMT DEF PruneRead, PruneRead_Which, Progress
<1>6. NeverTorn'
  BY SMT DEF PruneRead, PruneRead_Which, NeverTorn
<1>7. IndexMatchesFiles'
  BY SMT DEF PruneRead, PruneRead_Which, IndexMatchesFiles, Pruned, Indexing, Active,
     On
<1>8. PruneInv'
  BY SMT DEF PruneRead, PruneRead_Which, PruneInv, IndexMatchesFiles, Indexing, Pruned,
     Active, On
<1> QED
  BY <1>1, <1>2, <1>3, <1>4, <1>5, <1>6, <1>7, <1>8

LEMMA PruneDeleteStep ==
  ASSUME IInv, NEW t \in Traces, NEW removed \in BOOLEAN, PruneDelete(t, removed)
  PROVE  IInv'
<1> USE SpecialContents, PrunesAssumption, ExpiredAssumption DEF IInv
<1>1. Types'
  <2>1. current[t] + 1 <= prunes /\ current[t] \in 0..MaxPrunes /\ prunes \in 0..MaxPrunes
    BY DEF PruneDelete, Rounds, Types
  <2>2. current' \in [Traces -> 0..MaxPrunes]
    BY <2>1 DEF PruneDelete, Types
  <2>3. file' \in [Traces -> Contents]
    BY DEF PruneDelete, Types
  <2>4. /\ handle' \in [Writers -> {"none", "tmp", "file", "replaced"}]
        /\ \A w \in Writers : handle'[w] # "none" <=> pc'[w] = "write"
    BY DEF PruneDelete, Types
  <2>5. QED
    BY <2>2, <2>3, <2>4 DEF PruneDelete, Types
<1>2. Rounds'
  BY SMT DEF PruneDelete, Rounds, Types
<1>3. SameMutex'
  BY SMT DEF PruneDelete, Active, On, SameMutex
<1>4. Alone'
  BY SMT DEF PruneDelete, Alone
<1>5. Progress'
  BY SMT DEF PruneDelete, Active, On, Progress
<1>6. NeverTorn'
  BY SMT DEF PruneDelete, NeverTorn
<1>7. IndexMatchesFiles'
  <2> SUFFICES ASSUME NEW u \in Traces, u \notin disturbed', ~Pruned(u)', ~Indexing(u)'
               PROVE  index'[u] = file'[u]
    BY DEF IndexMatchesFiles
  <2>1. u \notin disturbed /\ ~Pruned(u) /\ ~Indexing(u)
    BY DEF PruneDelete, Pruned, Indexing, Active, On
  <2>2. prunePc = "delete"
    BY DEF PruneDelete, Rounds, Types
  <2>3. u # t
    BY <2>1, <2>2 DEF PruneDelete, PruneInv, Pruned
  <2>4. QED
    BY <2>1, <2>3 DEF PruneDelete, IndexMatchesFiles
<1>8. PruneInv'
  BY SMT DEF PruneDelete, Active, On, PruneInv, Types, Indexing
<1> QED
  BY <1>1, <1>2, <1>3, <1>4, <1>5, <1>6, <1>7, <1>8

LEMMA PruneWriteStep ==
  ASSUME IInv, PruneWrite
  PROVE  IInv'
<1> USE SpecialContents, PrunesAssumption, ExpiredAssumption DEF IInv
<1>1. Types'
  BY SMT DEF PruneWrite, PruneEnd, Types
<1>2. Rounds'
  BY SMT DEF PruneWrite, PruneEnd, Rounds
<1>3. SameMutex'
  BY SMT DEF PruneWrite, PruneEnd, SameMutex
<1>4. Alone'
  BY SMT DEF PruneWrite, PruneEnd, Alone
<1>5. Progress'
  BY SMT DEF PruneWrite, PruneEnd, Progress
<1>6. NeverTorn'
  BY SMT DEF PruneWrite, PruneEnd, NeverTorn
<1>7. IndexMatchesFiles'
  BY SMT DEF PruneWrite, PruneEnd, IndexMatchesFiles, Pruned, Indexing, Active, On,
     PruneInv
<1>8. PruneInv'
  BY SMT DEF PruneWrite, PruneEnd, PruneInv
<1> QED
  BY <1>1, <1>2, <1>3, <1>4, <1>5, <1>6, <1>7, <1>8

LEMMA PruneFailsStep ==
  ASSUME IInv, PruneFails
  PROVE  IInv'
<1> USE SpecialContents, PrunesAssumption, ExpiredAssumption DEF IInv
<1>1. Types'
  BY SMT DEF PruneFails, PruneEnd, Types
<1>2. Rounds'
  BY SMT DEF PruneFails, PruneEnd, Rounds
<1>3. SameMutex'
  BY SMT DEF PruneFails, PruneEnd, SameMutex
<1>4. Alone'
  BY SMT DEF PruneFails, PruneEnd, Alone
<1>5. Progress'
  BY SMT DEF PruneFails, PruneEnd, Progress
<1>6. NeverTorn'
  BY SMT DEF PruneFails, PruneEnd, NeverTorn
<1>7. IndexMatchesFiles'
  BY SMT DEF PruneFails, PruneEnd, IndexMatchesFiles, Indexing, Active, On
<1>8. PruneInv'
  BY SMT DEF PruneFails, PruneEnd, PruneInv
<1> QED
  BY <1>1, <1>2, <1>3, <1>4, <1>5, <1>6, <1>7, <1>8

LEMMA RestartStep ==
  ASSUME IInv, Restart
  PROVE  IInv'
<1> USE SpecialContents, PrunesAssumption, ExpiredAssumption DEF IInv
<1>1. Types'
  BY SMT DEF Restart, Types
<1>2. Rounds'
  BY SMT DEF Restart, Rounds, Types
<1>3. SameMutex'
  BY SMT DEF Restart, SameMutex
<1>4. Alone'
  BY SMT DEF Restart, Alone
<1>5. Progress'
  BY SMT DEF Restart, Progress
<1>6. NeverTorn'
  BY SMT DEF Restart, NeverTorn
<1>7. IndexMatchesFiles'
  BY SMT DEF Restart, IndexMatchesFiles
<1>8. PruneInv'
  BY SMT DEF Restart, PruneInv
<1> QED
  BY <1>1, <1>2, <1>3, <1>4, <1>5, <1>6, <1>7, <1>8

LEMMA InitIInv == Init => IInv
<1> SUFFICES ASSUME Init PROVE IInv
  OBVIOUS
<1> USE SpecialContents, PrunesAssumption DEF Init
<1>1. Types /\ Rounds
  BY DEF Types, Rounds
<1>2. SameMutex /\ Alone /\ Progress
  BY DEF SameMutex, Alone, Progress
<1>3. NeverTorn /\ IndexMatchesFiles /\ PruneInv
  BY DEF NeverTorn, IndexMatchesFiles, PruneInv
<1>4. QED
  BY <1>1, <1>2, <1>3 DEF IInv

LEMMA StutterStep == IInv /\ UNCHANGED vars => IInv'
  BY DEF IInv, Types, Rounds, SameMutex, Alone, Progress, NeverTorn, IndexMatchesFiles,
     PruneInv, Pruned, Indexing, Active, On

LEMMA Inductive == IInv /\ [Next]_vars => IInv'
  BY StoreTraceStep, LockStep, OpenTmpStep, WriteTmpStep, RenameTmpStep,
     UpdateIndexStep, GiveUpStep, PruneReadStep, PruneDeleteStep, PruneWriteStep,
     PruneFailsStep, RestartStep, StutterStep DEF Next

THEOREM FilesAreKept == Spec => []IInv
  BY InitIInv, Inductive, PTL DEF Spec
-----------------------------------------------------------------------------
(* Type correctness: every writer is in at most one call, a file is open   *)
(* only while it is written, and mutexes are numbered by rounds.           *)
THEOREM TypeCorrect == Spec => []TypeOK
<1>1. IInv => TypeOK
  <2> SUFFICES ASSUME Types PROVE TypeOK
    BY DEF IInv
  <2>1. ASSUME NEW w \in Writers
        PROVE  Cardinality(request[w]) = IF pc[w] = "idle" THEN 0 ELSE 1
    <3>1. CASE pc[w] = "idle"
      BY <3>1, FS_EmptySet DEF Types
    <3>2. CASE pc[w] # "idle"
      <4>1. PICK r \in Request : request[w] = {r}
        BY <3>2 DEF Types
      <4>2. QED
        BY <3>2, <4>1, FS_Singleton
    <3>3. QED
      BY <3>1, <3>2
  <2>2. QED
    BY <2>1 DEF Types, TypeOK
<1>2. QED
  BY <1>1, FilesAreKept, PTL

(* Stores of one trace exclude each other although they fetch the mutex    *)
(* (line 196) before they lock it (203) and a prune may take it out of the *)
(* map in between.                                                         *)
THEOREM StoresExclude == Spec => []OneHolder
<1>1. IInv => OneHolder
  <2> SUFFICES ASSUME Types, Alone, NEW t \in Traces \ disturbed
               PROVE  Cardinality(Holders(t)) <= 1
    BY DEF IInv, OneHolder
  <2>1. \A v, w \in Holders(t) : v = w
    BY DEF Alone, Holders, Active, On
  <2>2. CASE Holders(t) = {}
    BY <2>2, FS_EmptySet
  <2>3. CASE Holders(t) # {}
    <3>1. PICK w \in Holders(t) : Holders(t) = {w}
      BY <2>1, <2>3
    <3>2. Cardinality({w}) = 1
      BY FS_Singleton
    <3>3. QED
      BY <3>1, <3>2
  <2>4. QED
    BY <2>2, <2>3
<1>2. QED
  BY <1>1, FilesAreKept, PTL

(* storage.go:221 "Atomic rename": a trace file is complete or not there,  *)
(* whichever step of a store fails or is the last before a crash.          *)
THEOREM FilesAreComplete == Spec => []NeverTorn
<1>1. IInv => NeverTorn
  BY DEF IInv
<1>2. QED
  BY <1>1, FilesAreKept, PTL

(* The index, which ListTraces and PruneTraces go by, has for every trace  *)
(* the entry that its file deserves (updateTraceIndex, lines 277-346).     *)
THEOREM IndexIsRight == Spec => []IndexMatchesFiles
<1>1. IInv => IndexMatchesFiles
  BY DEF IInv
<1>2. QED
  BY <1>1, FilesAreKept, PTL
-----------------------------------------------------------------------------
\* What interferes with a trace is remembered.
LEMMA DisturbedGrows == [Next]_vars => disturbed \subseteq disturbed'
  BY DEF Next, StoreTrace, Lock, OpenTmp, WriteTmp, RenameTmp, UpdateIndex, GiveUp,
     PruneRead, PruneRead_Which, PruneDelete, PruneWrite, PruneFails, Restart

Indexers == {w \in Writers : pc[w] = "index"}

(* Every step of a file storage with which nothing has interfered is one   *)
(* of TraceStorage: a store takes effect at its rename, returns after the  *)
(* index update, and a prune removes expired traces.  So the collector may *)
(* rely on TraceStorage, as module Collector does.                         *)
THEOREM KeepsContract == Spec => StorageContract
<1>1. IInv /\ [Next]_vars => [disturbed' = {} => Storage!Next \/ UNCHANGED Storage!vars]_vars
  <2> SUFFICES ASSUME IInv, Next, disturbed' = {}
               PROVE  Storage!Next \/ UNCHANGED <<file, request, Indexers>>
    BY DEF Storage!vars, Indexers
  <2> USE DEF Indexers
  <2>0. disturbed = {} /\ Types /\ Progress /\ PruneInv
    BY DisturbedGrows DEF IInv
  <2>1. ASSUME NEW w \in Writers, NEW t \in Traces, NEW v \in Values, StoreTrace(w, t, v)
        PROVE  Storage!Call(w)
    BY <2>0, <2>1 DEF StoreTrace, Step, Types, Storage!Call
  <2>2. ASSUME NEW w \in Writers, Lock(w) \/ OpenTmp(w) \/ WriteTmp(w)
        PROVE  UNCHANGED <<file, request, Indexers>>
    <3>1. pc[w] # "index" /\ pc'[w] # "index" /\ \A x \in Writers \ {w} : pc'[x] = pc[x]
      BY <2>0, <2>2 DEF Lock, OpenTmp, WriteTmp, Step, Types
    <3>2. UNCHANGED <<file, request>>
      BY <2>0, <2>2, CallOf DEF Lock, OpenTmp, WriteTmp, Step, Progress
    <3>3. QED
      BY <3>1, <3>2
  <2>3. ASSUME NEW w \in Writers, RenameTmp(w) PROVE Storage!Store(w)
    <3>1. PICK r \in Request : request[w] = {r} /\ TraceOf(w) = r.trace
      BY <2>0, <2>3, CallOf DEF RenameTmp, Step
    <3>2. file' = [file EXCEPT ![r.trace] = r.value]
      BY <2>0, <2>3, <3>1 DEF RenameTmp, Step, Progress
    <3>3. Indexers' = Indexers \cup {w} /\ w \notin Indexers
      BY <2>0, <2>3 DEF RenameTmp, Step, Types
    <3>4. QED
      BY <2>3, <3>1, <3>2, <3>3 DEF RenameTmp, Storage!Store
  <2>4. ASSUME NEW w \in Writers, UpdateIndex(w) PROVE Storage!Return(w)
    <3>1. Indexers' = Indexers \ {w} /\ w \in Indexers
      BY <2>0, <2>4 DEF UpdateIndex, Finish, Step, Types
    <3>2. QED
      BY <2>4, <3>1 DEF UpdateIndex, Finish, Storage!Return
  <2>5. ASSUME NEW w \in Writers, GiveUp(w) PROVE Storage!Fail(w)
    <3>1. Indexers' = Indexers \ {w}
      BY <2>0, <2>5 DEF GiveUp, Finish, Step
    <3>2. request[w] # {}
      BY <2>0, <2>5 DEF GiveUp, Types
    <3>3. QED
      BY <2>5, <3>1, <3>2 DEF GiveUp, Finish, Storage!Fail
  <2>6. CASE PruneRead \/ PruneWrite \/ PruneFails
    BY <2>6 DEF PruneRead, PruneRead_Which, PruneWrite, PruneFails, PruneEnd
  <2>7. ASSUME NEW t \in Traces, NEW removed \in BOOLEAN, PruneDelete(t, removed)
        PROVE  Storage!Prune(t)
    <3>1. removed /\ Active(t) = {} /\ file[t] = index[t]
      BY <2>7 DEF PruneDelete
    <3>2. file[t] \in Expired
      BY <2>0, <2>7, <3>1 DEF PruneDelete, PruneInv, IInv, Rounds, Types
    <3>3. QED
      BY <2>7, <3>1, <3>2 DEF PruneDelete, Storage!Prune
  <2>8. ASSUME Restart PROVE Storage!Restart
    <3>1. UNCHANGED file /\ request' = [w \in Writers |-> {}] /\ Indexers' = {}
      BY <2>8 DEF Restart
    <3>2. QED
      BY <3>1 DEF Storage!Restart
  <2>9. QED
    BY <2>1, <2>2, <2>3, <2>4, <2>5, <2>6, <2>7, <2>8 DEF Next, Storage!Next
<1>2. QED
  BY <1>1, FilesAreKept, PTL DEF Spec, StorageContract
=============================================================================
