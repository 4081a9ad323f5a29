---------------------------- MODULE FileStorage ----------------------------
(***************************************************************************)
(* FileStorage of pkg/storage.go (lines 149-485): one file per trace,      *)
(* guarded by a mutex per trace, and one index file, guarded by            *)
(* indexMutex.                                                             *)
(*                                                                         *)
(* StoreTrace holds the trace's mutex from line 203 to its return; the     *)
(* steps of a store are its file operations and the index update, which    *)
(* runs as a whole under indexMutex.  PruneTraces takes neither the trace  *)
(* mutexes nor indexMutex across its steps: it reads the index, deletes    *)
(* files, removes their mutexes from the map, and writes the index it had  *)
(* read without the deleted entries.                                       *)
(*                                                                         *)
(* GetTrace and ListTraces change nothing and are not modelled.            *)
(***************************************************************************)
EXTENDS Integers, FiniteSets

CONSTANTS Writers, Traces, Values, Expired,   \* as in TraceStorage
          Absent, Empty, Torn,   \* no file; just truncated; does not parse
          MaxPrunes              \* bound: rounds of PruneTraces

ASSUME ExpiredAssumption == Expired \subseteq Values
ASSUME ContentAssumption ==
  /\ {Absent, Empty, Torn} \cap Values = {}
  /\ Cardinality({Absent, Empty, Torn}) = 3
ASSUME PrunesAssumption == MaxPrunes \in Nat

VARIABLES pc,         \* where each writer is in StoreTrace
          request,    \* its argument: {} or a [trace, value]
          mutex,      \* the mutex it got from getTraceMutex
          current,    \* traceMutexes: the number of the mutex of each trace
          handle,     \* what the writer has open: tmp, file, or one replaced
          tmp, file,  \* content of traces/<id>.json.tmp and traces/<id>.json
          index,      \* the entry of each trace in index/traces.json
          prunePc, newEntries, toDelete, prunes,   \* PruneTraces
          disturbed   \* traces a prune, a crash or an error has interfered with

store == <<pc, request, mutex, handle>>
files == <<tmp, file, index>>
prune == <<prunePc, newEntries, toDelete, prunes>>
vars  == <<store, current, files, prune, disturbed>>

Contents == Values \cup {Absent, Empty, Torn}
Entries  == Values \cup {Absent}

\* In these phases a writer holds its mutex.
Holding == {"open", "write", "rename", "index"}

TypeOK ==
  /\ pc \in [Writers -> {"idle", "lock"} \cup Holding]
  /\ request \in [Writers -> SUBSET [trace : Traces, value : Values]]
  /\ \A w \in Writers : Cardinality(request[w]) = IF pc[w] = "idle" THEN 0 ELSE 1
  /\ mutex \in [Writers -> 0..MaxPrunes] /\ current \in [Traces -> 0..MaxPrunes]
  /\ handle \in [Writers -> {"none", "tmp", "file", "replaced"}]
  /\ \A w \in Writers : handle[w] # "none" <=> pc[w] = "write"
  /\ tmp \in [Traces -> Contents] /\ file \in [Traces -> Contents]
  /\ index \in [Traces -> Entries] /\ newEntries \in [Traces -> Entries]
  /\ prunePc \in {"idle", "delete"} /\ toDelete \subseteq Traces
  /\ prunes \in 0..MaxPrunes /\ disturbed \subseteq Traces

\* NewFileStorage on an empty directory.
Init ==
  /\ pc = [w \in Writers |-> "idle"]
  /\ request = [w \in Writers |-> {}]
  /\ mutex = [w \in Writers |-> 0] /\ current = [t \in Traces |-> 0]
  /\ handle = [w \in Writers |-> "none"]
  /\ tmp = [t \in Traces |-> Absent] /\ file = [t \in Traces |-> Absent]
  /\ index = [t \in Traces |-> Absent] /\ newEntries = [t \in Traces |-> Absent]
  /\ prunePc = "idle" /\ toDelete = {} /\ prunes = 0
  /\ disturbed = {}

Step(w, from, to) == pc[w] = from /\ pc' = [pc EXCEPT ![w] = to]

On(w, t)    == \E r \in request[w] : r.trace = t
Active(t)   == {w \in Writers : On(w, t)}
Holders(t)  == {w \in Active(t) : pc[w] \in Holding}
TraceOf(w)  == CHOOSE t \in Traces : On(w, t)
ValueOf(w)  == (CHOOSE r \in request[w] : TRUE).value
-----------------------------------------------------------------------------
\* Lines 196-202, with getTraceMutex.
StoreTrace(w, t, v) ==
  /\ Step(w, "idle", "lock")
  /\ request' = [request EXCEPT ![w] = {[trace |-> t, value |-> v]}]
  /\ mutex' = [mutex EXCEPT ![w] = current[t]]
  /\ UNCHANGED <<handle, current, files, prune, disturbed>>

\* Mutant of Lock: the mutex is not taken.
Lock_Never(w) ==
  /\ Step(w, "lock", "open")
  /\ UNCHANGED <<request, mutex, handle, current, files, prune, disturbed>>

\* Line 203.  A mutex taken out of the map is another one than its successor.
Lock(w) ==
  /\ Step(w, "lock", "open")
  /\ \A o \in Holders(TraceOf(w)) : mutex[o] # mutex[w]
  /\ UNCHANGED <<request, mutex, handle, current, files, prune, disturbed>>

\* Mutant of OpenTmp: the trace file is written in place.
OpenTmp_InPlace(w) ==
  /\ Step(w, "open", "write")
  /\ handle' = [handle EXCEPT ![w] = "file"]
  /\ file' = [file EXCEPT ![TraceOf(w)] = Empty]
  /\ UNCHANGED <<request, mutex, current, tmp, index, prune, disturbed>>

\* Line 217, opening: O_CREATE | O_TRUNC.
OpenTmp(w) ==
  /\ Step(w, "open", "write")
  /\ handle' = [handle EXCEPT ![w] = "tmp"]
  /\ tmp' = [tmp EXCEPT ![TraceOf(w)] = Empty]
  /\ UNCHANGED <<request, mutex, current, file, index, prune, disturbed>>

\* A write at offset 0 replaces what is there, or leaves the end of it.
Overwrite(old, new) == IF old \in {Empty, new} THEN {new} ELSE {new, Torn}

WriteTo(f, t, v) == \E c \in Overwrite(f[t], v) : f' = [f EXCEPT ![t] = c]

\* Line 217, writing and closing.
WriteTmp(w) ==
  LET t == TraceOf(w) IN
  /\ Step(w, "write", "rename")
  /\ handle' = [handle EXCEPT ![w] = "none"]
  /\ IF handle[w] = "tmp"  THEN WriteTo(tmp, t, ValueOf(w))  ELSE UNCHANGED tmp
  /\ IF handle[w] = "file" THEN WriteTo(file, t, ValueOf(w)) ELSE UNCHANGED file
  /\ UNCHANGED <<request, mutex, current, index, prune, disturbed>>

Renamed == [none |-> "none", tmp |-> "file", file |-> "replaced", replaced |-> "replaced"]

\* Line 222.  The rename needs the temporary file to be there (else GiveUp).
RenameTmp(w) ==
  LET t == TraceOf(w) IN
  /\ Step(w, "rename", "index")
  /\ tmp[t] # Absent
  /\ file' = [file EXCEPT ![t] = tmp[t]]
  /\ tmp' = [tmp EXCEPT ![t] = Absent]
  /\ handle' = [o \in Writers |-> IF o \in Active(t) THEN Renamed[handle[o]] ELSE handle[o]]
  /\ UNCHANGED <<request, mutex, current, index, prune, disturbed>>

Finish(w, from) ==
  /\ Step(w, from, "idle")
  /\ request' = [request EXCEPT ![w] = {}]
  /\ mutex' = [mutex EXCEPT ![w] = 0]
  /\ UNCHANGED <<current, prune>>

\* A prune that has read the index will write it back without this update.
Overwritten(w) == IF prunePc = "delete" THEN {TraceOf(w)} ELSE {}

\* Mutant of UpdateIndex: a trace that has an entry keeps it.
UpdateIndex_KeepEntry(w) ==
  LET t == TraceOf(w) IN
  /\ Finish(w, "index")
  /\ index' = [index EXCEPT ![t] = IF @ = Absent THEN ValueOf(w) ELSE @]
  /\ disturbed' = disturbed \cup Overwritten(w)
  /\ UNCHANGED <<handle, tmp, file>>

\* updateTraceIndex (lines 277-346) and the return: read, replace or append
\* the entry, and write the whole index, all under indexMutex.
UpdateIndex(w) ==
  /\ Finish(w, "index")
  /\ index' = [index EXCEPT ![TraceOf(w)] = ValueOf(w)]
  /\ disturbed' = disturbed \cup Overwritten(w)
  /\ UNCHANGED <<handle, tmp, file>>

\* A file operation fails and StoreTrace returns the error.  A failure after
\* line 222 leaves the trace stored but its entry as it was.
GiveUp(w) ==
  /\ pc[w] \in Holding
  /\ Finish(w, pc[w])
  /\ handle' = [handle EXCEPT ![w] = "none"]
  /\ disturbed' = IF pc[w] = "index" THEN disturbed \cup {TraceOf(w)} ELSE disturbed
  /\ UNCHANGED files
-----------------------------------------------------------------------------
PruneRead_Which(expired) ==
  /\ prunePc = "idle" /\ prunes < MaxPrunes
  /\ toDelete' = {t \in Traces : index[t] \in expired}
  /\ toDelete' # {}
  /\ prunePc' = "delete"
  /\ newEntries' = [t \in Traces |-> IF index[t] \in expired THEN Absent ELSE index[t]]
  /\ prunes' = prunes + 1
  /\ UNCHANGED <<store, current, files, disturbed>>

\* Mutant of PruneRead: the retention period is not looked at.
PruneRead_All == PruneRead_Which(Values)

\* Lines 421-451.  Without an expired entry there is nothing to do.
PruneRead == PruneRead_Which(Expired)

\* Lines 454-462: remove the file, whatever it holds by now, and take the
\* mutex out of the map, whoever has it.  The two are one step: a store that
\* begins between them gets the old mutex, as one that began before them.
\* An error of the removal is ignored.
PruneDelete(t, removed) ==
  /\ t \in toDelete
  /\ toDelete' = toDelete \ {t}
  /\ file' = [file EXCEPT ![t] = IF removed THEN Absent ELSE @]
  /\ handle' = [w \in Writers |-> IF removed /\ w \in Active(t) /\ handle[w] = "file"
                                 THEN "replaced" ELSE handle[w]]
  /\ current' = [current EXCEPT ![t] = @ + 1]
  /\ disturbed' = IF Active(t) # {} \/ file[t] # index[t] \/ ~removed
                  THEN disturbed \cup {t} ELSE disturbed
  /\ UNCHANGED <<pc, request, mutex, tmp, index, prunePc, newEntries, prunes>>

PruneEnd ==
  /\ prunePc = "delete" /\ toDelete = {}
  /\ prunePc' = "idle"
  /\ newEntries' = [t \in Traces |-> Absent]
  /\ UNCHANGED <<store, current, tmp, file, toDelete, prunes>>

\* Mutant of PruneWrite: the index is left as it is.
PruneWrite_Keep ==
  /\ PruneEnd
  /\ UNCHANGED <<index, disturbed>>

\* Lines 465-481: the index as it was read, less the expired entries; what
\* updateTraceIndex has written since is gone.
PruneWrite ==
  /\ PruneEnd
  /\ index' = newEntries
  /\ UNCHANGED disturbed

\* A trace whose entry the prune under way is going to drop.
Pruned(t) == prunePc = "delete" /\ newEntries[t] = Absent

\* Lines 472-481 fail: the files are gone, their entries stay.
PruneFails ==
  /\ PruneEnd
  /\ disturbed' = disturbed \cup {t \in Traces : Pruned(t)}
  /\ UNCHANGED index

Indexing(t) == \E w \in Active(t) : pc[w] = "index"

\* The collector dies anywhere and NewFileStorage runs again: the files are
\* as they were, the mutexes are new.
Restart ==
  /\ pc' = [w \in Writers |-> "idle"]
  /\ request' = [w \in Writers |-> {}]
  /\ mutex' = [w \in Writers |-> 0] /\ current' = [t \in Traces |-> 0]
  /\ handle' = [w \in Writers |-> "none"]
  /\ prunePc' = "idle" /\ toDelete' = {} /\ newEntries' = [t \in Traces |-> Absent]
  /\ disturbed' = disturbed \cup {t \in Traces : Pruned(t) \/ Indexing(t)}
  /\ UNCHANGED <<files, prunes>>
-----------------------------------------------------------------------------
Next ==
  \/ \E w \in Writers :
       \/ \E t \in Traces, v \in Values : StoreTrace(w, t, v)
       \/ Lock(w) \/ OpenTmp(w) \/ WriteTmp(w) \/ RenameTmp(w) \/ UpdateIndex(w)
       \/ GiveUp(w)
  \/ PruneRead \/ PruneWrite \/ PruneFails
  \/ \E t \in Traces, removed \in BOOLEAN : PruneDelete(t, removed)
  \/ Restart

Spec == Init /\ [][Next]_vars
-----------------------------------------------------------------------------
(* Two stores of one trace never work on its files at once, although every *)
(* store fetches the mutex first and locks it later - unless a prune took  *)
(* the mutex out of the map while a store had it (line 460).               *)
OneHolder == \A t \in Traces \ disturbed : Cardinality(Holders(t)) <= 1

(* storage.go:221 "Atomic rename": whenever the collector dies, a trace    *)
(* file is a complete trace or not there, although all stores of a trace   *)
(* share one temporary file and any of its steps may fail.                 *)
NeverTorn == \A t \in Traces \ disturbed : file[t] \notin {Empty, Torn}

(* The index says what the files say: at any moment at which a trace's     *)
(* last store is not about to index it and no prune is deleting it, its    *)
(* entry is that of its file, and a trace without a file has no entry.     *)
(* ListTraces and PruneTraces find traces by the index alone.              *)
IndexMatchesFiles ==
  \A t \in Traces \ disturbed : ~Pruned(t) /\ ~Indexing(t) => index[t] = file[t]

Storage == INSTANCE TraceStorage
             WITH traces <- file, stored <- {w \in Writers : pc[w] = "index"}

(* A store of a trace takes effect at its rename, once, between its call   *)
(* and its return, and only expired traces are removed: while no prune,    *)
(* crash or error has interfered, the file storage behaves as module       *)
(* TraceStorage.                                                           *)
StorageContract ==
  [][disturbed' = {} => Storage!Next \/ UNCHANGED Storage!vars]_vars
=============================================================================
