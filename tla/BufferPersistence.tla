------------------------- MODULE BufferPersistence -------------------------
(***************************************************************************)
(* The span buffer with its file, span-buffer.json: the persist timer, the *)
(* goroutines in persistToDisk, and a process that dies and starts again   *)
(* (pkg/reliability.go lines 34-205).  Memory is module SpanBuffer.        *)
(*                                                                         *)
(* persistToDisk runs without the lock after it has copied the buffer, and *)
(* every run of it writes the same temporary file.  A file is its content; *)
(* a goroutine that has opened one keeps writing to it when it is renamed  *)
(* (ioutil.WriteFile: open and truncate, write at offset 0, close).        *)
(***************************************************************************)
EXTENDS Integers, Sequences, FiniteSets, SequencesExt

CONSTANTS Spans, Size, Flushers, Rejects,   \* as in SpanBuffer
          BatchSize,                        \* batchSize of every Flush
          Persisters,         \* bound: goroutines in persistToDisk at once
          Absent, Empty, Torn \* a file that is not there, has just been
                              \* truncated, or does not parse

ASSUME ContentAssumption ==
  /\ {Absent, Empty, Torn} \cap Seq(Spans) = {}
  /\ Absent \notin {Empty, Torn} /\ Empty # Torn

ASSUME SizesAssumption == Size \in Nat \ {0} /\ BatchSize \in Nat

VARIABLES spans, flushPc, batch,                         \* module SpanBuffer
          added, received, rejected, dropped, overtaken, misaligned,
          armed,      \* persistTimer is running
          persistPc,  \* where each persister is
          snapshot,   \* its copy of the buffer
          handle,     \* the file it has open: tmp, file, or one replaced since
          tmp,        \* content of span-buffer.json.tmp
          file,       \* content of span-buffer.json
          overlapped  \* two persists have been under way at once

SB == INSTANCE SpanBuffer

fates  == <<added, received, rejected, dropped>>
memory == <<spans, flushPc, batch, fates, overtaken, misaligned>>
disk == <<persistPc, snapshot, handle, tmp, file>>
vars == <<memory, armed, disk, overlapped>>

Contents == Seq(Spans) \cup {Absent, Empty, Torn}

UnderWay == {p \in Persisters : persistPc[p] \in {"open", "write", "rename"}}

\* With what a goroutine holds in each phase: nothing empty is written, and a
\* file is only open between opening and writing.
TypeOK ==
  /\ SB!BufferTypeOK
  /\ armed \in BOOLEAN
  /\ persistPc \in [Persisters -> {"idle", "start", "open", "write", "rename"}]
  /\ snapshot \in [Persisters -> Seq(Spans)]
  /\ handle \in [Persisters -> {"none", "tmp", "file", "replaced"}]
  /\ \A p \in UnderWay : snapshot[p] # <<>>
  /\ \A p \in Persisters : handle[p] # "none" <=> persistPc[p] = "write"
  /\ {tmp, file} \subseteq Contents
  /\ overlapped \in BOOLEAN

\* First start of the process: there is no file yet.
Init ==
  /\ SB!BufferInit
  /\ armed = TRUE
  /\ persistPc = [p \in Persisters |-> "idle"]
  /\ snapshot = [p \in Persisters |-> <<>>]
  /\ handle = [p \in Persisters |-> "none"]
  /\ tmp = Absent
  /\ file = Absent
  /\ overlapped = FALSE
-----------------------------------------------------------------------------
Spawn(p) ==
  /\ persistPc[p] = "idle"
  /\ persistPc' = [persistPc EXCEPT ![p] = "start"]

\* Mutant of Rearm: Add forgets to restart the timer.
Rearm_Never == armed' = armed

\* Line 64, persistTimer.Reset.
Rearm == armed' = TRUE

Add(s) ==
  /\ SB!Add(s)
  /\ Rearm
  /\ UNCHANGED <<disk, overlapped>>

FlushBegin(f) == SB!FlushBegin(f, BatchSize) /\ UNCHANGED <<armed, disk, overlapped>>
Answer(f)     == SB!Answer(f)                /\ UNCHANGED <<armed, disk, overlapped>>
FlushFail(f)  == SB!FlushFail(f)             /\ UNCHANGED <<armed, disk, overlapped>>

\* Mutant of FlushOk: the shorter buffer is not persisted.
FlushOk_NoPersist(f) ==
  /\ SB!FlushOk(f)
  /\ UNCHANGED <<armed, disk, overlapped>>

\* Line 137: go b.persistToDisk().
FlushOk(f) ==
  /\ SB!FlushOk(f)
  /\ \E p \in Persisters : Spawn(p)
  /\ UNCHANGED <<armed, snapshot, handle, tmp, file, overlapped>>

\* time.AfterFunc runs persistToDisk in a goroutine of its own, once.
TimerFires(p) ==
  /\ armed
  /\ armed' = FALSE
  /\ Spawn(p)
  /\ UNCHANGED <<memory, snapshot, handle, tmp, file, overlapped>>
-----------------------------------------------------------------------------
\* Lines 144-153: an empty buffer is not written, so the file keeps what a flush
\* has delivered and a restart brings it back.
CopyBuffer(p) ==
  /\ persistPc[p] = "start"
  /\ persistPc' = [persistPc EXCEPT ![p] = IF spans = <<>> THEN "idle" ELSE "open"]
  /\ snapshot' = [snapshot EXCEPT ![p] = spans]
  /\ overlapped' = (overlapped \/ UnderWay \ {p} # {})
  /\ UNCHANGED <<memory, armed, handle, tmp, file>>

\* Mutant of OpenTmp: the snapshot is written in place.
OpenTmp_InPlace(p) ==
  /\ persistPc[p] = "open"
  /\ persistPc' = [persistPc EXCEPT ![p] = "write"]
  /\ handle' = [handle EXCEPT ![p] = "file"]
  /\ file' = Empty
  /\ UNCHANGED <<memory, armed, snapshot, tmp, overlapped>>

\* Line 166, opening: O_CREATE | O_TRUNC.
OpenTmp(p) ==
  /\ persistPc[p] = "open"
  /\ persistPc' = [persistPc EXCEPT ![p] = "write"]
  /\ handle' = [handle EXCEPT ![p] = "tmp"]
  /\ tmp' = Empty
  /\ UNCHANGED <<memory, armed, snapshot, file, overlapped>>

\* A write at offset 0 replaces what is there, or leaves the end of it.
Overwrite(old, new) == IF old \in {Empty, new} THEN {new} ELSE {new, Torn}

\* Line 166, writing and closing.
WriteTmp(p) ==
  /\ persistPc[p] = "write"
  /\ persistPc' = [persistPc EXCEPT ![p] = "rename"]
  /\ handle' = [handle EXCEPT ![p] = "none"]
  /\ IF handle[p] = "tmp"  THEN tmp'  \in Overwrite(tmp, snapshot[p])  ELSE UNCHANGED tmp
  /\ IF handle[p] = "file" THEN file' \in Overwrite(file, snapshot[p]) ELSE UNCHANGED file
  /\ UNCHANGED <<memory, armed, snapshot, overlapped>>

Renamed == [none |-> "none", tmp |-> "file", file |-> "replaced", replaced |-> "replaced"]

\* Line 173.  Without a temporary file the rename fails and is only logged.
RenameTmp(p) ==
  /\ persistPc[p] = "rename"
  /\ persistPc' = [persistPc EXCEPT ![p] = "idle"]
  /\ snapshot' = [snapshot EXCEPT ![p] = <<>>]
  /\ IF tmp = Absent
     THEN UNCHANGED <<tmp, file, handle>>
     ELSE /\ file' = tmp
          /\ tmp' = Absent
          /\ handle' = [q \in Persisters |-> Renamed[handle[q]]]
  /\ UNCHANGED <<memory, armed, overlapped>>
-----------------------------------------------------------------------------
\* The process dies anywhere and NewSpanBuffer runs again: memory and
\* goroutines are gone, loadFromDisk takes the file if it parses, and leaves
\* it where it is.
Restart ==
  /\ spans' = IF file \in {Absent, Empty, Torn} THEN <<>> ELSE file
  /\ flushPc' = [f \in Flushers |-> "idle"]
  /\ batch' = [f \in Flushers |-> <<>>]
  /\ overtaken' = {}
  /\ armed' = TRUE
  /\ persistPc' = [p \in Persisters |-> "idle"]
  /\ snapshot' = [p \in Persisters |-> <<>>]
  /\ handle' = [p \in Persisters |-> "none"]
  /\ UNCHANGED <<fates, misaligned, tmp, file, overlapped>>

Persist(p) == CopyBuffer(p) \/ OpenTmp(p) \/ WriteTmp(p) \/ RenameTmp(p)

Next ==
  \/ \E s \in Spans \ added : Add(s)
  \/ \E f \in Flushers : FlushBegin(f) \/ Answer(f) \/ FlushFail(f) \/ FlushOk(f)
  \/ \E p \in Persisters : TimerFires(p) \/ Persist(p)
  \/ Restart

\* The timer fires and persistToDisk, which only does local file I/O, ends.
Fairness ==
  /\ WF_vars(\E p \in Persisters : TimerFires(p))
  /\ \A p \in Persisters : WF_vars(Persist(p))

Spec == Init /\ [][Next]_vars /\ Fairness
-----------------------------------------------------------------------------
Quiet == ~armed /\ \A p \in Persisters : persistPc[p] = "idle"

Readable(content) == content \notin {Absent, Empty, Torn}

(* reliability.go:172 "Atomic rename": whatever moment the process dies,   *)
(* span-buffer.json is a complete snapshot or is not there - as long as    *)
(* two goroutines have not been writing it at once, which no lock of       *)
(* persistToDisk rules out.                                                *)
TornOnlyByOverlap == ~overlapped => file \notin {Empty, Torn}

(* Nothing is forgotten by the timer: when no persist is pending or        *)
(* running, a non-empty buffer is exactly what the file holds, so a crash  *)
(* then loses nothing.  Needs Add to rearm the timer and every successful  *)
(* Flush to start a persist, whatever ran in between.                      *)
DurableWhenQuiet == ~overlapped /\ Quiet /\ spans # <<>> => file = spans

(* A buffered span gets to disk or leaves the buffer, also when the        *)
(* process keeps dying.  In this module every span is added once, so Adds  *)
(* cannot go on resetting the timer for ever.                              *)
EventuallySaved ==
  []~overlapped =>
    \A s \in Spans :
      s \in ToSet(spans) ~> (s \notin ToSet(spans) \/ (Readable(file) /\ s \in ToSet(file)))
=============================================================================
