----------------------------- MODULE LogIngest ------------------------------
(***************************************************************************)
(* Spans that a tracer writes to log files (LogSpan, tracer.go:443-470)    *)
(* and a collector that looks for such files, stores their spans and moves *)
(* them out of the way (collector.go:193-295).                             *)
(*                                                                         *)
(* A name stands for different files over time: after the collector has    *)
(* renamed a file the tracer creates the next one under the old name.      *)
(* Whoever has a file open keeps that file; a rename moves the file that   *)
(* has the name at that moment.  Every scan starts a goroutine, here a     *)
(* processor, for every file it sees, also for one that is being           *)
(* processed.                                                              *)
(***************************************************************************)
EXTENDS Integers, Sequences, FiniteSets

CONSTANTS Names,         \* spans-<service>-<day>.log
          Files, NoFile,
          Spans, NoSpan,
          Writers,       \* goroutines that call LogSpan
          Processors,    \* bound: goroutines of queueFileProcessing alive
          MaxProcessors, \* config.MaxConcurrentProcessors
          MaxCrashes     \* bound: crashes of the collector

ASSUME NoneAssumption == NoFile \notin Files /\ NoSpan \notin Spans
ASSUME ActorsAssumption == Writers \cap Processors = {}
ASSUME MaxAssumption == MaxProcessors \in Nat \ {0} /\ MaxCrashes \in Nat

VARIABLES named,     \* the file with a name, or NoFile
          lines,     \* the spans in each file
          used,      \* files ever created
          tooLong,   \* spans whose line is longer than bufio.Scanner takes
          writing,   \* the span a writer is logging, or NoSpan
          handle,    \* the file a writer or a processor has open
          pc, name,  \* where a processor is, and the name it was started for
          pos,       \* the lines it has read
          stored,    \* spans StoreSpan has stored
          crashes,
          logged,    \* spans passed to LogSpan
          skipped,   \* spans StoreSpan has refused, or whose file was given up
          late,      \* spans written to a file already read to its end
          stolen,    \* files renamed by a processor that had another one open
          rereads, twice  \* files opened again, and spans stored again

disk   == <<named, lines, used>>
writer == <<writing, logged, tooLong>>
ghosts == <<late, stolen, rereads>>
vars   == <<disk, writer, handle, pc, name, pos, stored, crashes, skipped, twice, ghosts>>

Retired == used \ {named[n] : n \in Names}

\* Processors that hold a slot of processorSem.
Running == {p \in Processors : pc[p] \in {"open", "read", "rename"}}

TypeOK ==
  /\ named \in [Names -> used \cup {NoFile}] /\ used \subseteq Files
  /\ lines \in [Files -> Seq(Spans)]
  /\ writing \in [Writers -> Spans \cup {NoSpan}]
  /\ handle \in [Writers \cup Processors -> used \cup {NoFile}]
  /\ \A w \in Writers : writing[w] # NoSpan <=> handle[w] # NoFile
  /\ pc \in [Processors -> {"idle", "queued", "open", "read", "rename"}]
  /\ name \in [Processors -> Names]
  /\ pos \in [Processors -> Nat]
  /\ \A p \in Processors : handle[p] # NoFile <=> pc[p] \in {"read", "rename"}
  /\ \A p \in Processors : handle[p] # NoFile => pos[p] <= Len(lines[handle[p]])
  /\ {tooLong, stored, logged, skipped, late, twice} \subseteq SUBSET Spans
  /\ {stolen, rereads} \subseteq SUBSET used
  /\ crashes \in 0..MaxCrashes

Init ==
  /\ named = [n \in Names |-> NoFile] /\ lines = [f \in Files |-> <<>>] /\ used = {}
  /\ writing = [w \in Writers |-> NoSpan]
  /\ handle = [a \in Writers \cup Processors |-> NoFile]
  /\ pc = [p \in Processors |-> "idle"] /\ name \in [Processors -> Names]
  /\ pos = [p \in Processors |-> 0]
  /\ tooLong \in SUBSET Spans
  /\ stored = {} /\ logged = {} /\ skipped = {} /\ late = {}
  /\ stolen = {} /\ rereads = {} /\ twice = {}
  /\ crashes = 0
-----------------------------------------------------------------------------
\* A processor has found the end of f: it will not see what comes later.
ReadToEnd(f) == f \in Retired \/ \E p \in Processors : pc[p] = "rename" /\ handle[p] = f

\* Line 459: the file that has the name now, or a new one.
LogOpen(w, s, n) ==
  /\ writing[w] = NoSpan /\ s \notin logged
  /\ \E f \in IF named[n] = NoFile THEN Files \ used ELSE {named[n]} :
       /\ named' = [named EXCEPT ![n] = f]
       /\ used' = used \cup {f}
       /\ handle' = [handle EXCEPT ![w] = f]
  /\ writing' = [writing EXCEPT ![w] = s]
  /\ logged' = logged \cup {s}
  /\ UNCHANGED <<lines, tooLong, pc, name, pos, stored, crashes, skipped, twice, ghosts>>

LogClose(w) ==
  /\ writing[w] # NoSpan
  /\ writing' = [writing EXCEPT ![w] = NoSpan]
  /\ handle' = [handle EXCEPT ![w] = NoFile]
  /\ UNCHANGED <<named, used, logged, tooLong, pc, name, pos, stored, crashes, skipped, twice,
                 stolen, rereads>>

\* Line 465: one write with O_APPEND.
LogWrite(w) ==
  LET f == handle[w] IN
  /\ LogClose(w)
  /\ lines' = [lines EXCEPT ![f] = Append(@, writing[w])]
  /\ late' = IF ReadToEnd(f) THEN late \cup {writing[w]} ELSE late

\* Lines 465-467; Close drops the error.
LogFails(w) == LogClose(w) /\ UNCHANGED <<lines, late>>
-----------------------------------------------------------------------------
Goto(p, from, to) == pc[p] = from /\ pc' = [pc EXCEPT ![p] = to]

\* Some of f was read before, or is being read.
Reopened(f) ==
  \/ \E i \in 1..Len(lines[f]) : lines[f][i] \in stored \cup skipped
  \/ \E p \in Processors : handle[p] = f

\* Mutant of ScanLogFiles: a file that was begun is not looked at again.
ScanLogFiles_Once(p, n) ==
  /\ named[n] # NoFile /\ ~Reopened(named[n])
  /\ Goto(p, "idle", "queued")
  /\ name' = [name EXCEPT ![p] = n]
  /\ UNCHANGED <<disk, writer, handle, pos, stored, crashes, skipped, twice, ghosts>>

\* Lines 201-218: a scan sees the file and starts a goroutine.
ScanLogFiles(p, n) ==
  /\ named[n] # NoFile
  /\ Goto(p, "idle", "queued")
  /\ name' = [name EXCEPT ![p] = n]
  /\ UNCHANGED <<disk, writer, handle, pos, stored, crashes, skipped, twice, ghosts>>

\* Line 219: processorSem.
Acquire(p) ==
  /\ Cardinality(Running) < MaxProcessors
  /\ Goto(p, "queued", "open")
  /\ UNCHANGED <<disk, writer, handle, name, pos, stored, crashes, skipped, twice, ghosts>>

\* Lines 231-248.
OpenFile(p) ==
  LET f == named[name[p]] IN
  /\ f # NoFile
  /\ Goto(p, "open", "read")
  /\ handle' = [handle EXCEPT ![p] = f]
  /\ pos' = [pos EXCEPT ![p] = 0]
  /\ rereads' = IF Reopened(f) THEN rereads \cup {f} ELSE rereads
  /\ UNCHANGED <<disk, writer, name, stored, crashes, skipped, twice, late, stolen>>

NextLine(p) == lines[handle[p]][pos[p] + 1]

Read(p) ==
  /\ pc[p] = "read" /\ pos[p] < Len(lines[handle[p]]) /\ NextLine(p) \notin tooLong
  /\ pos' = [pos EXCEPT ![p] = @ + 1]
  /\ late' = late \ {NextLine(p)}
  /\ UNCHANGED <<disk, writer, handle, pc, name, crashes, stolen, rereads>>

Stored(s) == stored' = stored \cup {s} /\ twice' = twice \cup ({s} \cap stored)

\* Lines 252-277, for one line.
StoreLine(p) == Read(p) /\ Stored(NextLine(p)) /\ UNCHANGED skipped

\* Mutant of SkipLine: a refused line is tried once more.
SkipLine_Again(p) ==
  /\ pc[p] = "read" /\ pos[p] < Len(lines[handle[p]]) /\ NextLine(p) \notin tooLong
  /\ skipped' = skipped \cup {NextLine(p)}
  /\ Stored(NextLine(p)) \/ UNCHANGED <<stored, twice>>
  /\ UNCHANGED <<disk, writer, handle, pc, pos, name, crashes, ghosts>>

\* Lines 263-267: the error is printed and the next line is read.
SkipLine(p) ==
  /\ Read(p)
  /\ skipped' = skipped \cup {NextLine(p)}
  /\ Stored(NextLine(p)) \/ UNCHANGED <<stored, twice>>

\* Mutant of EndOfFile: scanner.Err() is not looked at.
EndOfFile_NoCheck(p) ==
  /\ handle[p] # NoFile
  /\ pos[p] < Len(lines[handle[p]]) => NextLine(p) \in tooLong
  /\ Goto(p, "read", "rename")
  /\ UNCHANGED <<disk, writer, handle, name, pos, stored, crashes, skipped, twice, ghosts>>

\* Lines 279-281: the scanner has come to the end without an error.
EndOfFile(p) ==
  /\ handle[p] # NoFile /\ pos[p] = Len(lines[handle[p]])
  /\ Goto(p, "read", "rename")
  /\ UNCHANGED <<disk, writer, handle, name, pos, stored, crashes, skipped, twice, ghosts>>

\* The deferred calls: the files are closed and the slot is given back.
Leave(p) ==
  /\ pc' = [pc EXCEPT ![p] = "idle"]
  /\ handle' = [handle EXCEPT ![p] = NoFile]
  /\ pos' = [pos EXCEPT ![p] = 0]
  /\ UNCHANGED <<lines, used, writer, name, stored, crashes, skipped, twice, late, rereads>>

\* Lines 283-287: the file that has the name now.
RenameFile(p) ==
  LET f == named[name[p]] IN
  /\ pc[p] = "rename" /\ f # NoFile
  /\ named' = [named EXCEPT ![name[p]] = NoFile]
  /\ stolen' = IF f = handle[p] THEN stolen ELSE stolen \cup {f}
  /\ Leave(p)

\* An error return: no file, or it cannot be opened (231-247), a line that the
\* scanner refuses (279-281), no file to rename, or it cannot be (285-287).
GiveUp(p) ==
  /\ \/ pc[p] \in {"open", "rename"}
     \/ pc[p] = "read" /\ pos[p] < Len(lines[handle[p]]) /\ NextLine(p) \in tooLong
  /\ Leave(p)
  /\ UNCHANGED <<named, stolen>>

\* The collector dies and comes back.
Crash ==
  /\ crashes < MaxCrashes
  /\ crashes' = crashes + 1
  /\ pc' = [p \in Processors |-> "idle"]
  /\ pos' = [p \in Processors |-> 0]
  /\ handle' = [a \in Writers \cup Processors |-> IF a \in Writers THEN handle[a] ELSE NoFile]
  /\ UNCHANGED <<disk, writer, name, stored, skipped, twice, ghosts>>
-----------------------------------------------------------------------------
ProcessLogFile(p) ==
  \/ OpenFile(p) \/ StoreLine(p) \/ SkipLine(p) \/ EndOfFile(p) \/ RenameFile(p) \/ GiveUp(p)

Next ==
  \/ \E w \in Writers :
       LogWrite(w) \/ LogFails(w) \/ \E s \in Spans, n \in Names : LogOpen(w, s, n)
  \/ \E p \in Processors :
       Acquire(p) \/ ProcessLogFile(p) \/ \E n \in Names : ScanLogFiles(p, n)
  \/ Crash

\* Scans go on and start a goroutine for every file they see; a channel
\* serves waiting senders in turn; a goroutine gets on.  Opening and renaming
\* a file do not fail for ever.
Fairness ==
  /\ \A n \in Names :
       /\ SF_vars(\E p \in Processors : ScanLogFiles(p, n))
       /\ SF_vars(\E p \in Processors : name[p] = n /\ OpenFile(p))
       /\ SF_vars(\E p \in Processors : name[p] = n /\ RenameFile(p))
  /\ \A p \in Processors : SF_vars(Acquire(p)) /\ WF_vars(ProcessLogFile(p))

Spec == Init /\ [][Next]_vars /\ Fairness
-----------------------------------------------------------------------------
ContentOf(f) == {lines[f][i] : i \in 1..Len(lines[f])}

(* The collector puts a file away only when it has dealt with every span   *)
(* in it: each was stored, or StoreSpan refused it.  Crashes, errors and   *)
(* processors at work on the same file do not change that.  The two ways   *)
(* around it are a span written after the file was read to its end, and a  *)
(* processor that renames a newer file than the one it has read.           *)
RetiredIsStored ==
  \A f \in Retired \ stolen : ContentOf(f) \subseteq stored \cup skipped \cup late

(* A span is stored twice only if its file was opened a second time: while *)
(* another processor had it, or after a processor had not come to the      *)
(* rename (a crash, an error, a line that is too long).                    *)
DuplicatesNeedRereads == twice \subseteq UNION {ContentOf(f) : f \in rereads}

(* Every span in a log file is stored in the end, however often processors *)
(* fail and crash on the way, with the exceptions of RetiredIsStored and   *)
(* of a file that has a line the scanner refuses, which nothing moves.     *)
LoggedIsStored ==
  \A s \in Spans :
    (\E f \in Files : s \in ContentOf(f)) ~>
       \/ s \in stored \cup skipped \cup late
       \/ \E f \in Files :
            s \in ContentOf(f) /\ (f \in stolen \/ ContentOf(f) \cap tooLong # {})
=============================================================================
