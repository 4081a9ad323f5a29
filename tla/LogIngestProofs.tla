--------------------------- MODULE LogIngestProofs ---------------------------
(***************************************************************************)
(* Type correctness of module LogIngest, and that a file that was put away *)
(* has been dealt with line by line, for any number of files, writers and  *)
(* processors on one name.                                                 *)
(*                                                                         *)
(* RetiredIsStored is not inductive: the rename relies on what the         *)
(* processor did before.  The strengthening follows a processor from line  *)
(* to line, and says that what it has read to the end stays dealt with,    *)
(* although writers may still append.  For DuplicatesNeedRereads, that a   *)
(* span is in one line only, and that a file opened once has been read as  *)
(* far as its one processor has come.                                      *)
(***************************************************************************)
EXTENDS LogIngest, TLAPS

Covered == stored \cup skipped \cup late

\* The lines a processor has read.
LinesReadCovered ==
  \A p \in Processors : handle[p] # NoFile =>
    \A i \in 1..pos[p] : lines[handle[p]][i] \in Covered

\* The file of a processor that is about to rename.
EndCovered ==
  \A p \in Processors : pc[p] = "rename" => ContentOf(handle[p]) \subseteq Covered

IInv == TypeOK /\ LinesReadCovered /\ EndCovered /\ RetiredIsStored

LEMMA TypeInductive == TypeOK /\ [Next]_vars => TypeOK'
<1> SUFFICES ASSUME TypeOK, [Next]_vars PROVE TypeOK'
  OBVIOUS
<1> USE NoneAssumption, ActorsAssumption DEF TypeOK
<1>1. ASSUME NEW w \in Writers, NEW s \in Spans, NEW n \in Names, LogOpen(w, s, n)
      PROVE  TypeOK'
  BY <1>1 DEF LogOpen, ghosts
<1>2. ASSUME NEW w \in Writers, LogWrite(w) PROVE TypeOK'
  BY <1>2 DEF LogWrite, LogClose
<1>3. ASSUME NEW w \in Writers, LogFails(w) PROVE TypeOK'
  BY <1>3 DEF LogFails, LogClose
<1>4. ASSUME NEW p \in Processors, NEW n \in Names, ScanLogFiles(p, n) PROVE TypeOK'
  BY <1>4 DEF ScanLogFiles, Goto, disk, writer, ghosts
<1>5. ASSUME NEW p \in Processors, Acquire(p) PROVE TypeOK'
  BY <1>5 DEF Acquire, Goto, disk, writer, ghosts
<1>6. ASSUME NEW p \in Processors, OpenFile(p) PROVE TypeOK'
  BY <1>6 DEF OpenFile, Goto, disk, writer
<1>7. ASSUME NEW p \in Processors, StoreLine(p) PROVE TypeOK'
  BY <1>7 DEF StoreLine, Read, Stored, NextLine, disk, writer
<1>8. ASSUME NEW p \in Processors, SkipLine(p) PROVE TypeOK'
  BY <1>8 DEF SkipLine, Read, Stored, NextLine, disk, writer
<1>9. ASSUME NEW p \in Processors, EndOfFile(p) PROVE TypeOK'
  BY <1>9 DEF EndOfFile, Goto, disk, writer, ghosts
<1>10. ASSUME NEW p \in Processors, RenameFile(p) PROVE TypeOK'
  BY <1>10 DEF RenameFile, Leave, writer
<1>11. ASSUME NEW p \in Processors, GiveUp(p) PROVE TypeOK'
  BY <1>11 DEF GiveUp, Leave, writer
<1>12. ASSUME Crash PROVE TypeOK'
  BY <1>12, MaxAssumption DEF Crash, disk, writer, ghosts
<1>13. CASE UNCHANGED vars
  BY <1>13 DEF vars, disk, writer, ghosts
<1> QED
  BY <1>1, <1>2, <1>3, <1>4, <1>5, <1>6, <1>7, <1>8, <1>9, <1>10, <1>11, <1>12, <1>13
     DEF Next, ProcessLogFile

\* A line that is in a file stays where it is.
LEMMA LinesStay ==
  ASSUME TypeOK, [Next]_vars, NEW f \in Files, NEW i \in 1..Len(lines[f])
  PROVE  i \in 1..Len(lines'[f]) /\ lines'[f][i] = lines[f][i]
<1> USE DEF TypeOK
<1>1. ASSUME NEW w \in Writers, LogWrite(w)
      PROVE  i \in 1..Len(lines'[f]) /\ lines'[f][i] = lines[f][i]
  BY <1>1, NoneAssumption DEF LogWrite, LogClose
<1>2. CASE ~\E w \in Writers : LogWrite(w)
  <2>1. lines' = lines
    BY <1>2 DEF Next, ProcessLogFile, LogOpen, LogFails, LogClose, ScanLogFiles, Acquire,
                OpenFile, StoreLine, SkipLine, Read, EndOfFile, RenameFile, GiveUp, Leave,
                Crash, vars, disk
  <2> QED BY <2>1
<1> QED BY <1>1, <1>2

\* A span that was dealt with stays so: it leaves late only when it is read.
LEMMA CoveredStays == TypeOK /\ [Next]_vars => Covered \subseteq Covered'
<1> SUFFICES ASSUME TypeOK, [Next]_vars PROVE Covered \subseteq Covered'
  OBVIOUS
<1> USE DEF Covered
<1>1. ASSUME NEW p \in Processors, StoreLine(p) PROVE Covered \subseteq Covered'
  BY <1>1 DEF StoreLine, Read, Stored
<1>2. ASSUME NEW p \in Processors, SkipLine(p) PROVE Covered \subseteq Covered'
  BY <1>2 DEF SkipLine, Read, Stored
<1>3. ASSUME NEW w \in Writers, LogWrite(w) PROVE Covered \subseteq Covered'
  BY <1>3 DEF LogWrite, LogClose
<1>4. CASE ~(\E p \in Processors : StoreLine(p) \/ SkipLine(p)) /\ ~\E w \in Writers : LogWrite(w)
  BY <1>4 DEF Next, ProcessLogFile, LogOpen, LogFails, LogClose, ScanLogFiles, Acquire,
              OpenFile, EndOfFile, RenameFile, GiveUp, Leave, Crash, vars, ghosts
<1> QED BY <1>1, <1>2, <1>3, <1>4

\* Where no line is added, a covered file stays covered.
LEMMA ContentStaysCovered ==
  ASSUME TypeOK, [Next]_vars, NEW f \in Files, lines'[f] = lines[f], ContentOf(f) \subseteq Covered
  PROVE  ContentOf(f)' \subseteq Covered'
BY CoveredStays DEF ContentOf

\* A line that is added to a covered file a processor will not look at again.
LEMMA LateIsCovered ==
  ASSUME TypeOK, NEW w \in Writers, LogWrite(w), [Next]_vars,
         NEW f \in Files, ReadToEnd(f), ContentOf(f) \subseteq Covered
  PROVE  ContentOf(f)' \subseteq Covered'
<1>1. CASE f = handle[w]
  <2>1. lines'[f] = Append(lines[f], writing[w]) /\ writing[w] \in Covered'
    BY <1>1 DEF LogWrite, LogClose, TypeOK, Covered
  <2>2. lines[f] \in Seq(Spans)
    BY DEF TypeOK
  <2>3. ASSUME NEW i \in 1..Len(lines'[f]) PROVE lines'[f][i] \in Covered'
    <3>1. CASE i = Len(lines[f]) + 1
      BY <3>1, <2>1, <2>2
    <3>2. CASE i # Len(lines[f]) + 1
      BY <3>2, <2>1, <2>2, CoveredStays DEF ContentOf
    <3> QED BY <3>1, <3>2
  <2> QED BY <2>3 DEF ContentOf
<1>2. CASE f # handle[w]
  <2>1. lines'[f] = lines[f]
    BY <1>2 DEF LogWrite, TypeOK
  <2> QED BY <2>1, ContentStaysCovered
<1> QED BY <1>1, <1>2

LEMMA LinesReadInductive == TypeOK /\ LinesReadCovered /\ [Next]_vars => LinesReadCovered'
<1> SUFFICES ASSUME TypeOK, LinesReadCovered, [Next]_vars,
                    NEW q \in Processors, handle'[q] # NoFile, NEW i \in 1..pos'[q]
             PROVE  lines'[handle'[q]][i] \in Covered'
  BY DEF LinesReadCovered
<1>1. CASE handle'[q] = handle[q] /\ pos'[q] = pos[q]
  <2>1. handle[q] \in Files /\ i \in 1..Len(lines[handle[q]])
    BY <1>1, NoneAssumption DEF TypeOK
  <2>2. lines[handle[q]][i] \in Covered
    BY <1>1 DEF LinesReadCovered
  <2> QED BY <1>1, <2>1, <2>2, LinesStay, CoveredStays
<1>2. ASSUME Read(q), StoreLine(q) \/ SkipLine(q)
      PROVE  lines'[handle'[q]][i] \in Covered'
  <2>1. /\ handle' = handle /\ lines' = lines /\ pos'[q] = pos[q] + 1 /\ pos[q] \in Nat
        /\ handle[q] \in Files /\ NextLine(q) \in Covered'
    BY <1>2, NoneAssumption DEF Read, StoreLine, SkipLine, Stored, disk, TypeOK, Covered
  <2>2. CASE i = pos[q] + 1
    BY <2>1, <2>2 DEF NextLine
  <2>3. CASE i # pos[q] + 1
    <3>1. i \in 1..pos[q]
      BY <2>1, <2>3
    <3> QED BY <2>1, <3>1, CoveredStays DEF LinesReadCovered
  <2> QED BY <2>2, <2>3
<1>3. CASE ~(handle'[q] = handle[q] /\ pos'[q] = pos[q])
  <2>1. \/ pos'[q] = 0
        \/ Read(q) /\ (StoreLine(q) \/ SkipLine(q))
    BY <1>3, ActorsAssumption
       DEF TypeOK, Next, ProcessLogFile, LogOpen, LogWrite, LogFails, LogClose, ScanLogFiles,
           Acquire, OpenFile, StoreLine, SkipLine, Read, EndOfFile, RenameFile, GiveUp, Leave,
           Crash, vars
  <2> QED BY <2>1, <1>2
<1> QED BY <1>1, <1>3

LEMMA RetiredInductive == IInv /\ [Next]_vars => RetiredIsStored' /\ EndCovered'
<1> SUFFICES ASSUME IInv, [Next]_vars PROVE RetiredIsStored' /\ EndCovered'
  OBVIOUS
<1> USE DEF IInv
<1>1. TypeOK'
  BY TypeInductive
<1>2. Retired \subseteq Files /\ \A p \in Processors : pc[p] = "rename" => handle[p] \in Files
  BY NoneAssumption DEF Retired, TypeOK
<1>3. ASSUME NEW w \in Writers, LogWrite(w) PROVE RetiredIsStored' /\ EndCovered'
  <2>1. Retired' = Retired /\ stolen' = stolen /\ pc' = pc
        /\ \A p \in Processors : handle'[p] = handle[p]
    BY <1>3, ActorsAssumption DEF LogWrite, LogClose, Retired, TypeOK
  <2>2. ASSUME NEW f \in Retired \ stolen PROVE ContentOf(f)' \subseteq Covered'
    BY <1>2, <1>3, <2>2, LateIsCovered DEF RetiredIsStored, ReadToEnd, Covered
  <2>3. ASSUME NEW p \in Processors, pc[p] = "rename"
        PROVE  ContentOf(handle[p])' \subseteq Covered'
    <3> DEFINE f == handle[p]
    <3>1. f \in Files /\ ReadToEnd(f) /\ ContentOf(f) \subseteq Covered
      BY <1>2, <2>3 DEF ReadToEnd, EndCovered
    <3>2. f' = f
      BY <2>1
    <3> HIDE DEF f
    <3>3. ContentOf(f)' \subseteq Covered'
      BY <1>3, <3>1, <3>2, LateIsCovered
    <3> QED BY <3>2, <3>3 DEF f
  <2> QED BY <2>1, <2>2, <2>3 DEF RetiredIsStored, EndCovered, Covered
<1>4. ASSUME NEW p \in Processors, RenameFile(p) PROVE RetiredIsStored' /\ EndCovered'
  <2> DEFINE g == named[name[p]]
  <2>1. /\ lines' = lines /\ Retired' \subseteq Retired \cup {g}
        /\ g \in Files /\ (g = handle[p] \/ g \in stolen') /\ stolen \subseteq stolen'
    BY <1>4 DEF RenameFile, Leave, Retired, TypeOK
  <2>2. \A q \in Processors : pc'[q] = "rename" => pc[q] = "rename" /\ handle'[q] = handle[q]
    BY <1>4 DEF RenameFile, Leave, TypeOK
  <2>3. pc[p] = "rename"
    BY <1>4 DEF RenameFile
  <2>4. ASSUME NEW f \in Retired' \ stolen' PROVE ContentOf(f) \subseteq Covered
    <3>1. f \in Retired \ stolen \/ f = handle[p]
      BY <2>1, <2>4
    <3> QED BY <3>1, <2>3 DEF RetiredIsStored, EndCovered, Covered
  <2> QED BY <1>2, <2>1, <2>2, <2>4, CoveredStays
          DEF RetiredIsStored, EndCovered, ContentOf, Covered
<1>5. ASSUME NEW p \in Processors, EndOfFile(p) PROVE RetiredIsStored' /\ EndCovered'
  <2>1. /\ lines' = lines /\ Retired' = Retired /\ stolen' = stolen /\ handle' = handle
        /\ \A q \in Processors : pc'[q] = "rename" => pc[q] = "rename" \/ q = p
    BY <1>5 DEF EndOfFile, Goto, disk, ghosts, Retired, TypeOK
  <2>2. ContentOf(handle[p]) \subseteq Covered
    BY <1>5 DEF EndOfFile, LinesReadCovered, ContentOf
  <2> QED BY <2>1, <2>2, CoveredStays DEF RetiredIsStored, EndCovered, ContentOf, Covered
<1>6. ASSUME NEW w \in Writers, NEW s \in Spans, NEW n \in Names, LogOpen(w, s, n)
      PROVE  RetiredIsStored' /\ EndCovered'
  <2>1. lines' = lines /\ stolen' = stolen /\ pc' = pc /\ Retired' \subseteq Retired
    <3>1. PICK f : /\ named[n] = NoFile \/ f = named[n]
                   /\ named' = [named EXCEPT ![n] = f] /\ used' = used \cup {f}
      BY <1>6 DEF LogOpen
    <3>2. ASSUME NEW g \in Retired' PROVE g \in Retired
      <4>1. g # f /\ g \in used /\ g # NoFile
        BY <3>1, NoneAssumption DEF Retired, TypeOK
      <4>2. ASSUME NEW m \in Names PROVE g # named[m]
        BY <3>1, <4>1 DEF Retired, TypeOK
      <4> QED BY <4>1, <4>2 DEF Retired
    <3> QED BY <1>6, <3>2 DEF LogOpen, ghosts
  <2>2. \A p \in Processors : handle'[p] = handle[p]
    BY <1>6, ActorsAssumption DEF LogOpen, TypeOK
  <2> QED BY <2>1, <2>2, CoveredStays DEF RetiredIsStored, EndCovered, ContentOf, Covered
<1>7. CASE /\ ~\E w \in Writers : LogWrite(w) \/ \E s \in Spans, n \in Names : LogOpen(w, s, n)
           /\ ~\E p \in Processors : RenameFile(p) \/ EndOfFile(p)
  <2>1. lines' = lines /\ stolen' = stolen /\ Retired' = Retired
    BY <1>7 DEF Next, ProcessLogFile, LogFails, LogClose, ScanLogFiles, Acquire, OpenFile,
                StoreLine, SkipLine, Read, GiveUp, Leave, Crash, vars, disk, ghosts, Retired
  <2>2. \A q \in Processors : pc'[q] = "rename" => pc[q] = "rename" /\ handle'[q] = handle[q]
    BY <1>7, ActorsAssumption
       DEF Next, ProcessLogFile, LogFails, LogClose, ScanLogFiles, Acquire, OpenFile, Goto,
           StoreLine, SkipLine, Read, GiveUp, Leave, Crash, vars, TypeOK
  <2> QED BY <2>1, <2>2, CoveredStays DEF RetiredIsStored, EndCovered, ContentOf, Covered
<1> QED BY <1>3, <1>4, <1>5, <1>6, <1>7

LEMMA InitIInv == Init => IInv
BY NoneAssumption, ActorsAssumption, MaxAssumption
   DEF Init, IInv, TypeOK, LinesReadCovered, EndCovered, RetiredIsStored, Retired

LEMMA Inductive == IInv /\ [Next]_vars => IInv'
BY TypeInductive, LinesReadInductive, RetiredInductive DEF IInv

(* The types of module LogIngest: a processor that has a file open has     *)
(* read no more lines than the file has, whatever is appended, renamed or  *)
(* killed meanwhile.                                                       *)
THEOREM TypeCorrect == Spec => []TypeOK
<1>1. IInv => TypeOK
  BY DEF IInv
<1> QED BY <1>1, InitIInv, Inductive, PTL DEF Spec

(* The collector puts a file away only when every span in it was stored or *)
(* refused, or came after the file was read to its end (collector.go:      *)
(* 251-287), for any number of processors, crashes and files - unless a    *)
(* processor renamed a file other than the one it had read.                *)
THEOREM NothingPutAwayUnread == Spec => []RetiredIsStored
<1>1. IInv => RetiredIsStored
  BY DEF IInv
<1> QED BY <1>1, InitIInv, Inductive, PTL DEF Spec
-----------------------------------------------------------------------------
\* LogSpan is called once for a span: it is in one line of one file, and what a
\* writer is about to write nobody has seen.
LoggedOnce ==
  /\ \A f, g \in Files : \A i \in 1..Len(lines[f]), j \in 1..Len(lines[g]) :
       lines[f][i] = lines[g][j] => f = g /\ i = j
  /\ \A w \in Writers : writing[w] # NoSpan =>
       /\ writing[w] \notin stored /\ \A f \in Files : writing[w] \notin ContentOf(f)
       /\ \A v \in Writers : writing[v] = writing[w] => v = w
       /\ writing[w] \in logged
  /\ stored \subseteq logged /\ \A f \in Files : ContentOf(f) \subseteq logged

\* A file that was opened once: who has it open has stored what is stored of it.
ReadOnce ==
  \A p \in Processors : handle[p] # NoFile /\ handle[p] \notin rereads =>
    /\ \A q \in Processors : handle[q] = handle[p] => q = p
    /\ \A i \in 1..Len(lines[handle[p]]) : lines[handle[p]][i] \in stored => i <= pos[p]

\* What LogWrite makes of the files.
LEMMA WriteLines ==
  ASSUME TypeOK, NEW w \in Writers, LogWrite(w), NEW f \in Files
  PROVE  /\ lines[f] \in Seq(Spans) /\ handle[w] \in Files /\ writing[w] \in Spans
         /\ f # handle[w] => lines'[f] = lines[f]
         /\ f = handle[w] =>
              /\ Len(lines'[f]) = Len(lines[f]) + 1 /\ Len(lines[f]) \in Nat
              /\ \A i \in 1..Len(lines[f]) : lines'[f][i] = lines[f][i]
              /\ lines'[f][Len(lines[f]) + 1] = writing[w]
<1>1. /\ lines[f] \in Seq(Spans) /\ handle[w] \in Files /\ writing[w] \in Spans
      /\ lines' = [lines EXCEPT ![handle[w]] = Append(@, writing[w])]
  BY NoneAssumption DEF TypeOK, LogWrite, LogClose
<1>2. f = handle[w] => lines'[f] = Append(lines[f], writing[w])
  BY <1>1 DEF TypeOK
<1>3. f # handle[w] => lines'[f] = lines[f]
  BY <1>1 DEF TypeOK
<1>4. QED
  BY <1>1, <1>2, <1>3

\* So every line but the new one was there before.
LEMMA WrittenLine ==
  ASSUME TypeOK, NEW w \in Writers, LogWrite(w), NEW f \in Files, NEW i \in 1..Len(lines'[f])
  PROVE  \/ i \in 1..Len(lines[f]) /\ lines'[f][i] = lines[f][i]
         \/ f = handle[w] /\ i = Len(lines[f]) + 1 /\ lines'[f][i] = writing[w]
BY WriteLines

LEMMA LoggedInductive == TypeOK /\ LoggedOnce /\ [Next]_vars => LoggedOnce'
<1> SUFFICES ASSUME TypeOK, LoggedOnce, [Next]_vars PROVE LoggedOnce'
  OBVIOUS
<1>1. ASSUME NEW w \in Writers, NEW s \in Spans, NEW n \in Names, LogOpen(w, s, n)
      PROVE  LoggedOnce'
  <2>1. /\ lines' = lines /\ stored' = stored /\ logged' = logged \cup {s} /\ s \notin logged
        /\ writing[w] = NoSpan /\ writing'[w] = s
        /\ \A v \in Writers \ {w} : writing'[v] = writing[v]
    BY <1>1 DEF LogOpen, TypeOK
  <2>2. \A v \in Writers : writing[v] # s
    BY <2>1, NoneAssumption DEF LoggedOnce
  <2>3. s \notin stored /\ \A f \in Files : s \notin ContentOf(f)
    BY <2>1 DEF LoggedOnce
  <2>4. \A f : ContentOf(f)' = ContentOf(f)
    BY <2>1 DEF ContentOf
  <2>5. ASSUME NEW v \in Writers, writing'[v] # NoSpan
        PROVE  /\ writing'[v] \notin stored /\ \A f \in Files : writing'[v] \notin ContentOf(f)
               /\ \A u \in Writers : writing'[u] = writing'[v] => u = v
               /\ writing'[v] \in logged'
    BY <2>1, <2>2, <2>3, <2>5 DEF LoggedOnce
  <2>6. QED
    BY <2>1, <2>4, <2>5 DEF LoggedOnce
<1>2. ASSUME NEW w \in Writers, LogClose(w), stored' = stored
      PROVE  /\ logged' = logged /\ writing[w] # NoSpan /\ writing'[w] = NoSpan
             /\ \A v \in Writers \ {w} : writing'[v] = writing[v]
  BY <1>2 DEF LogClose, TypeOK
<1>3. ASSUME NEW w \in Writers, LogFails(w) PROVE LoggedOnce'
  BY <1>2, <1>3 DEF LogFails, LogClose, LoggedOnce, ContentOf
<1>4. ASSUME NEW w \in Writers, LogWrite(w) PROVE LoggedOnce'
  <2>1. /\ logged' = logged /\ stored' = stored /\ writing[w] # NoSpan /\ writing'[w] = NoSpan
        /\ \A v \in Writers \ {w} : writing'[v] = writing[v]
    BY <1>2, <1>4 DEF LogWrite, LogClose
  <2>2. \A f \in Files : ContentOf(f)' \subseteq ContentOf(f) \cup {writing[w]}
    BY <1>4, WrittenLine DEF ContentOf
  <2>3. ASSUME NEW f \in Files, NEW g \in Files,
               NEW i \in 1..Len(lines'[f]), NEW j \in 1..Len(lines'[g]),
               lines'[f][i] = lines'[g][j]
        PROVE  f = g /\ i = j
    <3>1. \A h \in Files : \A k \in 1..Len(lines[h]) : lines[h][k] # writing[w]
      BY <2>1 DEF LoggedOnce, ContentOf
    <3>2. /\ \/ i \in 1..Len(lines[f]) /\ lines'[f][i] = lines[f][i]
             \/ f = handle[w] /\ i = Len(lines[f]) + 1 /\ lines'[f][i] = writing[w]
          /\ \/ j \in 1..Len(lines[g]) /\ lines'[g][j] = lines[g][j]
             \/ g = handle[w] /\ j = Len(lines[g]) + 1 /\ lines'[g][j] = writing[w]
      BY <1>4, WrittenLine
    <3>3. QED
      BY <2>3, <3>1, <3>2 DEF LoggedOnce
  <2>4. ASSUME NEW v \in Writers, writing'[v] # NoSpan
        PROVE  /\ writing'[v] \notin stored /\ \A f \in Files : writing'[v] \notin ContentOf(f)'
               /\ \A u \in Writers : writing'[u] = writing'[v] => u = v
               /\ writing'[v] \in logged
    <3>1. v # w /\ writing'[v] = writing[v] /\ writing[v] # writing[w]
      BY <2>1, <2>4 DEF LoggedOnce
    <3>2. QED
      BY <2>1, <2>2, <2>4, <3>1 DEF LoggedOnce
  <2>5. \A f \in Files : ContentOf(f)' \subseteq logged
    BY <2>1, <2>2 DEF LoggedOnce
  <2>6. QED
    BY <2>1, <2>3, <2>4, <2>5 DEF LoggedOnce
<1>5. ASSUME NEW p \in Processors, Read(p), stored' \subseteq stored \cup {NextLine(p)}
      PROVE  LoggedOnce'
  <2>1. lines' = lines /\ writing' = writing /\ logged' = logged
    BY <1>5 DEF Read, disk, writer
  <2>2. handle[p] \in Files /\ NextLine(p) \in ContentOf(handle[p])
    <3>1. /\ handle[p] \in Files /\ pos[p] \in Nat /\ pos[p] < Len(lines[handle[p]])
          /\ Len(lines[handle[p]]) \in Nat
      BY <1>5, NoneAssumption DEF Read, TypeOK
    <3>2. pos[p] + 1 \in 1..Len(lines[handle[p]])
      BY <3>1
    <3>3. QED
      BY <3>1, <3>2 DEF NextLine, ContentOf
  <2>3. \A f : ContentOf(f)' = ContentOf(f)
    BY <2>1 DEF ContentOf
  <2>4. NextLine(p) \in logged /\ \A v \in Writers : writing[v] # NoSpan => writing[v] # NextLine(p)
    BY <2>2 DEF LoggedOnce
  <2>5. QED
    BY <1>5, <2>1, <2>3, <2>4 DEF LoggedOnce
<1>6. ASSUME NEW p \in Processors, StoreLine(p) \/ SkipLine(p) PROVE LoggedOnce'
  BY <1>5, <1>6 DEF StoreLine, SkipLine, Stored
<1>7. CASE UNCHANGED <<lines, writing, stored, logged>>
  BY <1>7 DEF LoggedOnce, ContentOf
<1>8. CASE /\ ~\E w \in Writers : LogWrite(w) \/ LogFails(w)
                                    \/ \E s \in Spans, n \in Names : LogOpen(w, s, n)
           /\ ~\E p \in Processors : StoreLine(p) \/ SkipLine(p)
  <2>1. UNCHANGED <<lines, writing, stored, logged>>
    BY <1>8 DEF Next, ProcessLogFile, ScanLogFiles, Acquire, OpenFile, EndOfFile, RenameFile,
                GiveUp, Leave, Crash, vars, disk, writer
  <2>2. QED
    BY <1>7, <2>1
<1>9. QED
  BY <1>1, <1>3, <1>4, <1>6, <1>8

\* Only LogWrite, OpenFile and reading a line touch what ReadOnce is about; a
\* processor that lets its file go has none.
LEMMA ReadOnceInductive ==
  TypeOK /\ LoggedOnce /\ ReadOnce /\ [Next]_vars => ReadOnce'
<1> SUFFICES ASSUME TypeOK, LoggedOnce, ReadOnce, [Next]_vars PROVE ReadOnce'
  OBVIOUS
<1>1. ASSUME NEW w \in Writers, LogWrite(w) PROVE ReadOnce'
  <2>1. /\ \A q \in Processors : handle'[q] = handle[q]
        /\ pos' = pos /\ stored' = stored /\ rereads' = rereads /\ writing[w] # NoSpan
    BY <1>1, ActorsAssumption DEF LogWrite, LogClose, TypeOK
  <2>2. ASSUME NEW p \in Processors, handle[p] # NoFile, handle[p] \notin rereads,
               NEW i \in 1..Len(lines'[handle[p]]), lines'[handle[p]][i] \in stored
        PROVE  i <= pos[p]
    <3>1. handle[p] \in Files
      BY <2>2 DEF TypeOK
    <3>2. i \in 1..Len(lines[handle[p]]) /\ lines'[handle[p]][i] = lines[handle[p]][i]
      BY <1>1, <2>1, <2>2, <3>1, WrittenLine DEF LoggedOnce
    <3>3. QED
      BY <2>2, <3>2 DEF ReadOnce
  <2>3. QED
    BY <2>1, <2>2 DEF ReadOnce
<1>2. ASSUME NEW p \in Processors, OpenFile(p) PROVE ReadOnce'
  <2> DEFINE f == named[name[p]]
  <2>1. /\ handle'[p] = f /\ pos'[p] = 0 /\ lines' = lines /\ stored' = stored
        /\ \A q \in Processors \ {p} : handle'[q] = handle[q] /\ pos'[q] = pos[q]
        /\ rereads' = IF Reopened(f) THEN rereads \cup {f} ELSE rereads
    BY <1>2 DEF OpenFile, disk, TypeOK
  <2> HIDE DEF f
  <2>2. ASSUME NEW q \in Processors, handle'[q] # NoFile, handle'[q] \notin rereads'
        PROVE  /\ \A r \in Processors : handle'[r] = handle'[q] => r = q
               /\ \A i \in 1..Len(lines[handle'[q]]) :
                    lines[handle'[q]][i] \in stored => i <= pos'[q]
    <3>1. CASE handle'[q] = f
      <4>1. ~Reopened(f)
        BY <2>1, <2>2, <3>1
      <4>2. /\ \A r \in Processors : handle[r] # f
            /\ \A i \in 1..Len(lines[f]) : lines[f][i] \notin stored
        BY <4>1 DEF Reopened
      <4>3. QED
        BY <2>1, <3>1, <4>2
    <3>2. CASE handle'[q] # f
      <4>1. q # p /\ handle'[q] = handle[q] /\ pos'[q] = pos[q] /\ handle[q] \notin rereads
        BY <2>1, <2>2, <3>2
      <4>2. QED
        BY <2>1, <2>2, <3>2, <4>1 DEF ReadOnce
    <3>3. QED
      BY <3>1, <3>2
  <2>3. QED
    BY <2>1, <2>2 DEF ReadOnce
<1>3. ASSUME NEW p \in Processors, Read(p), stored' \subseteq stored \cup {NextLine(p)}
      PROVE  ReadOnce'
  <2>1. /\ lines' = lines /\ handle' = handle /\ rereads' = rereads
        /\ pos'[p] = pos[p] + 1 /\ pos[p] \in Nat
        /\ \A q \in Processors \ {p} : pos'[q] = pos[q]
        /\ handle[p] \in Files /\ pos[p] + 1 \in 1..Len(lines[handle[p]])
    BY <1>3, NoneAssumption DEF Read, disk, TypeOK
  <2>2. ASSUME NEW q \in Processors, handle[q] # NoFile, handle[q] \notin rereads,
               NEW i \in 1..Len(lines[handle[q]]), lines[handle[q]][i] \in stored'
        PROVE  i <= pos'[q]
    <3>1. handle[q] \in Files
      BY <2>2 DEF TypeOK
    <3>2. CASE lines[handle[q]][i] \in stored
      <4>1. i <= pos[q] /\ pos[q] \in Nat
        BY <2>2, <3>2 DEF ReadOnce, TypeOK
      <4>2. QED
        BY <2>1, <4>1
    <3>3. CASE lines[handle[q]][i] = lines[handle[p]][pos[p] + 1]
      <4>1. handle[q] = handle[p] /\ i = pos[p] + 1
        BY <2>1, <2>2, <3>1, <3>3 DEF LoggedOnce
      <4>2. q = p
        BY <2>2, <4>1 DEF ReadOnce
      <4>3. QED
        BY <2>1, <4>1, <4>2
    <3>4. QED
      BY <1>3, <2>2, <3>2, <3>3 DEF NextLine
  <2>3. QED
    BY <2>1, <2>2 DEF ReadOnce
<1>4. ASSUME NEW p \in Processors, StoreLine(p) \/ SkipLine(p) PROVE ReadOnce'
  BY <1>3, <1>4 DEF StoreLine, SkipLine, Stored
<1>5. CASE /\ UNCHANGED <<lines, stored, rereads>>
           /\ \A q \in Processors : handle'[q] # NoFile =>
                handle'[q] = handle[q] /\ pos'[q] = pos[q]
  BY <1>5 DEF ReadOnce
<1>6. CASE /\ ~\E w \in Writers : LogWrite(w)
           /\ ~\E p \in Processors : OpenFile(p) \/ StoreLine(p) \/ SkipLine(p)
  <2>1. UNCHANGED <<lines, stored, rereads>>
    BY <1>6 DEF Next, ProcessLogFile, LogOpen, LogFails, LogClose, ScanLogFiles, Acquire,
                EndOfFile, RenameFile, GiveUp, Leave, Crash, vars, disk, ghosts
  <2>2. \A q \in Processors : handle'[q] # NoFile => handle'[q] = handle[q] /\ pos'[q] = pos[q]
    BY <1>6, ActorsAssumption
       DEF Next, ProcessLogFile, LogOpen, LogFails, LogClose, ScanLogFiles, Acquire, EndOfFile,
           RenameFile, GiveUp, Leave, Crash, vars, TypeOK
  <2>3. QED
    BY <1>5, <2>1, <2>2
<1>7. QED
  BY <1>1, <1>2, <1>4, <1>6

LEMMA TwiceInductive ==
  TypeOK /\ ReadOnce /\ DuplicatesNeedRereads /\ [Next]_vars => DuplicatesNeedRereads'
<1> SUFFICES ASSUME TypeOK, ReadOnce, DuplicatesNeedRereads, [Next]_vars
             PROVE  DuplicatesNeedRereads'
  OBVIOUS
<1>1. rereads \subseteq rereads' /\ rereads \subseteq Files
  <2>1. rereads \subseteq rereads'
    BY DEF Next, ProcessLogFile, LogOpen, LogWrite, LogFails, LogClose, ScanLogFiles, Acquire,
           OpenFile, StoreLine, SkipLine, Read, EndOfFile, RenameFile, GiveUp, Leave, Crash,
           vars, ghosts
  <2>2. QED
    BY <2>1 DEF TypeOK
<1>2. \A f \in Files : ContentOf(f) \subseteq ContentOf(f)'
  BY LinesStay DEF ContentOf
<1>3. ASSUME NEW p \in Processors, Read(p), Stored(NextLine(p)) PROVE DuplicatesNeedRereads'
  <2>1. /\ handle[p] \in Files /\ pos[p] \in Nat /\ Len(lines[handle[p]]) \in Nat
        /\ handle[p] # NoFile /\ pos[p] + 1 \in 1..Len(lines[handle[p]])
    BY <1>3, NoneAssumption DEF Read, TypeOK
  <2>2. NextLine(p) \in ContentOf(handle[p])
    BY <2>1 DEF NextLine, ContentOf
  <2>3. NextLine(p) \in stored => handle[p] \in rereads
    <3>1. ~(pos[p] + 1 <= pos[p])
      BY <2>1
    <3>2. QED
      BY <2>1, <3>1 DEF ReadOnce, NextLine
  <2>4. twice' \subseteq twice \cup ({NextLine(p)} \cap stored)
    BY <1>3 DEF Stored
  <2>5. QED
    BY <1>1, <1>2, <2>1, <2>2, <2>3, <2>4 DEF DuplicatesNeedRereads
<1>4. CASE twice' = twice
  BY <1>1, <1>2, <1>4 DEF DuplicatesNeedRereads
<1>5. twice' = twice \/ \E p \in Processors : Read(p) /\ Stored(NextLine(p))
  BY DEF Next, ProcessLogFile, LogOpen, LogWrite, LogFails, LogClose, ScanLogFiles, Acquire,
         OpenFile, StoreLine, SkipLine, EndOfFile, RenameFile, GiveUp, Leave, Crash, vars
<1>6. QED
  BY <1>3, <1>4, <1>5

(* A span is stored twice only if its file was opened a second time        *)
(* (collector.go:201-287), for any number of processors, crashes, files    *)
(* and refused spans: a processor that has a file for itself never reads a *)
(* line twice.                                                             *)
THEOREM DuplicatesAreRereads == Spec => []DuplicatesNeedRereads
<1>1. Init => LoggedOnce /\ ReadOnce /\ DuplicatesNeedRereads
  <2>1. ASSUME Init PROVE LoggedOnce
    BY <2>1 DEF Init, LoggedOnce, ContentOf
  <2>2. QED
    BY <2>1 DEF Init, ReadOnce, DuplicatesNeedRereads
<1>2. QED
  BY <1>1, TypeCorrect, LoggedInductive, ReadOnceInductive, TwiceInductive, PTL DEF Spec
=============================================================================
