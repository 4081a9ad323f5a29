----------------------- MODULE BufferPersistenceProofs -----------------------
(***************************************************************************)
(* Theorems about module BufferPersistence: the types of the buffer, its   *)
(* files and the goroutines in persistToDisk, and that a process which     *)
(* dies at any moment finds a complete snapshot - for every number of      *)
(* spans, flushers and persisters and every buffer size.                   *)
(***************************************************************************)
EXTENDS BufferPersistence, SequenceTheorems, WellFoundedInduction, TLAPS

USE DEF SB!history, SB!cuts

\* What one turn of the loop of lines 119-130 makes of what is left.
Turn(s, sent, left, n) ==
  IF n = 0 THEN <<>>
  ELSE IF s[n] \in sent THEN left[n - 1] ELSE Append(left[n - 1], s[n])

Turns(s, sent, left, k) == left = [n \in 0..k |-> Turn(s, sent, left, n)]

\* Induction over the natural numbers, for a set of them.
LEMMA NatSetInduction ==
  ASSUME NEW S, 0 \in S, \A n \in Nat : n \in S => n + 1 \in S
  PROVE  Nat \subseteq S
<1> SUFFICES ASSUME Nat \ S # {} PROVE FALSE
  OBVIOUS
<1> DEFINE R == OpToRel(<, Nat)
<1>1. PICK x \in Nat \ S : \A y \in Nat \ S : ~(<<y, x>> \in R)
  <2>1. IsWellFoundedOn(R, Nat)
    BY NatLessThanWellFounded
  <2>2. Nat \ S \subseteq Nat
    OBVIOUS
  <2> HIDE DEF R
  <2>3. QED
    BY <2>1, <2>2, WFMin
<1>2. x # 0 /\ x - 1 \in Nat /\ x - 1 < x /\ (x - 1) + 1 = x
  OBVIOUS
<1>3. x - 1 \notin S
  BY <1>2
<1>4. <<x - 1, x>> \in R
  BY <1>2 DEF OpToRel
<1>5. QED
  BY <1>1, <1>2, <1>3, <1>4

LEMMA TurnsExist ==
  ASSUME NEW s, NEW sent, NEW N \in Nat
  PROVE  \E left : Turns(s, sent, left, N)
<1> DEFINE S == {k \in Nat : \E left : Turns(s, sent, left, k)}
<1>1. 0 \in S
  <2>1. Turns(s, sent, [n \in 0..0 |-> <<>>], 0)
    BY DEF Turns, Turn
  <2>2. QED
    BY <2>1
<1>2. ASSUME NEW k \in Nat, k \in S PROVE k + 1 \in S
  <2>1. PICK g : Turns(s, sent, g, k)
    BY <1>2
  <2> DEFINE h == [n \in 0..(k + 1) |-> IF n <= k THEN g[n] ELSE Turn(s, sent, g, k + 1)]
  <2>2. \A n \in 0..k : g[n] = Turn(s, sent, g, n) /\ h[n] = g[n]
    BY <2>1 DEF Turns
  <2>3. h[k + 1] = Turn(s, sent, g, k + 1) /\ h = [n \in 0..(k + 1) |-> h[n]]
    OBVIOUS
  <2> HIDE DEF h
  <2>4. ASSUME NEW n \in 0..(k + 1) PROVE Turn(s, sent, g, n) = Turn(s, sent, h, n)
    <3>1. n = 0 \/ n - 1 \in 0..k
      OBVIOUS
    <3>2. QED
      BY <3>1, <2>2 DEF Turn
  <2>5. \A n \in 0..(k + 1) : h[n] = Turn(s, sent, h, n)
    <3>1. \A n \in 0..(k + 1) : n \in 0..k \/ n = k + 1
      OBVIOUS
    <3>2. QED
      BY <3>1, <2>2, <2>3, <2>4
  <2>6. Turns(s, sent, h, k + 1)
    BY <2>3, <2>5 DEF Turns
  <2>7. QED
    BY <2>6
<1>3. N \in S
  <2> HIDE DEF S
  <2>1. QED
    BY <1>1, <1>2, NatSetInduction
<1>4. QED
  BY <1>3

\* The loop of lines 119-130 leaves a buffer that is not longer.
LEMMA WithoutType ==
  ASSUME NEW t \in Seq(Spans), NEW sent
  PROVE  SB!Without(t, sent) \in Seq(Spans) /\ Len(SB!Without(t, sent)) <= Len(t)
<1> DEFINE left == CHOOSE g : Turns(t, sent, g, Len(t))
<1>1. Len(t) \in Nat
  OBVIOUS
<1>2. Turns(t, sent, left, Len(t))
  <2>1. \E g : Turns(t, sent, g, Len(t))
    BY <1>1, TurnsExist
  <2>2. QED
    BY <2>1, Zenon
<1>3. SB!Without(t, sent) = left[Len(t)]
  BY Zenon DEF SB!Without, Turns, Turn
<1> HIDE DEF left
<1>4. \A n \in 0..Len(t) : left[n] = Turn(t, sent, left, n)
  BY <1>2 DEF Turns
<1> DEFINE S == {n \in Nat : n <= Len(t) => left[n] \in Seq(Spans) /\ Len(left[n]) <= n}
<1>5. 0 \in S
  <2>1. left[0] = <<>>
    BY <1>1, <1>4 DEF Turn
  <2>2. <<>> \in Seq(Spans) /\ Len(<<>>) <= 0
    OBVIOUS
  <2>3. QED
    BY <2>1, <2>2
<1>6. ASSUME NEW n \in Nat, n \in S PROVE n + 1 \in S
  <2> SUFFICES ASSUME n + 1 <= Len(t)
               PROVE  left[n + 1] \in Seq(Spans) /\ Len(left[n + 1]) <= n + 1
    OBVIOUS
  <2>1. /\ n + 1 \in 1..Len(t) /\ t[n + 1] \in Spans
        /\ left[n] \in Seq(Spans) /\ Len(left[n]) \in Nat /\ Len(left[n]) <= n
    BY <1>1, <1>6
  <2>2. left[n + 1] = IF t[n + 1] \in sent THEN left[n] ELSE Append(left[n], t[n + 1])
    BY <1>1, <1>4, <2>1 DEF Turn
  <2>3. Append(left[n], t[n + 1]) \in Seq(Spans) /\ Len(Append(left[n], t[n + 1])) = Len(left[n]) + 1
    BY <2>1
  <2>4. QED
    BY <2>1, <2>2, <2>3
<1>7. Len(t) \in S
  <2> HIDE DEF S
  <2>1. QED
    BY <1>1, <1>5, <1>6, NatSetInduction
<1>8. QED
  BY <1>3, <1>7
-----------------------------------------------------------------------------
\* The types of the memory after each operation of the buffer.
LEMMA AddTypes ==
  ASSUME SB!BufferTypeOK, NEW s \in Spans, SB!Add(s)
  PROVE  SB!BufferTypeOK' /\ spans' # <<>>
<1> USE DEF SB!Add, SB!BufferTypeOK
<1>1. /\ SB!Kept \in Seq(Spans) /\ Len(SB!Kept) < Size
      /\ SB!Full => Head(spans) \in Spans
  <2>1. CASE SB!Full
    <3>1. spans # <<>>
      BY <2>1, SizesAssumption DEF SB!Full
    <3>2. QED
      BY <2>1, <3>1, SizesAssumption, HeadTailProperties DEF SB!Full, SB!Kept
  <2>2. CASE ~SB!Full
    BY <2>2, SizesAssumption DEF SB!Full, SB!Kept
  <2>3. QED
    BY <2>1, <2>2
<1>2. /\ Append(SB!Kept, s) \in Seq(Spans)
      /\ Len(Append(SB!Kept, s)) = Len(SB!Kept) + 1
  BY <1>1
<1>3. spans' \in Seq(Spans) /\ Len(spans') <= Size /\ spans' # <<>>
  BY <1>1, <1>2, SizesAssumption
<1>4. dropped' \subseteq Spans /\ overtaken' \subseteq Flushers
  BY <1>1 DEF SB!InFlight
<1>5. QED
  BY <1>3, <1>4

LEMMA BeginTypes ==
  ASSUME SB!BufferTypeOK, NEW f \in Flushers, SB!FlushBegin(f, BatchSize)
  PROVE  SB!BufferTypeOK'
<1> USE DEF SB!FlushBegin, SB!BufferTypeOK
<1> DEFINE k == IF BatchSize < Len(spans) THEN BatchSize ELSE Len(spans)
<1>1. k \in 0..Len(spans) /\ spans \in Seq(Spans) /\ Len(spans) \in Nat
  BY SizesAssumption
<1>2. batch' = [batch EXCEPT ![f] = SubSeq(spans, 1, k)]
  OBVIOUS
<1> HIDE DEF k
<1>3. SubSeq(spans, 1, k) \in Seq(Spans)
  BY <1>1, SubSeqProperties
<1>4. QED
  BY <1>2, <1>3

LEMMA AnswerTypes ==
  ASSUME SB!BufferTypeOK, NEW f \in Flushers, SB!Answer(f)
  PROVE  SB!BufferTypeOK'
<1> USE DEF SB!Answer, SB!BufferTypeOK
<1>1. SB!ToSet(batch[f]) \subseteq Spans
  BY DEF SB!ToSet
<1>2. received' \subseteq Spans /\ rejected' \subseteq Spans
  BY <1>1
<1>3. QED
  BY <1>2

LEMMA FailTypes ==
  ASSUME SB!BufferTypeOK, NEW f \in Flushers, SB!FlushFail(f)
  PROVE  SB!BufferTypeOK'
<1>1. <<>> \in Seq(Spans)
  OBVIOUS
<1>2. QED
  BY <1>1 DEF SB!FlushFail, SB!BufferTypeOK

LEMMA OkTypes ==
  ASSUME SB!BufferTypeOK, NEW f \in Flushers, SB!FlushOk(f)
  PROVE  SB!BufferTypeOK'
<1> USE DEF SB!FlushOk, SB!BufferTypeOK
<1>1. spans \in Seq(Spans) /\ batch[f] \in Seq(Spans) /\ Len(batch[f]) \in Nat
  OBVIOUS
<1>2. SB!Remaining(f) \in Seq(Spans) /\ Len(SB!Remaining(f)) <= Len(spans)
  <2>1. CASE Len(spans) >= Len(batch[f])
    BY <1>1, <2>1, SubSeqProperties DEF SB!Remaining
  <2>2. CASE ~(Len(spans) >= Len(batch[f]))
    BY <1>1, <2>2, WithoutType DEF SB!Remaining
  <2>3. QED
    BY <2>1, <2>2
<1>3. spans' \in Seq(Spans) /\ Len(spans') <= Size
  BY <1>2, SizesAssumption
<1>4. <<>> \in Seq(Spans) /\ overtaken' \subseteq Flushers /\ misaligned' \in BOOLEAN
  BY DEF SB!InFlight
<1>5. QED
  BY <1>3, <1>4
-----------------------------------------------------------------------------
\* No content is longer than the buffer.
Bounded ==
  /\ \A c \in {tmp, file} : Readable(c) => Len(c) <= Size
  /\ \A p \in Persisters : Len(snapshot[p]) <= Size

\* While persists have not overlapped, one goroutine at a time uses the
\* temporary file, from truncating to renaming it.
OneWriter ==
  /\ \A p, q \in UnderWay : p = q
  /\ \A p \in Persisters :
       /\ persistPc[p] = "write" => handle[p] = "tmp" /\ tmp = Empty
       /\ persistPc[p] = "rename" => tmp = snapshot[p]
  /\ file \notin {Empty, Torn}

\* The buffer is on disk, or something is left that will bring it there: the
\* timer, a persist that has not copied it yet, or one that has just this copy.
OnItsWay ==
  \/ armed \/ spans = <<>>
  \/ \E p \in Persisters : persistPc[p] = "start"
  \/ \E p \in UnderWay : snapshot[p] = spans
  \/ UnderWay = {} /\ file = spans

IInv == TypeOK /\ Bounded /\ (~overlapped => OneWriter /\ OnItsWay)

LEMMA InitIInv == Init => IInv
<1> SUFFICES ASSUME Init PROVE IInv
  OBVIOUS
<1> USE DEF Init
<1>1. <<>> \in Seq(Spans) /\ Len(<<>>) = 0
  OBVIOUS
<1>2. SB!BufferTypeOK
  <2>1. spans \in Seq(Spans) /\ Len(spans) <= Size
    BY <1>1, SizesAssumption DEF SB!BufferInit
  <2>2. batch \in [Flushers -> Seq(Spans)]
    BY <1>1 DEF SB!BufferInit
  <2>3. QED
    BY <2>1, <2>2 DEF SB!BufferInit, SB!BufferTypeOK
<1>3. UnderWay = {}
  BY DEF UnderWay
<1>4. TypeOK
  BY <1>1, <1>2, <1>3 DEF TypeOK, Contents
<1>5. Bounded
  BY <1>1, SizesAssumption DEF Bounded, Readable
<1>6. file \notin {Empty, Torn}
  BY ContentAssumption
<1>7. OneWriter /\ OnItsWay
  BY <1>3, <1>6 DEF OneWriter, OnItsWay
<1>8. QED
  BY <1>4, <1>5, <1>7 DEF IInv

\* The buffer's own steps leave the files and the persisters alone.
LEMMA MemoryStep ==
  ASSUME IInv, SB!BufferTypeOK', UNCHANGED <<disk, overlapped>>, armed' \in BOOLEAN,
         armed' \/ (UNCHANGED spans /\ (armed => armed'))
  PROVE  IInv'
<1>1. TypeOK' /\ Bounded'
  BY DEF IInv, TypeOK, Bounded, UnderWay, disk
<1>2. UnderWay' = UnderWay
  BY DEF UnderWay, disk
<1>3. OneWriter => OneWriter'
  BY <1>2 DEF OneWriter, disk
<1>4. OnItsWay => OnItsWay'
  BY <1>2 DEF OnItsWay, disk
<1>5. QED
  BY <1>1, <1>3, <1>4 DEF IInv

\* A goroutine that only starts: line 137 and the timer.
LEMMA SpawnStep ==
  ASSUME IInv, SB!BufferTypeOK', NEW p \in Persisters, Spawn(p), armed' \in BOOLEAN,
         UNCHANGED <<snapshot, handle, tmp, file, overlapped>>
  PROVE  IInv'
<1>1. /\ persistPc' \in [Persisters -> {"idle", "start", "open", "write", "rename"}]
      /\ persistPc[p] = "idle" /\ persistPc'[p] = "start"
      /\ \A q \in Persisters \ {p} : persistPc'[q] = persistPc[q]
  BY DEF Spawn, IInv, TypeOK
<1>2. UnderWay' = UnderWay
  BY <1>1 DEF UnderWay
<1>3. TypeOK'
  BY <1>1, <1>2 DEF IInv, TypeOK
<1>4. Bounded'
  BY DEF IInv, Bounded
<1>5. OneWriter => OneWriter'
  BY <1>1, <1>2 DEF OneWriter
<1>6. OnItsWay'
  BY <1>1 DEF OnItsWay
<1>7. QED
  BY <1>3, <1>4, <1>5, <1>6 DEF IInv

LEMMA CopyStep ==
  ASSUME IInv, NEW p \in Persisters, CopyBuffer(p)
  PROVE  IInv'
<1> USE DEF CopyBuffer, memory, fates
<1>1. /\ persistPc' \in [Persisters -> {"idle", "start", "open", "write", "rename"}]
      /\ persistPc[p] = "start" /\ persistPc'[p] = IF spans = <<>> THEN "idle" ELSE "open"
      /\ snapshot'[p] = spans
      /\ \A q \in Persisters \ {p} : persistPc'[q] = persistPc[q] /\ snapshot'[q] = snapshot[q]
  BY DEF IInv, TypeOK
<1>2. UnderWay' = IF spans = <<>> THEN UnderWay ELSE UnderWay \cup {p}
  BY <1>1 DEF UnderWay
<1>3. spans \in Seq(Spans) /\ Len(spans) <= Size
  BY DEF IInv, TypeOK, SB!BufferTypeOK
<1>4. TypeOK'
  <2>1. SB!BufferTypeOK'
    BY DEF IInv, TypeOK, SB!BufferTypeOK
  <2>2. snapshot' \in [Persisters -> Seq(Spans)]
    BY <1>3 DEF IInv, TypeOK
  <2>3. \A q \in UnderWay' : snapshot'[q] # <<>>
    BY <1>1, <1>2 DEF IInv, TypeOK, UnderWay
  <2>4. \A q \in Persisters : handle'[q] # "none" <=> persistPc'[q] = "write"
    BY <1>1 DEF IInv, TypeOK
  <2>5. overlapped' \in BOOLEAN
    BY DEF IInv, TypeOK
  <2>6. QED
    BY <1>1, <2>1, <2>2, <2>3, <2>4, <2>5 DEF IInv, TypeOK
<1>5. Bounded'
  BY <1>1, <1>3 DEF IInv, Bounded
<1>6. ASSUME ~overlapped' PROVE OneWriter' /\ OnItsWay'
  <2>1. ~overlapped /\ UnderWay \subseteq {p} /\ p \notin UnderWay
    BY <1>1, <1>6 DEF UnderWay
  <2>2. OneWriter
    BY <2>1 DEF IInv
  <2>3. OneWriter'
    BY <1>1, <1>2, <2>1, <2>2 DEF OneWriter
  <2>4. spans' = <<>> \/ (p \in UnderWay' /\ snapshot'[p] = spans')
    BY <1>1, <1>2
  <2>5. QED
    BY <2>3, <2>4 DEF OnItsWay
<1>7. QED
  BY <1>4, <1>5, <1>6 DEF IInv

LEMMA OpenStep ==
  ASSUME IInv, NEW p \in Persisters, OpenTmp(p)
  PROVE  IInv'
<1> USE DEF OpenTmp, memory, fates
<1>1. /\ persistPc' \in [Persisters -> {"idle", "start", "open", "write", "rename"}]
      /\ persistPc[p] = "open" /\ persistPc'[p] = "write"
      /\ handle' \in [Persisters -> {"none", "tmp", "file", "replaced"}]
      /\ handle'[p] = "tmp"
      /\ \A q \in Persisters \ {p} : persistPc'[q] = persistPc[q] /\ handle'[q] = handle[q]
  BY DEF IInv, TypeOK
<1>2. UnderWay' = UnderWay /\ p \in UnderWay
  BY <1>1 DEF UnderWay
<1>3. TypeOK'
  <2>1. SB!BufferTypeOK'
    BY DEF IInv, TypeOK, SB!BufferTypeOK
  <2>2. QED
    BY <1>1, <1>2, <2>1 DEF IInv, TypeOK, Contents
<1>4. Bounded'
  BY DEF IInv, Bounded, Readable
<1>5. OneWriter => OneWriter'
  <2> SUFFICES ASSUME OneWriter PROVE OneWriter'
    OBVIOUS
  <2>1. \A q \in Persisters \ {p} : q \notin UnderWay
    BY <1>2 DEF OneWriter
  <2>2. \A q \in Persisters \ {p} : persistPc'[q] \notin {"write", "rename"}
    BY <1>1, <2>1 DEF UnderWay
  <2>3. QED
    BY <1>1, <1>2, <2>2 DEF OneWriter
<1>6. OnItsWay => OnItsWay'
  BY <1>1, <1>2 DEF OnItsWay
<1>7. QED
  BY <1>3, <1>4, <1>5, <1>6 DEF IInv

\* Writing leaves the new content, or a torn one where there was an old one.
LEMMA OverwriteContents ==
  ASSUME NEW old, NEW new \in Seq(Spans), NEW c \in Overwrite(old, new)
  PROVE  c \in Contents /\ (c = new \/ c = Torn) /\ (old = Empty => c = new)
  BY DEF Overwrite, Contents

LEMMA WriteStep ==
  ASSUME IInv, NEW p \in Persisters, WriteTmp(p)
  PROVE  IInv'
<1> USE DEF WriteTmp, memory, fates
<1>1. /\ persistPc' \in [Persisters -> {"idle", "start", "open", "write", "rename"}]
      /\ persistPc[p] = "write" /\ persistPc'[p] = "rename"
      /\ handle' \in [Persisters -> {"none", "tmp", "file", "replaced"}]
      /\ handle'[p] = "none" /\ snapshot[p] \in Seq(Spans)
      /\ \A q \in Persisters \ {p} : persistPc'[q] = persistPc[q] /\ handle'[q] = handle[q]
  BY DEF IInv, TypeOK
<1>2. UnderWay' = UnderWay /\ p \in UnderWay
  BY <1>1 DEF UnderWay
<1>3. /\ IF handle[p] = "tmp" THEN tmp' \in Overwrite(tmp, snapshot[p]) ELSE tmp' = tmp
      /\ IF handle[p] = "file" THEN file' \in Overwrite(file, snapshot[p]) ELSE file' = file
  OBVIOUS
<1>4. /\ tmp' \in Contents /\ (tmp' = tmp \/ tmp' = snapshot[p] \/ tmp' = Torn)
      /\ file' \in Contents /\ (file' = file \/ file' = snapshot[p] \/ file' = Torn)
  BY <1>1, <1>3, OverwriteContents DEF IInv, TypeOK
<1>5. TypeOK'
  <2>1. SB!BufferTypeOK'
    BY DEF IInv, TypeOK, SB!BufferTypeOK
  <2>2. QED
    BY <1>1, <1>2, <1>4, <2>1 DEF IInv, TypeOK
<1>6. Bounded'
  BY <1>4 DEF IInv, Bounded, Readable
<1>7. OneWriter => OneWriter' /\ file' = file
  <2> SUFFICES ASSUME OneWriter PROVE OneWriter' /\ file' = file
    OBVIOUS
  <2>1. handle[p] = "tmp" /\ tmp = Empty
    BY <1>1 DEF OneWriter
  <2>2. tmp' = snapshot[p] /\ file' = file
    BY <1>1, <1>3, <2>1, OverwriteContents
  <2>3. \A q \in Persisters \ {p} : persistPc'[q] \notin {"write", "rename"}
    BY <1>1, <1>2 DEF OneWriter, UnderWay
  <2>4. QED
    BY <1>1, <1>2, <2>2, <2>3 DEF OneWriter
<1>8. OneWriter /\ OnItsWay => OnItsWay'
  BY <1>1, <1>2, <1>7 DEF OnItsWay
<1>9. QED
  BY <1>5, <1>6, <1>7, <1>8 DEF IInv

LEMMA RenameStep ==
  ASSUME IInv, NEW p \in Persisters, RenameTmp(p)
  PROVE  IInv'
<1> USE DEF RenameTmp, memory, fates
<1>0. <<>> \in Seq(Spans) /\ Len(<<>>) = 0
  OBVIOUS
<1>1. /\ persistPc' \in [Persisters -> {"idle", "start", "open", "write", "rename"}]
      /\ persistPc[p] = "rename" /\ persistPc'[p] = "idle"
      /\ snapshot' \in [Persisters -> Seq(Spans)] /\ snapshot'[p] = <<>>
      /\ \A q \in Persisters \ {p} : persistPc'[q] = persistPc[q] /\ snapshot'[q] = snapshot[q]
  BY <1>0 DEF IInv, TypeOK
<1>2. UnderWay' = UnderWay \ {p} /\ p \in UnderWay
  BY <1>1 DEF UnderWay
<1>3. \A h \in {"none", "tmp", "file", "replaced"} :
        /\ Renamed[h] \in {"none", "tmp", "file", "replaced"}
        /\ Renamed[h] = "none" <=> h = "none"
  BY DEF Renamed
<1>4. /\ handle' \in [Persisters -> {"none", "tmp", "file", "replaced"}]
      /\ \A q \in Persisters : handle'[q] = "none" <=> handle[q] = "none"
  <2>1. handle \in [Persisters -> {"none", "tmp", "file", "replaced"}]
    BY DEF IInv, TypeOK
  <2>2. CASE tmp = Absent
    BY <2>1, <2>2
  <2>3. CASE tmp # Absent
    <3>1. handle' = [q \in Persisters |-> Renamed[handle[q]]]
      BY <2>3
    <3>2. QED
      BY <1>3, <2>1, <3>1, Zenon
  <2>4. QED
    BY <2>2, <2>3
<1>5. /\ tmp' \in {tmp, Absent} /\ file' \in {tmp, file}
      /\ tmp \in Contents /\ file \in Contents
  BY DEF IInv, TypeOK
<1>6. TypeOK'
  <2>1. SB!BufferTypeOK'
    BY DEF IInv, TypeOK, SB!BufferTypeOK
  <2>2. \A q \in Persisters : handle'[q] # "none" <=> persistPc'[q] = "write"
    BY <1>1, <1>4 DEF IInv, TypeOK
  <2>3. \A q \in UnderWay' : snapshot'[q] # <<>>
    BY <1>1, <1>2 DEF IInv, TypeOK, UnderWay
  <2>4. QED
    BY <1>1, <1>4, <1>5, <2>1, <2>2, <2>3 DEF IInv, TypeOK, Contents
<1>7. Bounded'
  BY <1>0, <1>1, <1>5, SizesAssumption DEF IInv, Bounded, Readable
<1>8. ASSUME OneWriter, OnItsWay PROVE OneWriter' /\ OnItsWay'
  <2>1. tmp = snapshot[p] /\ snapshot[p] \in Seq(Spans)
    BY <1>1, <1>8 DEF OneWriter, IInv, TypeOK
  <2>2. file' = snapshot[p]
    BY <2>1, ContentAssumption
  <2>3. UnderWay' = {} /\ UnderWay = {p}
    BY <1>2, <1>8 DEF OneWriter
  <2>4. \A q \in Persisters : persistPc'[q] \notin {"write", "rename"}
    BY <2>3 DEF UnderWay
  <2>5. OneWriter'
    BY <2>1, <2>2, <2>3, <2>4, ContentAssumption DEF OneWriter
  <2>6. (\E q \in Persisters : persistPc[q] = "start") =>
          \E q \in Persisters : persistPc'[q] = "start"
    BY <1>1
  <2>7. OnItsWay'
    BY <1>8, <2>2, <2>3, <2>6 DEF OnItsWay
  <2>8. QED
    BY <2>5, <2>7
<1>9. QED
  BY <1>6, <1>7, <1>8 DEF IInv

LEMMA RestartStep == IInv /\ Restart => IInv'
<1> SUFFICES ASSUME IInv, Restart PROVE IInv'
  OBVIOUS
<1> USE DEF Restart, fates
<1>1. <<>> \in Seq(Spans) /\ Len(<<>>) = 0
  OBVIOUS
<1>2. spans' \in Seq(Spans) /\ Len(spans') <= Size
  BY <1>1, SizesAssumption DEF IInv, TypeOK, Bounded, Contents, Readable
<1>3. SB!BufferTypeOK'
  BY <1>1, <1>2 DEF IInv, TypeOK, SB!BufferTypeOK
<1>4. UnderWay' = {}
  BY DEF UnderWay
<1>5. TypeOK'
  BY <1>1, <1>3, <1>4 DEF IInv, TypeOK
<1>6. Bounded'
  BY <1>1, SizesAssumption DEF IInv, Bounded
<1>7. OneWriter => OneWriter'
  BY <1>4 DEF OneWriter
<1>8. OnItsWay'
  BY DEF OnItsWay
<1>9. QED
  BY <1>5, <1>6, <1>7, <1>8 DEF IInv

LEMMA Inductive == IInv /\ [Next]_vars => IInv'
<1> SUFFICES ASSUME IInv, [Next]_vars PROVE IInv'
  OBVIOUS
<1>0. SB!BufferTypeOK /\ armed \in BOOLEAN
  BY DEF IInv, TypeOK
<1>1. ASSUME NEW s \in Spans, Add(s) PROVE IInv'
  BY <1>0, <1>1, AddTypes, MemoryStep DEF Add, Rearm
<1>2. ASSUME NEW f \in Flushers, FlushBegin(f) PROVE IInv'
  BY <1>0, <1>2, BeginTypes, MemoryStep DEF FlushBegin, SB!FlushBegin
<1>3. ASSUME NEW f \in Flushers, Answer(f) PROVE IInv'
  BY <1>0, <1>3, AnswerTypes, MemoryStep DEF Answer, SB!Answer
<1>4. ASSUME NEW f \in Flushers, FlushFail(f) PROVE IInv'
  BY <1>0, <1>4, FailTypes, MemoryStep DEF FlushFail, SB!FlushFail
<1>5. ASSUME NEW f \in Flushers, FlushOk(f) PROVE IInv'
  BY <1>0, <1>5, OkTypes, SpawnStep DEF FlushOk
<1>6. ASSUME NEW p \in Persisters, TimerFires(p) PROVE IInv'
  <2>1. SB!BufferTypeOK' /\ armed' \in BOOLEAN
    BY <1>0, <1>6 DEF TimerFires, SB!BufferTypeOK, memory, fates
  <2>2. QED
    BY <1>6, <2>1, SpawnStep DEF TimerFires
<1>7. ASSUME NEW p \in Persisters, Persist(p) PROVE IInv'
  BY <1>7, CopyStep, OpenStep, WriteStep, RenameStep DEF Persist
<1>8. CASE Restart
  BY <1>8, RestartStep
<1>9. CASE UNCHANGED vars
  <2>1. SB!BufferTypeOK' /\ UNCHANGED <<disk, overlapped, spans, armed>>
    BY <1>0, <1>9 DEF SB!BufferTypeOK, vars, memory, fates
  <2>2. QED
    BY <1>0, <2>1, MemoryStep
<1>10. QED
  BY <1>1, <1>2, <1>3, <1>4, <1>5, <1>6, <1>7, <1>8, <1>9 DEF Next

(* The types of the buffer, of the persist goroutines and of the two files *)
(* (reliability.go lines 34-205), also across restarts.                    *)
THEOREM TypeCorrect == Spec => []TypeOK
<1>1. IInv => TypeOK
  BY DEF IInv
<1>2. QED
  BY <1>1, InitIInv, Inductive, PTL DEF Spec

(* As long as two goroutines have not been in persistToDisk at once, the   *)
(* file that a restart finds is absent or a complete snapshot, whenever    *)
(* the process died (lines 166-173).                                       *)
THEOREM FileIsWhole == Spec => []TornOnlyByOverlap
<1>1. IInv => TornOnlyByOverlap
  BY DEF IInv, OneWriter, TornOnlyByOverlap
<1>2. QED
  BY <1>1, InitIInv, Inductive, PTL DEF Spec

(* With no persist pending or running, the file holds the buffer, whatever *)
(* Adds, flushes, persists and restarts have come before (lines 64, 137).  *)
THEOREM QuietIsDurable == Spec => []DurableWhenQuiet
<1>1. IInv => DurableWhenQuiet
  <2> SUFFICES ASSUME IInv, ~overlapped, Quiet, spans # <<>> PROVE file = spans
    BY DEF DurableWhenQuiet
  <2>1. UnderWay = {} /\ OnItsWay
    BY DEF Quiet, UnderWay, IInv
  <2>2. QED
    BY <2>1 DEF OnItsWay, Quiet
<1>2. QED
  BY <1>1, InitIInv, Inductive, PTL DEF Spec
=============================================================================
