------------------------- MODULE ReplicationProofs -------------------------
(***************************************************************************)
(* What replication leaves behind, for any set of collectors, any ids and  *)
(* any configuration, cycles included.                                     *)
(*                                                                         *)
(* QuietMeansReplicated speaks of quiet states only; the strengthening     *)
(* says of every state that a span a replica has not stored is on its way. *)
(*                                                                         *)
(* OneCopyPerPath needs an account: what a collector has stored, and what  *)
(* the calls under way will still bring it along every path, is covered by *)
(* what clients have submitted.  A step moves worth between the two sides, *)
(* so the proof is about finite sums, which the module first derives from  *)
(* the fold that defines them, and about PathsTo, of which it shows that a *)
(* path to d is at d already or goes on from a first edge.  Induction is   *)
(* over sets of numbers and of subsets, by minimal elements.               *)
(***************************************************************************)
EXTENDS Replication, FiniteSetTheorems, WellFoundedInduction, TLAPS

\* What the steps keep of the state's types.
Types ==
  /\ clients \in [Collectors -> SUBSET Collectors]
  /\ stores \in [Collectors -> Nat]
  /\ calls \in [Call -> Nat]

StoredOrUnderWay ==
  ~lost => \A m \in Edges : stores[m.from] > 0 => stores[m.to] > 0 \/ calls[m] > 0

IInv == Types /\ StoredOrUnderWay

\* Every step of the collectors preserves the strengthened invariant.
LEMMA Inductive == IInv /\ [Next]_vars => IInv'
<1> SUFFICES ASSUME IInv, [Next]_vars PROVE IInv'
  OBVIOUS
<1> USE ReplicationAssumption DEF IInv, Types
<1>1. ASSUME NEW c \in Collectors, Submit(c) PROVE IInv'
  <2>1. /\ stores' = [stores EXCEPT ![c] = @ + 1]
        /\ calls' = Calls({}, ReplicateToBackups(c))
        /\ clients' = clients /\ lost' = lost
    BY <1>1 DEF Submit, StoreSpan
  <2>2. \A m \in Call : calls'[m] = calls[m] + (IF m \in ReplicateToBackups(c) THEN 1 ELSE 0)
    BY <2>1 DEF Calls
  <2>3. calls' \in [Call -> Nat]
    BY <2>1, <2>2 DEF Calls
  <2>4. ASSUME ~lost', NEW m \in Edges', stores'[m.from] > 0
        PROVE  stores'[m.to] > 0 \/ calls'[m] > 0
    <3>1. m \in Edges /\ m \in Call /\ m \in Connected
      BY <2>1, <2>4 DEF Edges, Connected, Skipped
    <3>2. m.from \in Collectors /\ m.to \in Collectors
      BY <3>1 DEF Call
    <3>3. CASE m.from = c
      BY <2>2, <3>1, <3>3 DEF ReplicateToBackups
    <3>4. CASE m.from # c
      BY <2>1, <2>2, <2>4, <3>1, <3>2, <3>4 DEF StoredOrUnderWay
    <3> QED BY <3>3, <3>4
  <2> QED BY <2>1, <2>3, <2>4 DEF StoredOrUnderWay
<1>2. ASSUME NEW n \in Call, Deliver(n) PROVE IInv'
  <2>1. clients' = clients /\ lost' = lost /\ calls[n] > 0
        /\ n.from \in Collectors /\ n.to \in Collectors
    BY <1>2 DEF Deliver, Call
  <2>2. CASE Skipped(n)
    <3>1. stores' = stores /\ calls' = Calls({n}, {})
      BY <1>2, <2>2 DEF Deliver
    <3>2. \A m \in Call : calls'[m] = IF m = n THEN calls[m] - 1 ELSE calls[m]
      BY <3>1 DEF Calls
    <3>3. calls' \in [Call -> Nat]
      BY <2>1, <3>1, <3>2 DEF Calls
    <3>4. \A m \in Edges' : m \in Edges /\ m \in Call /\ m # n
      BY <2>1, <2>2 DEF Edges, Connected, Skipped
    <3> QED BY <2>1, <3>1, <3>2, <3>3, <3>4 DEF StoredOrUnderWay
  <2>3. CASE ~Skipped(n)
    <3>1. /\ stores' = [stores EXCEPT ![n.to] = @ + 1]
          /\ calls' = Calls({n}, ReplicateToBackups(n.to))
      BY <1>2, <2>3 DEF Deliver, StoreSpan
    <3>2. \A m \in Call :
            calls'[m] = calls[m] - (IF m = n THEN 1 ELSE 0)
                          + (IF m \in ReplicateToBackups(n.to) THEN 1 ELSE 0)
      BY <3>1 DEF Calls
    <3>3. calls' \in [Call -> Nat]
      BY <2>1, <3>1, <3>2 DEF Calls
    <3>4. ASSUME ~lost', NEW m \in Edges', stores'[m.from] > 0
          PROVE  stores'[m.to] > 0 \/ calls'[m] > 0
      <4>1. m \in Edges /\ m \in Call /\ m \in Connected
        BY <2>1, <3>4 DEF Edges, Connected, Skipped
      <4>2. m.from \in Collectors /\ m.to \in Collectors
        BY <4>1 DEF Call
      <4>3. CASE m.to = n.to
        BY <2>1, <3>1, <4>3
      <4>4. CASE m.to # n.to /\ m.from = n.to
        <5>1. m # n /\ m \in ReplicateToBackups(n.to)
          BY <4>1, <4>4 DEF ReplicateToBackups
        <5> QED BY <3>2, <4>1, <5>1
      <4>5. CASE m.to # n.to /\ m.from # n.to
        <5>1. m # n /\ stores'[m.from] = stores[m.from] /\ stores'[m.to] = stores[m.to]
          BY <3>1, <4>2, <4>5
        <5>2. calls'[m] >= calls[m]
          BY <3>2, <4>1, <5>1
        <5> QED BY <2>1, <3>3, <3>4, <4>1, <5>1, <5>2 DEF StoredOrUnderWay
      <4> QED BY <4>3, <4>4, <4>5
    <3>5. stores' \in [Collectors -> Nat]
      BY <2>1, <3>1
    <3> QED BY <2>1, <3>3, <3>4, <3>5 DEF StoredOrUnderWay
  <2> QED BY <2>2, <2>3
<1>3. ASSUME NEW n \in Call, Fail(n) PROVE IInv'
  <2>1. \A m \in Call : calls'[m] = IF m = n THEN calls[m] - 1 ELSE calls[m]
    BY <1>3 DEF Fail, Calls
  <2>2. calls' \in [Call -> Nat]
    BY <1>3, <2>1 DEF Fail, Calls
  <2> QED BY <1>3, <2>2 DEF Fail, StoredOrUnderWay
<1>4. CASE UNCHANGED vars
  BY <1>4 DEF vars, StoredOrUnderWay, Edges, Connected, Skipped
<1> QED BY <1>1, <1>2, <1>3, <1>4 DEF Next

\* A collector starts with no span stored and no call under way.
LEMMA InitIInv == Init => IInv
<1> SUFFICES ASSUME Init PROVE IInv
  OBVIOUS
<1>1. Types
  BY DEF Init, Types
<1>2. \A m \in Edges : m.from \in Collectors
  BY DEF Edges, Connected, Call
<1>3. StoredOrUnderWay
  BY <1>2 DEF Init, StoredOrUnderWay
<1> QED BY <1>1, <1>3 DEF IInv

\* Whatever a collector has stored, a connected replica with another id has
\* stored too or is being sent, until a call fails: for every topology,
\* cycles included, any ids and any number of submissions.
THEOREM ReplicatedUnlessLost == Spec => []QuietMeansReplicated
<1>1. IInv => QuietMeansReplicated
  <2>1. \A m \in Edges : m \in Call
    BY DEF Edges, Connected
  <2> QED BY <2>1 DEF IInv, StoredOrUnderWay, QuietMeansReplicated
<1> QED BY InitIInv, Inductive, <1>1, PTL DEF Spec
-----------------------------------------------------------------------------
\* The subsets of a finite set are well-founded.
LEMMA SubsetsWellFounded ==
  ASSUME NEW S, IsFiniteSet(S)
  PROVE  IsWellFoundedOn(StrictSubsetOrdering(S), SUBSET S)
<1>1. IsWellFoundedOn(StrictSubsetOrdering(S), FiniteSubsetsOf(S))
  BY FS_StrictSubsetOrderingWellFounded
<1>2. FiniteSubsetsOf(S) = SUBSET S
  BY FS_FiniteSubsetsOfFinite
<1>3. QED
  BY <1>1, <1>2

\* Induction over the subsets of a finite set, for a set of them.
LEMMA SubsetInduction ==
  ASSUME NEW S, IsFiniteSet(S), NEW Good,
         \A T \in SUBSET S : (\A U \in SUBSET T : U # T => U \in Good) => T \in Good
  PROVE  SUBSET S \subseteq Good
<1> DEFINE Bad == (SUBSET S) \ Good
<1> SUFFICES ASSUME Bad # {} PROVE FALSE
  OBVIOUS
<1>1. PICK T \in Bad : \A U \in Bad : ~(<<U, T>> \in StrictSubsetOrdering(S))
  <2>1. Bad \subseteq SUBSET S
    OBVIOUS
  <2>2. IsWellFoundedOn(StrictSubsetOrdering(S), SUBSET S)
    BY SubsetsWellFounded
  <2> HIDE DEF Bad
  <2>3. QED
    BY <2>1, <2>2, WFMin
<1>2. ASSUME NEW U \in SUBSET T, U # T PROVE U \in Good
  <2>1. <<U, T>> \in StrictSubsetOrdering(S)
    BY <1>2 DEF StrictSubsetOrdering
  <2>2. U \in SUBSET S
    OBVIOUS
  <2>3. QED
    BY <1>1, <2>1, <2>2
<1>3. QED
  BY <1>2

\* The sum of f over a set, as the fold of the library takes it.
Pick(S) == CHOOSE x \in S : TRUE
OneMore(f, T, g) == IF T = {} THEN 0 ELSE f[Pick(T)] + g[T \ {Pick(T)}]
Folds(f, S, g) == g = [T \in SUBSET S |-> OneMore(f, T, g)]
Sum(f, S) == (CHOOSE g : Folds(f, S, g))[S]

\* The library's sum of a function is Sum over its domain.
LEMMA SumIsSum == \A f : SumFunction(f) = Sum(f, DOMAIN f)
  BY DEF SumFunction, SumFunctionOnSet, FoldFunctionOnSet, MapThenFoldSet, Sum, Folds, OneMore, Pick

\* What is picked from a set is in it.
LEMMA PickIn == \A S : S # {} => Pick(S) \in S
  BY DEF Pick

\* A fold over a set and one over its superset agree on the smaller set.
LEMMA FoldsAgree ==
  ASSUME NEW f, NEW S, NEW T \in SUBSET S, IsFiniteSet(T), NEW g, NEW h,
         Folds(f, S, g), Folds(f, T, h)
  PROVE  \A U \in SUBSET T : g[U] = h[U]
<1> DEFINE Good == {U \in SUBSET T : g[U] = h[U]}
<1>1. ASSUME NEW U \in SUBSET T, \A V \in SUBSET U : V # U => V \in Good
      PROVE  U \in Good
  <2>1. g[U] = OneMore(f, U, g) /\ h[U] = OneMore(f, U, h)
    <3>1. U \in SUBSET S
      OBVIOUS
    <3>2. QED
      BY <3>1 DEF Folds
  <2>2. CASE U = {}
    BY <2>1, <2>2 DEF OneMore
  <2>3. CASE U # {}
    <3>1. U \ {Pick(U)} \in Good
      BY <1>1, <2>3, PickIn
    <3>2. QED
      BY <2>1, <2>3, <3>1 DEF OneMore
  <2>4. QED
    BY <2>2, <2>3
<1>2. SUBSET T \subseteq Good
  <2> HIDE DEF Good
  <2>1. QED
    BY <1>1, SubsetInduction
<1>3. QED
  BY <1>2

\* There is a fold over every finite set.
LEMMA FoldExists ==
  ASSUME NEW f, NEW S, IsFiniteSet(S)
  PROVE  \E g : Folds(f, S, g)
<1> DEFINE Good == {T \in SUBSET S : \E g : Folds(f, T, g)}
<1>1. ASSUME NEW T \in SUBSET S, \A U \in SUBSET T : U # T => U \in Good
      PROVE  T \in Good
  <2> DEFINE h == [U \in SUBSET T |-> IF U = T THEN OneMore(f, T, [V \in SUBSET T |-> Sum(f, V)])
                                               ELSE Sum(f, U)]
  <2>1. ASSUME NEW U \in SUBSET T, U # T
        PROVE  Sum(f, U) = OneMore(f, U, [V \in SUBSET T |-> Sum(f, V)])
    <3> DEFINE g == CHOOSE g : Folds(f, U, g)
    <3>1. Folds(f, U, g)
      <4>1. \E k : Folds(f, U, k)
        BY <1>1, <2>1
      <4>2. QED
        BY <4>1, Zenon
    <3>2. Sum(f, U) = OneMore(f, U, g)
      <4>1. Sum(f, U) = g[U]
        BY DEF Sum
      <4> HIDE DEF g
      <4>2. QED
        BY <3>1, <4>1 DEF Folds
    <3> HIDE DEF g
    <3>3. CASE U = {}
      BY <3>2, <3>3 DEF OneMore
    <3>4. CASE U # {}
      <4> DEFINE V == U \ {Pick(U)}
      <4>1. V \in SUBSET U /\ V \in SUBSET T /\ V # T /\ IsFiniteSet(V)
        BY <3>4, PickIn, FS_Subset
      <4>2. \E k : Folds(f, V, k)
        BY <1>1, <4>1
      <4> DEFINE k == CHOOSE k : Folds(f, V, k)
      <4>3. Folds(f, V, k)
        BY <4>2, Zenon
      <4>4. Sum(f, V) = k[V]
        BY DEF Sum
      <4> HIDE DEF k, V
      <4>5. g[V] = k[V]
        BY <3>1, <4>1, <4>3, FoldsAgree
      <4>6. V = U \ {Pick(U)}
        BY DEF V
      <4>7. QED
        BY <3>2, <3>4, <4>1, <4>4, <4>5, <4>6 DEF OneMore
    <3>5. QED
      BY <3>3, <3>4
  <2>2. ASSUME NEW U \in SUBSET T
        PROVE  OneMore(f, U, h) = OneMore(f, U, [V \in SUBSET T |-> Sum(f, V)])
    <3>1. CASE U = {}
      BY <3>1 DEF OneMore
    <3>2. CASE U # {}
      <4>1. U \ {Pick(U)} \in SUBSET T /\ U \ {Pick(U)} # T
        BY <3>2, PickIn
      <4>2. QED
        BY <3>2, <4>1 DEF OneMore
    <3>3. QED
      BY <3>1, <3>2
  <2>3. \A U \in SUBSET T : h[U] = OneMore(f, U, h)
    BY <2>1, <2>2
  <2>4. h = [U \in SUBSET T |-> h[U]]
    OBVIOUS
  <2> HIDE DEF h
  <2>5. Folds(f, T, h)
    BY <2>3, <2>4 DEF Folds
  <2>6. QED
    BY <2>5
<1>2. S \in Good
  <2>1. S \in SUBSET S
    OBVIOUS
  <2> HIDE DEF Good
  <2>2. QED
    BY <1>1, <2>1, SubsetInduction
<1>3. QED
  BY <1>2

\* So Sum satisfies the equation that defines a fold.
LEMMA SumIsFold ==
  ASSUME NEW f, NEW S, IsFiniteSet(S)
  PROVE  Sum(f, S) = IF S = {} THEN 0 ELSE f[Pick(S)] + Sum(f, S \ {Pick(S)})
<1> DEFINE g == CHOOSE g : Folds(f, S, g)
<1> DEFINE T == S \ {Pick(S)}
<1> DEFINE h == CHOOSE h : Folds(f, T, h)
<1>1. T \in SUBSET S /\ IsFiniteSet(T)
  BY FS_Subset
<1>2. Sum(f, S) = g[S] /\ Sum(f, T) = h[T]
  BY DEF Sum
<1>3. Folds(f, S, g)
  <2>1. \E k : Folds(f, S, k)
    BY FoldExists
  <2>2. QED
    BY <2>1, Zenon
<1>4. Folds(f, T, h)
  <2> HIDE DEF T
  <2>1. \E k : Folds(f, T, k)
    BY <1>1, FoldExists
  <2>2. QED
    BY <2>1, Zenon
<1> HIDE DEF g, h
<1>5. g[T] = h[T]
  <2> HIDE DEF T
  <2>1. QED
    BY <1>1, <1>3, <1>4, FoldsAgree
<1>6. g[S] = OneMore(f, S, g)
  BY <1>3 DEF Folds
<1>7. QED
  BY <1>2, <1>5, <1>6 DEF OneMore

Counts(f, S) == \A x \in S : f[x] \in Nat

\* Any element may be taken first.
LEMMA SumStep ==
  ASSUME NEW f, NEW S, IsFiniteSet(S), Counts(f, S)
  PROVE  Sum(f, S) \in Nat /\ \A x \in S : Sum(f, S) = f[x] + Sum(f, S \ {x})
<1> DEFINE Good == {T \in SUBSET S : Sum(f, T) \in Nat /\ \A x \in T : Sum(f, T) = f[x] + Sum(f, T \ {x})}
<1>1. ASSUME NEW T \in SUBSET S, \A U \in SUBSET T : U # T => U \in Good
      PROVE  T \in Good
  <2> DEFINE p == Pick(T)
  <2>1. CASE T = {}
    <3>1. Sum(f, T) = 0
      BY <2>1, SumIsFold, FS_EmptySet
    <3>2. QED
      BY <2>1, <3>1
  <2>2. CASE T # {}
    <3>1. p \in T /\ IsFiniteSet(T)
      BY <2>2, PickIn, FS_Subset
    <3>2. Sum(f, T) = f[p] + Sum(f, T \ {p})
      BY <2>2, <3>1, SumIsFold
    <3>3. T \ {p} \in Good /\ f[p] \in Nat
      BY <1>1, <3>1 DEF Counts
    <3> HIDE DEF p
    <3>4. ASSUME NEW x \in T PROVE Sum(f, T) = f[x] + Sum(f, T \ {x})
      <4>1. CASE x = p
        BY <3>2, <4>1
      <4>2. CASE x # p
        <5> DEFINE U == (T \ {p}) \ {x}
        <5>1. T \ {x} \in Good /\ f[x] \in Nat
          BY <1>1 DEF Counts
        <5>2. Sum(f, T \ {p}) = f[x] + Sum(f, U)
          BY <3>3, <4>2
        <5>3. Sum(f, T \ {x}) = f[p] + Sum(f, U)
          <6>1. (T \ {x}) \ {p} = U
            OBVIOUS
          <6>2. QED
            BY <3>1, <4>2, <5>1, <6>1
        <5>4. Sum(f, U) \in Nat
          <6>1. U \in SUBSET T /\ U # T
            BY <3>1
          <6>2. QED
            BY <1>1, <6>1
        <5> HIDE DEF U
        <5>5. QED
          BY <3>2, <3>3, <5>1, <5>2, <5>3, <5>4
      <4>3. QED
        BY <4>1, <4>2
    <3>5. Sum(f, T) \in Nat
      BY <3>2, <3>3
    <3>6. QED
      BY <3>4, <3>5
  <2>3. QED
    BY <2>1, <2>2
<1>2. S \in Good
  <2>1. S \in SUBSET S
    OBVIOUS
  <2> HIDE DEF Good
  <2>2. QED
    BY <1>1, <2>1, SubsetInduction
<1>3. QED
  BY <1>2

\* The sum of sums.
LEMMA SumPlus ==
  ASSUME NEW f, NEW g, NEW h, NEW S, IsFiniteSet(S), Counts(f, S), Counts(g, S),
         \A x \in S : h[x] = f[x] + g[x]
  PROVE  Sum(h, S) = Sum(f, S) + Sum(g, S)
<1> DEFINE Good == {T \in SUBSET S : Sum(h, T) = Sum(f, T) + Sum(g, T)}
<1>1. ASSUME NEW T \in SUBSET S, \A U \in SUBSET T : U # T => U \in Good
      PROVE  T \in Good
  <2> DEFINE p == Pick(T)
  <2> DEFINE U == T \ {p}
  <2>1. CASE T = {}
    BY <2>1, SumIsFold, FS_EmptySet
  <2>2. CASE T # {}
    <3>1. p \in T /\ p \in S /\ IsFiniteSet(T) /\ IsFiniteSet(U)
      BY <2>2, PickIn, FS_Subset
    <3>2. /\ Sum(f, T) = f[p] + Sum(f, U) /\ Sum(g, T) = g[p] + Sum(g, U)
          /\ Sum(h, T) = h[p] + Sum(h, U)
      BY <2>2, <3>1, SumIsFold
    <3>3. U \in Good /\ f[p] \in Nat /\ g[p] \in Nat /\ h[p] = f[p] + g[p]
      BY <1>1, <3>1 DEF Counts
    <3>4. Sum(f, U) \in Nat /\ Sum(g, U) \in Nat
      <4>1. Counts(f, U) /\ Counts(g, U)
        BY DEF Counts
      <4> HIDE DEF U
      <4>2. QED
        BY <3>1, <4>1, SumStep
    <3> HIDE DEF U, p
    <3>5. QED
      BY <3>2, <3>3, <3>4
  <2>3. QED
    BY <2>1, <2>2
<1>2. S \in Good
  <2>1. S \in SUBSET S
    OBVIOUS
  <2> HIDE DEF Good
  <2>2. QED
    BY <1>1, <2>1, SubsetInduction
<1>3. QED
  BY <1>2

\* Only what is not zero counts.
LEMMA SumOver ==
  ASSUME NEW f, NEW g, NEW S, IsFiniteSet(S), NEW R \in SUBSET S, Counts(g, R),
         \A x \in S : f[x] = IF x \in R THEN g[x] ELSE 0
  PROVE  Sum(f, S) = Sum(g, R)
<1> DEFINE Good == {T \in SUBSET S : Sum(f, T) = Sum(g, T \cap R)}
<1>1. ASSUME NEW T \in SUBSET S, \A U \in SUBSET T : U # T => U \in Good
      PROVE  T \in Good
  <2> DEFINE p == Pick(T)
  <2> DEFINE U == T \ {p}
  <2>1. CASE T = {}
    <3>1. T \cap R = {}
      BY <2>1
    <3>2. QED
      BY <2>1, <3>1, SumIsFold, FS_EmptySet
  <2>2. CASE T # {}
    <3>1. p \in T /\ p \in S /\ IsFiniteSet(T) /\ IsFiniteSet(U) /\ IsFiniteSet(T \cap R)
          /\ IsFiniteSet(U \cap R)
      BY <2>2, PickIn, FS_Subset
    <3>2. Sum(f, T) = f[p] + Sum(f, U) /\ Sum(f, U) = Sum(g, U \cap R)
      <4>1. U \in Good
        BY <1>1, <3>1
      <4>2. QED
        BY <2>2, <3>1, <4>1, SumIsFold
    <3>3. Sum(g, U \cap R) \in Nat /\ Counts(g, T \cap R)
      <4>1. Counts(g, U \cap R) /\ Counts(g, T \cap R)
        BY DEF Counts
      <4> HIDE DEF U
      <4>2. QED
        BY <3>1, <4>1, SumStep
    <3>4. CASE p \in R
      <4>1. (T \cap R) \ {p} = U \cap R
        OBVIOUS
      <4>2. Sum(g, T \cap R) = g[p] + Sum(g, U \cap R)
        <5>1. p \in T \cap R
          BY <3>1, <3>4
        <5> HIDE DEF U, p
        <5>2. QED
          BY <3>1, <3>3, <5>1, <4>1, SumStep
      <4>3. f[p] = g[p]
        BY <3>1, <3>4
      <4> HIDE DEF U, p
      <4>4. QED
        BY <3>2, <4>2, <4>3
    <3>5. CASE p \notin R
      <4>1. T \cap R = U \cap R /\ f[p] = 0
        BY <3>1, <3>5
      <4>2. Sum(f, T) = Sum(g, U \cap R)
        <5> HIDE DEF U, p
        <5>1. QED
          BY <3>2, <3>3, <4>1
      <4>3. QED
        BY <4>1, <4>2
    <3>6. QED
      BY <3>4, <3>5
  <2>3. QED
    BY <2>1, <2>2
<1>2. S \in Good
  <2>1. S \in SUBSET S
    OBVIOUS
  <2> HIDE DEF Good
  <2>2. QED
    BY <1>1, <2>1, SubsetInduction
<1>3. S \cap R = R
  OBVIOUS
<1>4. QED
  BY <1>2, <1>3

\* A function that is not zero in one place only.
LEMMA SumAt ==
  ASSUME NEW f, NEW S, IsFiniteSet(S), NEW a \in S, NEW v \in Nat,
         \A x \in S : f[x] = IF x = a THEN v ELSE 0
  PROVE  Sum(f, S) = v
<1>1. Counts(f, {a}) /\ f[a] = v
  BY DEF Counts
<1>2. Sum(f, S) = Sum(f, {a})
  BY <1>1, SumOver
<1>3. Sum(f, {a}) = f[a] + Sum(f, {a} \ {a})
  BY <1>1, FS_Singleton, SumStep
<1>4. {a} \ {a} = {} /\ Sum(f, {}) = 0
  BY SumIsFold, FS_EmptySet
<1>5. QED
  BY <1>1, <1>2, <1>3, <1>4
-----------------------------------------------------------------------------
\* Induction over the natural numbers, for a set of them.
LEMMA NatSetInduction ==
  ASSUME NEW S, 0 \in S, \A n \in Nat : n \in S => n + 1 \in S
  PROVE  Nat \subseteq S
<1> SUFFICES ASSUME Nat \ S # {} PROVE FALSE
  OBVIOUS
<1> DEFINE R == OpToRel(<, Nat)
<1>1. PICK x \in Nat \ S : \A y \in Nat \ S : ~(<<y, x>> \in R)
  <2>1. IsWellFoundedOn(R, Nat)
    BY NatLessThanWellFounded
  <2>2. Nat \ S \subseteq Nat
    OBVIOUS
  <2> HIDE DEF R
  <2>3. QED
    BY <2>1, <2>2, WFMin
<1>2. x # 0 /\ x - 1 \in Nat /\ x - 1 < x /\ (x - 1) + 1 = x
  OBVIOUS
<1>3. x - 1 \notin S
  BY <1>2
<1>4. <<x - 1, x>> \in R
  BY <1>2 DEF OpToRel
<1>5. QED
  BY <1>1, <1>2, <1>3, <1>4

Out(edges, c) == {e \in edges : e.from = c}

\* What h says of where each edge from c leads.
Onward(edges, c, h) == [m \in Out(edges, c) |-> h[m.to]]

\* The paths of at most n edges, from those of at most n - 1.
Row(edges, d, g, n) ==
  [c \in Collectors |->
     (IF c = d THEN 1 ELSE 0)
     + (IF n = 0 THEN 0 ELSE SumFunction(Onward(edges, c, g[n - 1])))]

Rows(edges, d, g, N) == g = [n \in 0..N |-> Row(edges, d, g, n)]

\* The recursion of PathsTo has a solution.
LEMMA RowsExist ==
  ASSUME NEW edges, NEW d, NEW N \in Nat
  PROVE  \E g : Rows(edges, d, g, N)
<1> DEFINE S == {k \in Nat : \E g : Rows(edges, d, g, k)}
<1>1. 0 \in S
  <2>1. Rows(edges, d, [n \in 0..0 |-> Row(edges, d, <<>>, n)], 0)
    <3>1. \A g, h : Row(edges, d, g, 0) = Row(edges, d, h, 0)
      BY DEF Row
    <3>2. \A n \in 0..0 : n = 0
      OBVIOUS
    <3> DEFINE g == [n \in 0..0 |-> Row(edges, d, <<>>, n)]
    <3>3. g = [n \in 0..0 |-> g[n]] /\ \A n \in 0..0 : g[n] = Row(edges, d, g, n)
      BY <3>1, <3>2
    <3> HIDE DEF g
    <3>4. QED
      BY <3>3 DEF Rows, g
  <2>2. QED
    BY <2>1
<1>2. ASSUME NEW k \in Nat, k \in S PROVE k + 1 \in S
  <2>1. PICK g : Rows(edges, d, g, k)
    BY <1>2
  <2> DEFINE h == [n \in 0..(k + 1) |-> IF n <= k THEN g[n] ELSE Row(edges, d, g, k + 1)]
  <2>2. \A n \in 0..k : g[n] = Row(edges, d, g, n) /\ h[n] = g[n]
    BY <2>1 DEF Rows
  <2>3. h[k + 1] = Row(edges, d, g, k + 1) /\ h = [n \in 0..(k + 1) |-> h[n]]
    OBVIOUS
  <2> HIDE DEF h
  <2>4. ASSUME NEW n \in 0..(k + 1) PROVE Row(edges, d, g, n) = Row(edges, d, h, n)
    <3>1. CASE n = 0
      BY <3>1 DEF Row
    <3>2. CASE n # 0
      <4>1. n - 1 \in 0..k
        BY <3>2
      <4>2. g[n - 1] = h[n - 1]
        BY <4>1, <2>2
      <4>3. QED
        BY <4>2 DEF Row
    <3>3. QED
      BY <3>1, <3>2
  <2>5. \A n \in 0..(k + 1) : h[n] = Row(edges, d, h, n)
    <3>1. \A n \in 0..(k + 1) : n \in 0..k \/ n = k + 1
      OBVIOUS
    <3>2. QED
      BY <3>1, <2>2, <2>3, <2>4
  <2>6. Rows(edges, d, h, k + 1)
    BY <2>3, <2>5 DEF Rows
  <2>7. QED
    BY <2>6
<1>3. N \in S
  <2> HIDE DEF S
  <2>1. QED
    BY <1>1, <1>2, NatSetInduction
<1>4. QED
  BY <1>3

\* The rows that PathsTo has worked out.
RowsOf(edges, d) == CHOOSE g : Rows(edges, d, g, Cardinality(Collectors))

\* PathsTo is the last of the rows.
LEMMA PathsAreRows ==
  ASSUME NEW edges, NEW d
  PROVE  /\ Cardinality(Collectors) \in Nat
         /\ Rows(edges, d, RowsOf(edges, d), Cardinality(Collectors))
         /\ PathsTo(edges, d) = RowsOf(edges, d)[Cardinality(Collectors)]
<1>1. Cardinality(Collectors) \in Nat
  BY ReplicationAssumption, FS_CardinalityType
<1>2. \E g : Rows(edges, d, g, Cardinality(Collectors))
  BY <1>1, RowsExist
<1>3. Rows(edges, d, RowsOf(edges, d), Cardinality(Collectors))
  BY <1>2, Zenon DEF RowsOf
<1>4. PathsTo(edges, d) = RowsOf(edges, d)[Cardinality(Collectors)]
  BY Zenon DEF PathsTo, RowsOf, Rows, Row, Onward, Out
<1>5. QED
  BY <1>1, <1>3, <1>4

\* There are finitely many possible calls.
LEMMA CallFinite == IsFiniteSet(Call)
<1> DEFINE P == Collectors \X Collectors
<1> DEFINE f == [m \in Call |-> <<m.from, m.to>>]
<1>1. IsFiniteSet(P)
  BY ReplicationAssumption, FS_Product
<1>2. f \in [Call -> P]
  BY DEF Call
<1>3. IsInjective(f)
  <2>1. ASSUME NEW m \in Call, NEW n \in Call, f[m] = f[n] PROVE m = n
    <3>1. m = [from |-> m.from, to |-> m.to] /\ n = [from |-> n.from, to |-> n.to]
      BY DEF Call
    <3>2. QED
      BY <2>1, <3>1
  <2>2. DOMAIN f = Call
    OBVIOUS
  <2> HIDE DEF f
  <2>3. QED
    BY <2>1, <2>2 DEF IsInjective
<1> HIDE DEF f, P
<1>4. f \in Injection(Call, P)
  BY <1>2, <1>3 DEF Injection
<1>5. QED
  BY <1>1, <1>4, FS_Injection

\* What the rows say of one collector.
LEMMA RowFirst ==
  ASSUME NEW edges, NEW d, NEW g, NEW c \in Collectors
  PROVE  Row(edges, d, g, 0)[c] = IF c = d THEN 1 ELSE 0
  BY DEF Row

\* The row after another one goes on from it.
LEMMA RowNext ==
  ASSUME NEW edges, NEW d, NEW g, NEW n \in Nat, NEW c \in Collectors
  PROVE  Row(edges, d, g, n + 1)[c]
           = (IF c = d THEN 1 ELSE 0) + Sum(Onward(edges, c, g[n]), Out(edges, c))
<1>1. SumFunction(Onward(edges, c, g[n])) = Sum(Onward(edges, c, g[n]), Out(edges, c))
  <2>1. DOMAIN Onward(edges, c, g[n]) = Out(edges, c)
    BY DEF Onward
  <2>2. QED
    BY <2>1, SumIsSum
<1>2. n + 1 # 0 /\ (n + 1) - 1 = n
  OBVIOUS
<1>3. QED
  BY <1>1, <1>2 DEF Row

\* The edges from a collector are finitely many and lead to collectors.
LEMMA OutOf ==
  ASSUME NEW edges \in SUBSET Call, NEW c
  PROVE  /\ IsFiniteSet(Out(edges, c))
         /\ \A m \in Out(edges, c) : m \in edges /\ m.from = c /\ m.to \in Collectors
<1>1. Out(edges, c) \in SUBSET Call
  BY DEF Out
<1>2. QED
  BY <1>1, CallFinite, FS_Subset DEF Out, Call

\* A sum of paths is a number, and depends on where the edges lead only.
LEMMA OnwardCounts ==
  ASSUME NEW edges \in SUBSET Call, NEW c, NEW h, \A b \in Collectors : h[b] \in Nat
  PROVE  /\ Counts(Onward(edges, c, h), Out(edges, c))
         /\ Sum(Onward(edges, c, h), Out(edges, c)) \in Nat
<1>1. Counts(Onward(edges, c, h), Out(edges, c))
  BY OutOf DEF Counts, Onward
<1>2. QED
  BY <1>1, OutOf, SumStep

\* Functions that agree where the edges lead are alike to Onward.
LEMMA OnwardSame ==
  ASSUME NEW edges, NEW c, NEW g, NEW h, \A m \in Out(edges, c) : g[m.to] = h[m.to]
  PROVE  Onward(edges, c, g) = Onward(edges, c, h)
  BY DEF Onward

\* The rows count paths: they are natural numbers.
LEMMA RowsCount ==
  ASSUME NEW edges \in SUBSET Call, NEW d, NEW N \in Nat, NEW g, Rows(edges, d, g, N)
  PROVE  \A n \in 0..N : \A c \in Collectors : g[n][c] \in Nat
<1> DEFINE S == {n \in Nat : n <= N => \A c \in Collectors : g[n][c] \in Nat}
<1>0. \A n \in 0..N : g[n] = Row(edges, d, g, n)
  BY DEF Rows
<1>1. 0 \in S
  <2>1. g[0] = Row(edges, d, g, 0)
    BY <1>0
  <2>2. ASSUME NEW c \in Collectors PROVE g[0][c] \in Nat
    <3>1. g[0][c] = IF c = d THEN 1 ELSE 0
      BY <2>1, RowFirst
    <3>2. QED
      BY <3>1
  <2>3. QED
    BY <2>2
<1>2. ASSUME NEW n \in Nat, n \in S PROVE n + 1 \in S
  <2> SUFFICES ASSUME n + 1 <= N, NEW c \in Collectors PROVE g[n + 1][c] \in Nat
    OBVIOUS
  <2>1. \A b \in Collectors : g[n][b] \in Nat
    BY <1>2
  <2>2. Sum(Onward(edges, c, g[n]), Out(edges, c)) \in Nat
    BY <2>1, OnwardCounts
  <2>3. g[n + 1] = Row(edges, d, g, n + 1)
    BY <1>0
  <2>4. g[n + 1][c] = (IF c = d THEN 1 ELSE 0) + Sum(Onward(edges, c, g[n]), Out(edges, c))
    BY <2>3, RowNext
  <2>5. QED
    BY <2>2, <2>4
<1>3. \A n \in Nat : n \in S
  <2> HIDE DEF S
  <2>1. QED
    BY <1>1, <1>2, NatSetInduction
<1>4. QED
  BY <1>3

\* Without cycles no path is longer than the rank of where it starts.
LEMMA RowsSettle ==
  ASSUME NEW edges \in SUBSET Call, NEW d, NEW N \in Nat, NEW g, Rows(edges, d, g, N),
         NEW rank \in [Collectors -> 1..N], \A m \in edges : rank[m.to] < rank[m.from],
         NEW k \in 1..N
  PROVE  \A c \in Collectors : rank[c] <= k => g[k][c] = g[k - 1][c]
<1> DEFINE S == {n \in Nat : n + 1 <= N =>
                   \A c \in Collectors : rank[c] <= n + 1 => g[n + 1][c] = g[n][c]}
<1>0. \A n \in 0..N : g[n] = Row(edges, d, g, n)
  BY DEF Rows
<1>1. \A c \in Collectors : rank[c] \in 1..N
  OBVIOUS
<1>2. ASSUME NEW c \in Collectors, NEW m \in Out(edges, c)
      PROVE  m.to \in Collectors /\ rank[m.to] < rank[c]
  BY OutOf
<1>3. 0 \in S
  <2> SUFFICES ASSUME 1 <= N, NEW c \in Collectors, rank[c] <= 1 PROVE g[1][c] = g[0][c]
    OBVIOUS
  <2>1. Out(edges, c) = {}
    <3>1. ASSUME NEW m \in Out(edges, c) PROVE FALSE
      <4>1. rank[m.to] \in 1..N /\ rank[m.to] < rank[c] /\ rank[c] \in 1..N
        BY <1>1, <1>2
      <4>2. QED
        BY <4>1
    <3>2. QED
      BY <3>1
  <2>2. Sum(Onward(edges, c, g[0]), Out(edges, c)) = 0
    BY <2>1, SumIsFold, FS_EmptySet
  <2>3. g[0] = Row(edges, d, g, 0) /\ g[1] = Row(edges, d, g, 1) /\ 0 + 1 = 1
    BY <1>0
  <2>4. Row(edges, d, g, 0 + 1)[c] = (IF c = d THEN 1 ELSE 0) + 0
    <3>1. ASSUME NEW n \in Nat
          PROVE  Row(edges, d, g, n + 1)[c]
                   = (IF c = d THEN 1 ELSE 0) + Sum(Onward(edges, c, g[n]), Out(edges, c))
      BY RowNext
    <3>2. QED
      BY <2>2, <3>1
  <2>5. g[0][c] = IF c = d THEN 1 ELSE 0
    BY <2>3, RowFirst
  <2>6. QED
    BY <2>3, <2>4, <2>5
<1>4. ASSUME NEW n \in Nat, n \in S PROVE n + 1 \in S
  <2> DEFINE p == n + 1
  <2> SUFFICES ASSUME p + 1 <= N, NEW c \in Collectors, rank[c] <= p + 1
               PROVE  g[p + 1][c] = g[p][c]
    OBVIOUS
  <2>1. ASSUME NEW m \in Out(edges, c) PROVE g[p][m.to] = g[n][m.to]
    <3>1. rank[m.to] \in 1..N /\ rank[c] \in 1..N /\ rank[m.to] < rank[c] /\ m.to \in Collectors
      BY <1>1, <1>2
    <3>2. rank[m.to] <= n + 1 /\ n + 1 <= N
      BY <3>1
    <3>3. QED
      BY <1>4, <3>1, <3>2
  <2>2. Onward(edges, c, g[p]) = Onward(edges, c, g[n])
    <3> HIDE DEF p
    <3>1. QED
      BY <2>1, OnwardSame
  <2>3. p \in 0..N /\ p + 1 \in 0..N /\ p \in Nat
    OBVIOUS
  <2>4. g[p] = Row(edges, d, g, n + 1) /\ g[p + 1] = Row(edges, d, g, p + 1)
    BY <1>0, <2>3
  <2>5. Row(edges, d, g, n + 1)[c]
          = (IF c = d THEN 1 ELSE 0) + Sum(Onward(edges, c, g[n]), Out(edges, c))
    BY RowNext
  <2> HIDE DEF p
  <2>6. Row(edges, d, g, p + 1)[c]
          = (IF c = d THEN 1 ELSE 0) + Sum(Onward(edges, c, g[p]), Out(edges, c))
    BY <2>3, RowNext
  <2>7. QED
    BY <2>2, <2>4, <2>5, <2>6
<1>5. \A n \in Nat : n \in S
  <2> HIDE DEF S
  <2>1. QED
    BY <1>3, <1>4, NatSetInduction
<1>6. k - 1 \in S /\ (k - 1) + 1 = k /\ k <= N
  BY <1>5
<1>7. QED
  BY <1>6

\* So a path to d is at d already or takes a first edge.
LEMMA PathsExpand ==
  ASSUME NEW edges \in SUBSET Call, Acyclic(edges), NEW d \in Collectors
  PROVE  /\ \A c \in Collectors : PathsTo(edges, d)[c] \in Nat
         /\ \A c \in Collectors :
              PathsTo(edges, d)[c]
                = (IF c = d THEN 1 ELSE 0)
                  + Sum(Onward(edges, c, PathsTo(edges, d)), Out(edges, c))
<1> DEFINE N == Cardinality(Collectors)
<1> DEFINE g == RowsOf(edges, d)
<1>1. N \in Nat /\ Rows(edges, d, g, N) /\ PathsTo(edges, d) = g[N]
  BY PathsAreRows
<1>2. PICK rank \in [Collectors -> 1..N] : \A m \in edges : rank[m.to] < rank[m.from]
  BY DEF Acyclic
<1> HIDE DEF N, g
<1>3. \A c \in Collectors : g[N][c] \in Nat
  <2>1. \A n \in 0..N : \A c \in Collectors : g[n][c] \in Nat
    BY <1>1, RowsCount
  <2>2. N \in 0..N
    BY <1>1
  <2>3. QED
    BY <2>1, <2>2
<1>4. ASSUME NEW c \in Collectors
      PROVE  g[N][c] = (IF c = d THEN 1 ELSE 0) + Sum(Onward(edges, c, g[N]), Out(edges, c))
  <2>1. rank[c] \in 1..N
    BY <1>2
  <2>2. N \in 1..N /\ N \in 0..N /\ N - 1 \in Nat /\ (N - 1) + 1 = N
    BY <1>1, <2>1
  <2>3. \A b \in Collectors : rank[b] <= N => g[N][b] = g[N - 1][b]
    BY <1>1, <1>2, <2>2, RowsSettle
  <2>4. \A b \in Collectors : rank[b] <= N
    BY <1>1, <1>2
  <2>5. \A m \in Out(edges, c) : g[N - 1][m.to] = g[N][m.to]
    BY <2>3, <2>4, OutOf
  <2>6. Onward(edges, c, g[N - 1]) = Onward(edges, c, g[N])
    BY <2>5, OnwardSame
  <2>7. g[N] = Row(edges, d, g, N)
    BY <1>1, <2>2 DEF Rows
  <2>8. Row(edges, d, g, (N - 1) + 1)[c]
          = (IF c = d THEN 1 ELSE 0) + Sum(Onward(edges, c, g[N - 1]), Out(edges, c))
    BY <2>2, RowNext
  <2>9. QED
    BY <2>2, <2>6, <2>7, <2>8
<1>5. QED
  BY <1>1, <1>3, <1>4
-----------------------------------------------------------------------------
\* The copies at d that a call will make, and all the calls, and that clients
\* have asked for.
Weight(edges, d, m) == IF m \in edges THEN PathsTo(edges, d)[m.to] ELSE 0
Worth(edges, d, cs) == [m \in Call |-> cs[m] * Weight(edges, d, m)]
Marked(edges, d, s) == [m \in Call |-> IF m \in s THEN Weight(edges, d, m) ELSE 0]
Owed(edges, d, sub) == [c \in Collectors |-> sub[c] * PathsTo(edges, d)[c]]

\* The products that the accounts are made of.
LEMMA Products ==
  /\ \A k, w \in Nat : k * w \in Nat
  /\ \A k, w \in Nat : (k + 1) * w = k * w + w
  /\ \A k, w \in Nat : k > 0 => (k - 1) * w + w = k * w
<1>1. \A k, w \in Nat : k * w \in Nat
  OBVIOUS
<1>2. \A k, w \in Nat : (k + 1) * w = k * w + w
  OBVIOUS
<1>3. \A k, w \in Nat : k > 0 => (k - 1) * w + w = k * w
  OBVIOUS
<1>4. QED
  BY <1>1, <1>2, <1>3

\* Every part of an account is a natural number.
LEMMA WorthCounts ==
  ASSUME NEW edges \in SUBSET Call, Acyclic(edges), NEW d \in Collectors
  PROVE  /\ \A m \in Call : Weight(edges, d, m) \in Nat
         /\ \A s : Counts(Marked(edges, d, s), Call)
         /\ \A cs \in [Call -> Nat] : Counts(Worth(edges, d, cs), Call)
         /\ \A sub \in [Collectors -> Nat] : Counts(Owed(edges, d, sub), Collectors)
<1>1. \A c \in Collectors : PathsTo(edges, d)[c] \in Nat
  BY PathsExpand
<1>2. \A m \in Call : Weight(edges, d, m) \in Nat
  BY <1>1 DEF Weight, Call
<1>3. \A s : Counts(Marked(edges, d, s), Call)
  BY <1>2 DEF Counts, Marked
<1>4. ASSUME NEW cs \in [Call -> Nat] PROVE Counts(Worth(edges, d, cs), Call)
  <2>1. \A m \in Call : cs[m] * Weight(edges, d, m) \in Nat
    BY <1>2, Products
  <2>2. QED
    BY <2>1 DEF Counts, Worth
<1>5. ASSUME NEW sub \in [Collectors -> Nat] PROVE Counts(Owed(edges, d, sub), Collectors)
  <2>1. \A c \in Collectors : sub[c] * PathsTo(edges, d)[c] \in Nat
    BY <1>1, Products
  <2>2. QED
    BY <2>1 DEF Counts, Owed
<1>6. QED
  BY <1>2, <1>3, <1>4, <1>5

\* Ending calls takes their worth away, beginning calls adds it.
LEMMA Balance ==
  ASSUME NEW edges \in SUBSET Call, Acyclic(edges), NEW d \in Collectors,
         NEW cs \in [Call -> Nat], NEW ds \in [Call -> Nat], NEW done, NEW new,
         \A m \in Call : ds[m] = cs[m] - (IF m \in done THEN 1 ELSE 0)
                                       + (IF m \in new THEN 1 ELSE 0),
         \A m \in done : cs[m] > 0
  PROVE  Sum(Worth(edges, d, ds), Call) + Sum(Marked(edges, d, done), Call)
           = Sum(Worth(edges, d, cs), Call) + Sum(Marked(edges, d, new), Call)
<1> DEFINE both == [m \in Call |-> Worth(edges, d, ds)[m] + Marked(edges, d, done)[m]]
<1>1. ASSUME NEW m \in Call
      PROVE  Worth(edges, d, ds)[m] + Marked(edges, d, done)[m]
               = Worth(edges, d, cs)[m] + Marked(edges, d, new)[m]
  <2> DEFINE w == Weight(edges, d, m)
  <2> DEFINE k == cs[m]
  <2> DEFINE j == ds[m]
  <2>1. w \in Nat /\ k \in Nat /\ j \in Nat
    BY WorthCounts
  <2>2. Worth(edges, d, ds)[m] = j * w /\ Worth(edges, d, cs)[m] = k * w
    BY DEF Worth
  <2>3. /\ Marked(edges, d, done)[m] = IF m \in done THEN w ELSE 0
        /\ Marked(edges, d, new)[m] = IF m \in new THEN w ELSE 0
    BY DEF Marked
  <2>4. j = k - (IF m \in done THEN 1 ELSE 0) + (IF m \in new THEN 1 ELSE 0)
    OBVIOUS
  <2>5. m \in done => k > 0
    OBVIOUS
  <2>6. k * w \in Nat /\ (k + 1) * w = k * w + w /\ (k > 0 => (k - 1) * w + w = k * w)
    BY <2>1, Products
  <2> HIDE DEF w, k, j
  <2>7. CASE m \in done /\ m \in new
    <3>1. j = k
      BY <2>1, <2>4, <2>7
    <3>2. QED
      BY <2>2, <2>3, <2>7, <3>1
  <2>8. CASE m \in done /\ m \notin new
    <3>1. j = k - 1
      BY <2>1, <2>4, <2>8
    <3>2. (k - 1) * w + w = k * w + 0
      BY <2>5, <2>6, <2>8
    <3>3. QED
      BY <2>2, <2>3, <2>8, <3>1, <3>2
  <2>9. CASE m \notin done /\ m \in new
    <3>1. j = k + 1
      BY <2>1, <2>4, <2>9
    <3>2. (k + 1) * w + 0 = k * w + w
      BY <2>1, <2>6
    <3>3. QED
      BY <2>2, <2>3, <2>9, <3>1, <3>2
  <2>10. CASE m \notin done /\ m \notin new
    <3>1. j = k
      BY <2>1, <2>4, <2>10
    <3>2. QED
      BY <2>2, <2>3, <2>10, <3>1
  <2>11. QED
    BY <2>7, <2>8, <2>9, <2>10
<1>2. /\ Counts(Worth(edges, d, ds), Call) /\ Counts(Marked(edges, d, done), Call)
      /\ Counts(Worth(edges, d, cs), Call) /\ Counts(Marked(edges, d, new), Call)
  BY WorthCounts
<1>3. /\ \A m \in Call : both[m] = Worth(edges, d, ds)[m] + Marked(edges, d, done)[m]
      /\ \A m \in Call : both[m] = Worth(edges, d, cs)[m] + Marked(edges, d, new)[m]
  BY <1>1
<1> HIDE DEF both
<1>4. Sum(both, Call) = Sum(Worth(edges, d, ds), Call) + Sum(Marked(edges, d, done), Call)
  BY <1>2, <1>3, CallFinite, SumPlus
<1>5. Sum(both, Call) = Sum(Worth(edges, d, cs), Call) + Sum(Marked(edges, d, new), Call)
  BY <1>2, <1>3, CallFinite, SumPlus
<1>6. QED
  BY <1>4, <1>5

\* No calls are worth nothing.
LEMMA MarkedNone ==
  ASSUME NEW edges \in SUBSET Call, NEW d
  PROVE  Sum(Marked(edges, d, {}), Call) = 0
<1>1. \A m \in Call : Marked(edges, d, {})[m] = IF m \in {} THEN Marked(edges, d, {})[m] ELSE 0
  BY DEF Marked
<1>2. Counts(Marked(edges, d, {}), {})
  BY DEF Counts
<1>3. {} \in SUBSET Call
  OBVIOUS
<1>4. Sum(Marked(edges, d, {}), Call) = Sum(Marked(edges, d, {}), {})
  BY <1>1, <1>2, <1>3, CallFinite, SumOver
<1>5. QED
  BY <1>4, SumIsFold, FS_EmptySet

\* One call is worth its weight.
LEMMA MarkedOne ==
  ASSUME NEW edges \in SUBSET Call, Acyclic(edges), NEW d \in Collectors, NEW m \in Call
  PROVE  Sum(Marked(edges, d, {m}), Call) = Weight(edges, d, m)
<1>1. \A n \in Call : Marked(edges, d, {m})[n] = IF n = m THEN Weight(edges, d, m) ELSE 0
  BY DEF Marked
<1>2. Weight(edges, d, m) \in Nat
  BY WorthCounts
<1>3. QED
  BY <1>1, <1>2, CallFinite, SumAt

\* The calls a collector begins are worth the paths from there that leave it.
LEMMA MarkedOnward ==
  ASSUME NEW edges \in SUBSET Call, Acyclic(edges), NEW d \in Collectors, NEW c \in Collectors,
         NEW new, \A m \in edges : m \in new <=> m.from = c
  PROVE  PathsTo(edges, d)[c]
           = (IF c = d THEN 1 ELSE 0) + Sum(Marked(edges, d, new), Call)
<1> DEFINE h == PathsTo(edges, d)
<1>1. \A m \in Call :
        Marked(edges, d, new)[m] = IF m \in Out(edges, c) THEN Onward(edges, c, h)[m] ELSE 0
  BY DEF Marked, Weight, Out, Onward
<1>2. \A b \in Collectors : h[b] \in Nat
  BY PathsExpand
<1>3. h[c] = (IF c = d THEN 1 ELSE 0) + Sum(Onward(edges, c, h), Out(edges, c))
  BY PathsExpand
<1> HIDE DEF h
<1>4. Counts(Onward(edges, c, h), Out(edges, c)) /\ Out(edges, c) \in SUBSET Call
  BY <1>2, OnwardCounts DEF Out
<1>5. Sum(Marked(edges, d, new), Call) = Sum(Onward(edges, c, h), Out(edges, c))
  BY <1>1, <1>4, CallFinite, SumOver
<1>6. QED
  BY <1>3, <1>5 DEF h

\* Another submission is owed once for every path.
LEMMA OwedMore ==
  ASSUME NEW edges \in SUBSET Call, Acyclic(edges), NEW d \in Collectors, NEW c \in Collectors,
         NEW sub \in [Collectors -> Nat]
  PROVE  Sum(Owed(edges, d, [sub EXCEPT ![c] = @ + 1]), Collectors)
           = Sum(Owed(edges, d, sub), Collectors) + PathsTo(edges, d)[c]
<1> DEFINE more == [sub EXCEPT ![c] = @ + 1]
<1> DEFINE one == [b \in Collectors |-> IF b = c THEN PathsTo(edges, d)[c] ELSE 0]
<1>1. \A b \in Collectors : PathsTo(edges, d)[b] \in Nat
  BY PathsExpand
<1>2. ASSUME NEW b \in Collectors
      PROVE  Owed(edges, d, more)[b] = Owed(edges, d, sub)[b] + one[b]
  <2> DEFINE p == PathsTo(edges, d)[b]
  <2>1. p \in Nat /\ sub[b] \in Nat
    BY <1>1
  <2>2. Owed(edges, d, more)[b] = more[b] * p /\ Owed(edges, d, sub)[b] = sub[b] * p
    BY DEF Owed
  <2>3. sub[b] * p \in Nat /\ (sub[b] + 1) * p = sub[b] * p + p
    BY <2>1, Products
  <2>4. CASE b = c
    <3>1. more[b] = sub[b] + 1 /\ one[b] = p
      BY <2>4
    <3>2. QED
      BY <2>2, <2>3, <3>1
  <2>5. CASE b # c
    <3>1. more[b] = sub[b] /\ one[b] = 0
      BY <2>5
    <3> HIDE DEF p, more, one
    <3>2. QED
      BY <2>2, <2>3, <3>1
  <2>6. QED
    BY <2>4, <2>5
<1>3. Counts(Owed(edges, d, sub), Collectors) /\ Counts(one, Collectors)
  BY <1>1, WorthCounts DEF Counts
<1>4. \A b \in Collectors : one[b] = IF b = c THEN PathsTo(edges, d)[c] ELSE 0
  OBVIOUS
<1> HIDE DEF one, more
<1>5. Sum(one, Collectors) = PathsTo(edges, d)[c]
  BY <1>1, <1>4, ReplicationAssumption, SumAt
<1>6. Sum(Owed(edges, d, more), Collectors)
        = Sum(Owed(edges, d, sub), Collectors) + Sum(one, Collectors)
  BY <1>2, <1>3, ReplicationAssumption, SumPlus
<1>7. QED
  BY <1>5, <1>6 DEF more
-----------------------------------------------------------------------------
\* What a collector has stored and the calls will bring it is covered by the
\* submissions and the paths from there.
Covered ==
  Acyclic(Edges) => \A d \in Collectors :
    stores[d] + Sum(Worth(Edges, d, calls), Call) <= Sum(Owed(Edges, d, submitted), Collectors)

Accounts ==
  /\ submitted \in [Collectors -> Nat]
  /\ \A m \in Call : calls[m] > 0 => m \in Connected
  /\ Covered

\* The edges do not change.
LEMMA EdgesStay == [Next]_vars => Edges' = Edges /\ Connected' = Connected
<1> SUFFICES ASSUME [Next]_vars PROVE clients' = clients
  BY DEF Edges, Connected, Skipped
<1> QED BY DEF Next, Submit, Deliver, Fail, vars

\* What one step makes of the account of a collector that holds.
LEMMA AccountKept ==
  ASSUME NEW edges \in SUBSET Call, Acyclic(edges), NEW d \in Collectors,
         NEW cs \in [Call -> Nat], NEW ds \in [Call -> Nat], NEW done, NEW new,
         \A m \in Call : ds[m] = cs[m] - (IF m \in done THEN 1 ELSE 0)
                                       + (IF m \in new THEN 1 ELSE 0),
         \A m \in done : cs[m] > 0,
         NEW s \in Nat, NEW t \in Nat, NEW o \in Nat, NEW p \in Nat,
         s + Sum(Worth(edges, d, cs), Call) <= o,
         t + Sum(Marked(edges, d, new), Call)
           <= s + p + Sum(Marked(edges, d, done), Call)
  PROVE  t + Sum(Worth(edges, d, ds), Call) <= o + p
<1>1. Sum(Worth(edges, d, ds), Call) + Sum(Marked(edges, d, done), Call)
        = Sum(Worth(edges, d, cs), Call) + Sum(Marked(edges, d, new), Call)
  BY Balance
<1>2. /\ Sum(Worth(edges, d, ds), Call) \in Nat /\ Sum(Worth(edges, d, cs), Call) \in Nat
      /\ Sum(Marked(edges, d, done), Call) \in Nat /\ Sum(Marked(edges, d, new), Call) \in Nat
  BY WorthCounts, CallFinite, SumStep
<1>3. QED
  BY <1>1, <1>2

\* Every step of the collectors keeps the accounts right.
LEMMA AccountsInductive == IInv /\ Accounts /\ [Next]_vars => Accounts'
<1> SUFFICES ASSUME IInv, Accounts, [Next]_vars PROVE Accounts'
  OBVIOUS
<1>1. Edges' = Edges /\ Connected' = Connected
  BY EdgesStay
<1>2. Edges \in SUBSET Call /\ Connected \in SUBSET Call
  BY DEF Edges, Connected
<1>3. /\ stores \in [Collectors -> Nat] /\ calls \in [Call -> Nat]
      /\ submitted \in [Collectors -> Nat]
  BY DEF IInv, Types, Accounts
<1>4. stores' \in [Collectors -> Nat] /\ calls' \in [Call -> Nat]
  BY Inductive DEF IInv, Types
<1>5. ASSUME Acyclic(Edges), NEW d \in Collectors
      PROVE  /\ stores[d] + Sum(Worth(Edges, d, calls), Call)
                  <= Sum(Owed(Edges, d, submitted), Collectors)
             /\ Sum(Owed(Edges, d, submitted), Collectors) \in Nat
             /\ \A c \in Collectors : PathsTo(Edges, d)[c] \in Nat
  <2>1. Counts(Owed(Edges, d, submitted), Collectors)
    BY <1>2, <1>3, <1>5, WorthCounts
  <2>2. Sum(Owed(Edges, d, submitted), Collectors) \in Nat
    BY <2>1, ReplicationAssumption, SumStep
  <2>3. QED
    BY <1>2, <1>5, <2>2, PathsExpand DEF Accounts, Covered
<1>7. ASSUME NEW c \in Collectors, Submit(c) PROVE Accounts'
  <2>1. /\ stores' = [stores EXCEPT ![c] = @ + 1]
        /\ submitted' = [submitted EXCEPT ![c] = @ + 1]
        /\ calls' = Calls({}, ReplicateToBackups(c))
    BY <1>7 DEF Submit, StoreSpan
  <2>2. \A m \in Call : calls'[m] = calls[m] - (IF m \in {} THEN 1 ELSE 0)
                                      + (IF m \in ReplicateToBackups(c) THEN 1 ELSE 0)
    BY <2>1 DEF Calls
  <2>3. ASSUME Acyclic(Edges), NEW d \in Collectors
        PROVE  stores'[d] + Sum(Worth(Edges, d, calls'), Call)
                 <= Sum(Owed(Edges, d, submitted'), Collectors)
    <3> DEFINE new == ReplicateToBackups(c)
    <3> DEFINE p == PathsTo(Edges, d)[c]
    <3>1. Sum(Owed(Edges, d, submitted'), Collectors)
            = Sum(Owed(Edges, d, submitted), Collectors) + p
      BY <1>2, <1>3, <2>1, <2>3, OwedMore
    <3>2. \A m \in Edges : m \in new <=> m.from = c
      BY DEF ReplicateToBackups, Edges
    <3>3. stores'[d] = stores[d] + (IF c = d THEN 1 ELSE 0)
      BY <1>3, <2>1
    <3>4. Sum(Marked(Edges, d, {}), Call) = 0
      BY <1>2, MarkedNone
    <3>5. p \in Nat
      BY <1>5, <2>3
    <3> HIDE DEF new
    <3>6. p = (IF c = d THEN 1 ELSE 0) + Sum(Marked(Edges, d, new), Call)
      BY <1>2, <2>3, <3>2, MarkedOnward
    <3>7. Sum(Marked(Edges, d, new), Call) \in Nat
      BY <1>2, <2>3, WorthCounts, CallFinite, SumStep
    <3>8. stores[d] \in Nat /\ stores'[d] \in Nat
      BY <1>3, <1>4
    <3> HIDE DEF p
    <3>9. stores'[d] + Sum(Marked(Edges, d, new), Call)
            <= stores[d] + p + Sum(Marked(Edges, d, {}), Call)
      BY <3>3, <3>4, <3>5, <3>6, <3>7, <3>8
    <3>10. /\ stores[d] + Sum(Worth(Edges, d, calls), Call)
                <= Sum(Owed(Edges, d, submitted), Collectors)
           /\ Sum(Owed(Edges, d, submitted), Collectors) \in Nat
      BY <1>5, <2>3
    <3>11. stores'[d] + Sum(Worth(Edges, d, calls'), Call)
             <= Sum(Owed(Edges, d, submitted), Collectors) + p
      BY <1>2, <1>3, <1>4, <2>2, <2>3, <3>5, <3>8, <3>9, <3>10, AccountKept DEF new
    <3>12. QED
      BY <3>1, <3>11
  <2>4. Covered'
    BY <1>1, <2>3 DEF Covered
  <2>5. submitted' \in [Collectors -> Nat]
    BY <1>3, <2>1
  <2>6. \A m \in Call : calls'[m] > 0 => m \in Connected'
    BY <1>1, <1>3, <2>2 DEF Accounts, ReplicateToBackups
  <2>7. QED
    BY <2>4, <2>5, <2>6 DEF Accounts
<1>8. ASSUME NEW n \in Call, NEW new, calls[n] > 0, calls' = Calls({n}, new),
             submitted' = submitted, new \subseteq Connected,
             \/ stores' = stores /\ new = {}
             \/ /\ n \in Edges /\ new = ReplicateToBackups(n.to)
                /\ stores' = [stores EXCEPT ![n.to] = @ + 1]
      PROVE  Accounts'
  <2>1. \A m \in Call : calls'[m] = calls[m] - (IF m \in {n} THEN 1 ELSE 0)
                                      + (IF m \in new THEN 1 ELSE 0)
    BY <1>8 DEF Calls
  <2>2. \A m \in {n} : calls[m] > 0
    BY <1>8
  <2>3. ASSUME Acyclic(Edges), NEW d \in Collectors
        PROVE  stores'[d] + Sum(Worth(Edges, d, calls'), Call)
                 <= Sum(Owed(Edges, d, submitted'), Collectors)
    <3>1. Sum(Marked(Edges, d, {n}), Call) = Weight(Edges, d, n)
      BY <1>2, <2>3, MarkedOne
    <3>2. Weight(Edges, d, n) \in Nat /\ stores[d] \in Nat /\ stores'[d] \in Nat
      BY <1>2, <1>3, <1>4, <2>3, WorthCounts
    <3>3. stores'[d] + Sum(Marked(Edges, d, new), Call) <= stores[d] + Weight(Edges, d, n)
      <4>1. CASE stores' = stores /\ new = {}
        <5>1. Sum(Marked(Edges, d, new), Call) = 0
          BY <1>2, <4>1, MarkedNone
        <5>2. QED
          BY <3>2, <4>1, <5>1
      <4>2. CASE /\ n \in Edges /\ new = ReplicateToBackups(n.to)
                 /\ stores' = [stores EXCEPT ![n.to] = @ + 1]
        <5> DEFINE c == n.to
        <5>1. c \in Collectors /\ Weight(Edges, d, n) = PathsTo(Edges, d)[c]
          BY <4>2 DEF Call, Weight
        <5>2. \A m \in Edges : m \in new <=> m.from = c
          BY <4>2 DEF ReplicateToBackups, Edges
        <5>3. stores'[d] = stores[d] + (IF c = d THEN 1 ELSE 0)
          BY <1>3, <4>2, <5>1
        <5> HIDE DEF c
        <5>4. PathsTo(Edges, d)[c] = (IF c = d THEN 1 ELSE 0) + Sum(Marked(Edges, d, new), Call)
          BY <1>2, <2>3, <5>1, <5>2, MarkedOnward
        <5>5. Sum(Marked(Edges, d, new), Call) \in Nat
          BY <1>2, <2>3, WorthCounts, CallFinite, SumStep
        <5>6. QED
          BY <3>2, <5>1, <5>3, <5>4, <5>5
      <4>3. QED
        BY <1>8, <4>1, <4>2
    <3>4. Sum(Marked(Edges, d, new), Call) \in Nat
      BY <1>2, <2>3, WorthCounts, CallFinite, SumStep
    <3>5. stores'[d] + Sum(Marked(Edges, d, new), Call)
            <= stores[d] + 0 + Sum(Marked(Edges, d, {n}), Call)
      BY <3>1, <3>2, <3>3, <3>4
    <3>6. /\ stores[d] + Sum(Worth(Edges, d, calls), Call)
               <= Sum(Owed(Edges, d, submitted), Collectors)
          /\ Sum(Owed(Edges, d, submitted), Collectors) \in Nat /\ 0 \in Nat
      BY <1>5, <2>3
    <3>7. stores'[d] + Sum(Worth(Edges, d, calls'), Call)
            <= Sum(Owed(Edges, d, submitted), Collectors) + 0
      BY <1>2, <1>3, <1>4, <2>1, <2>2, <2>3, <3>2, <3>5, <3>6, AccountKept
    <3>8. QED
      BY <1>8, <3>6, <3>7
  <2>4. Covered'
    BY <1>1, <2>3 DEF Covered
  <2>5. ASSUME NEW m \in Call, calls'[m] > 0 PROVE m \in Connected'
    <3>1. CASE m \in new
      BY <1>1, <1>8, <3>1
    <3>2. CASE m \notin new
      <4>1. calls[m] \in Nat /\ calls'[m] = calls[m] - (IF m \in {n} THEN 1 ELSE 0) + 0
        BY <1>3, <2>1, <3>2
      <4>2. calls[m] > 0
        BY <2>5, <4>1
      <4>3. QED
        BY <1>1, <4>2 DEF Accounts
    <3>3. QED
      BY <3>1, <3>2
  <2>6. QED
    BY <1>3, <1>8, <2>4, <2>5 DEF Accounts
<1>9. ASSUME NEW n \in Call, Deliver(n) PROVE Accounts'
  <2>1. calls[n] > 0 /\ submitted' = submitted /\ n \in Connected
    BY <1>9 DEF Deliver, Accounts
  <2>2. CASE Skipped(n)
    <3>1. stores' = stores /\ calls' = Calls({n}, {})
      BY <1>9, <2>2 DEF Deliver
    <3>2. QED
      BY <1>8, <2>1, <3>1
  <2>3. CASE ~Skipped(n)
    <3>1. /\ stores' = [stores EXCEPT ![n.to] = @ + 1]
          /\ calls' = Calls({n}, ReplicateToBackups(n.to))
      BY <1>9, <2>3 DEF Deliver, StoreSpan
    <3>2. n \in Edges /\ ReplicateToBackups(n.to) \subseteq Connected
      BY <2>1, <2>3 DEF Edges, ReplicateToBackups
    <3>3. QED
      BY <1>8, <2>1, <3>1, <3>2
  <2>4. QED
    BY <2>2, <2>3
<1>10. ASSUME NEW n \in Call, Fail(n) PROVE Accounts'
  <2>1. calls[n] > 0 /\ calls' = Calls({n}, {}) /\ stores' = stores /\ submitted' = submitted
    BY <1>10 DEF Fail
  <2>2. QED
    BY <1>8, <2>1
<1>11. CASE UNCHANGED vars
  BY <1>1, <1>11 DEF vars, Accounts, Covered
<1>12. QED
  BY <1>7, <1>9, <1>10, <1>11 DEF Next

\* Nothing is submitted, stored or under way at first.
LEMMA InitAccounts == Init => Accounts
<1> SUFFICES ASSUME Init PROVE Accounts
  OBVIOUS
<1>1. /\ submitted \in [Collectors -> Nat] /\ \A c \in Collectors : stores[c] = 0
      /\ \A m \in Call : calls[m] = 0
      /\ calls \in [Call -> Nat] /\ \A c \in Collectors : submitted[c] = 0
  BY DEF Init
<1>2. ASSUME Acyclic(Edges), NEW d \in Collectors
      PROVE  stores[d] + Sum(Worth(Edges, d, calls), Call)
               <= Sum(Owed(Edges, d, submitted), Collectors)
  <2>1. Edges \in SUBSET Call
    BY DEF Edges, Connected
  <2>2. \A m \in Call : Weight(Edges, d, m) \in Nat
    BY <1>2, <2>1, WorthCounts
  <2>3. \A m \in Call : Worth(Edges, d, calls)[m] = IF m \in {} THEN Worth(Edges, d, calls)[m] ELSE 0
    BY <1>1, <2>2 DEF Worth
  <2>4. Counts(Worth(Edges, d, calls), {}) /\ {} \in SUBSET Call
    BY DEF Counts
  <2>5. Sum(Worth(Edges, d, calls), Call) = Sum(Worth(Edges, d, calls), {})
    BY <2>3, <2>4, CallFinite, SumOver
  <2>6. Sum(Worth(Edges, d, calls), {}) = 0
    BY SumIsFold, FS_EmptySet
  <2>7. Counts(Owed(Edges, d, submitted), Collectors)
    BY <1>1, <1>2, <2>1, WorthCounts
  <2>8. Sum(Owed(Edges, d, submitted), Collectors) \in Nat
    BY <2>7, ReplicationAssumption, SumStep
  <2>9. QED
    BY <1>1, <2>5, <2>6, <2>8
<1>3. QED
  BY <1>1, <1>2 DEF Accounts, Covered

\* Where no replica leads back, a collector stores a span at most once for each
\* submission and each path from there, whatever fails and in whatever order
\* the replicas answer: for every topology, any ids and any submissions.
THEOREM StoredOncePerPath == Spec => []OneCopyPerPath
<1>1. IInv /\ Accounts => OneCopyPerPath
  <2> SUFFICES ASSUME IInv, Accounts, Acyclic(Edges), NEW d \in Collectors
               PROVE  stores[d]
                        <= SumFunction([c \in Collectors |-> submitted[c] * Paths(c, d)])
    BY DEF OneCopyPerPath
  <2>1. Edges \in SUBSET Call
    BY DEF Edges, Connected
  <2>2. SumFunction([c \in Collectors |-> submitted[c] * Paths(c, d)])
          = Sum(Owed(Edges, d, submitted), Collectors)
    <3>1. [c \in Collectors |-> submitted[c] * Paths(c, d)] = Owed(Edges, d, submitted)
      BY DEF Owed, Paths
    <3>2. DOMAIN Owed(Edges, d, submitted) = Collectors
      BY DEF Owed
    <3>3. QED
      BY <3>1, <3>2, SumIsSum
  <2>3. Counts(Worth(Edges, d, calls), Call) /\ Counts(Owed(Edges, d, submitted), Collectors)
    BY <2>1, WorthCounts DEF IInv, Types, Accounts
  <2>4. /\ Sum(Worth(Edges, d, calls), Call) \in Nat
        /\ Sum(Owed(Edges, d, submitted), Collectors) \in Nat
    BY <2>3, CallFinite, ReplicationAssumption, SumStep
  <2>5. stores[d] \in Nat
    BY DEF IInv, Types
  <2>6. stores[d] + Sum(Worth(Edges, d, calls), Call) <= Sum(Owed(Edges, d, submitted), Collectors)
    BY DEF Accounts, Covered
  <2>7. QED
    BY <2>2, <2>4, <2>5, <2>6
<1>2. Spec => [](IInv /\ Accounts)
  BY InitIInv, InitAccounts, Inductive, AccountsInductive, PTL DEF Spec
<1>3. QED
  BY <1>1, <1>2, PTL
=============================================================================
