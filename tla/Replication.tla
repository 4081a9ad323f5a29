---------------------------- MODULE Replication ----------------------------
(***************************************************************************)
(* Replication between collectors of pkg/collector.go.  Every StoreSpan    *)
(* that succeeds starts, for each connected replica, a goroutine that      *)
(* calls ReplicateSpans there with the span and the collector's own id     *)
(* (lines 334-338, 374-406); the replica stores the span with the same     *)
(* StoreSpan, and so replicates it in turn (lines 562-580).  The goroutine *)
(* tries once: an error or the 5 s timeout ends it.                        *)
(*                                                                         *)
(* Spans do not meet here, so the module follows one span.  The call of a  *)
(* goroutine is a message.  The handlers' interleavings in StoreSpan are   *)
(* in module Collector: here a StoreSpan that succeeds is one step, which  *)
(* is counted.  Reconnecting (lines 399-402) replaces a connection and     *)
(* never adds a replica, so the set of clients is that of NewCollector.    *)
(***************************************************************************)
EXTENDS Integers, FiniteSets, Functions

CONSTANTS Collectors, Ids,
          IdOf,        \* config.ID
          Configured,  \* the possible config.ReplicaAddresses of the collectors
          MaxSubmits,  \* bound: how often clients send the span to a collector
          MaxStores    \* bound: copies at a collector

ASSUME ReplicationAssumption ==
  /\ IdOf \in [Collectors -> Ids]
  /\ Configured \subseteq [Collectors -> SUBSET Collectors]
  /\ MaxSubmits \in Nat /\ MaxStores \in Nat
  /\ IsFiniteSet(Collectors)

VARIABLES replicas,   \* config.ReplicaAddresses
          clients,    \* replicaClients: the replicas it could connect to
          submitted,  \* how often clients have stored the span at a collector
          stores,     \* how often the span has been stored there at all
          calls,      \* ReplicateSpans calls under way
          lost        \* whether a call has failed

vars == <<replicas, clients, submitted, stores, calls, lost>>

Call == [from : Collectors, to : Collectors]

Connected == {m \in Call : m.to \in clients[m.from]}

TypeOK ==
  /\ replicas \in Configured
  /\ clients \in [Collectors -> SUBSET Collectors]
  /\ \A c \in Collectors : clients[c] \subseteq replicas[c]
  /\ submitted \in [Collectors -> 0..MaxSubmits]
  /\ stores \in [Collectors -> 0..MaxStores]
  /\ calls \in [Call -> 0..MaxStores]
  /\ \A m \in Call \ Connected : calls[m] = 0
  /\ lost \in BOOLEAN

\* NewCollector connects once to every replica, and goes on without those
\* that do not answer (lines 110-114).
Init ==
  /\ replicas \in Configured
  /\ clients \in {f \in [Collectors -> SUBSET Collectors] :
                    \A c \in Collectors : f[c] \subseteq replicas[c]}
  /\ submitted = [c \in Collectors |-> 0] /\ stores = submitted
  /\ calls = [m \in Call |-> 0]
  /\ lost = FALSE
-----------------------------------------------------------------------------
\* Lines 374-390.
ReplicateToBackups(c) == {m \in Connected : m.from = c}

\* The calls once those in done have ended and those in new have begun.
Calls(done, new) ==
  [m \in Call |-> calls[m] - (IF m \in done THEN 1 ELSE 0) + (IF m \in new THEN 1 ELSE 0)]

\* Lines 327-338, for a span that comes with the call in done, if any.
StoreSpan(c, done) ==
  /\ stores[c] < MaxStores
  /\ stores' = [stores EXCEPT ![c] = @ + 1]
  /\ calls' = Calls(done, ReplicateToBackups(c))

\* A client's CollectSpan, or its ReplicateSpans as "direct-client".
Submit(c) ==
  /\ submitted[c] < MaxSubmits
  /\ submitted' = [submitted EXCEPT ![c] = @ + 1]
  /\ StoreSpan(c, {})
  /\ UNCHANGED <<replicas, clients, lost>>

\* Line 563: the only guard against loops.
Skipped(m) == IdOf[m.from] = IdOf[m.to]

\* Mutant of Deliver: a replica keeps what it gets to itself.
Deliver_NoForward(m) ==
  /\ calls[m] > 0
  /\ stores' = IF Skipped(m) THEN stores ELSE [stores EXCEPT ![m.to] = @ + 1]
  /\ calls' = Calls({m}, {})
  /\ UNCHANGED <<replicas, clients, submitted, lost>>

\* Mutant of Deliver: the sender repeats a call that has been served, as a retry
\* after the timeout would.
Deliver_Repeated(m) ==
  /\ calls[m] > 0
  /\ IF Skipped(m) THEN calls' = Calls({m}, {}) /\ UNCHANGED stores
                   ELSE StoreSpan(m.to, {})
  /\ UNCHANGED <<replicas, clients, submitted, lost>>

\* Lines 562-580 at the replica.
Deliver(m) ==
  /\ calls[m] > 0
  /\ IF Skipped(m) THEN calls' = Calls({m}, {}) /\ UNCHANGED stores
                   ELSE StoreSpan(m.to, {m})
  /\ UNCHANGED <<replicas, clients, submitted, lost>>

\* The call fails before the span is stored (lines 397-403; 571-573).
Fail(m) ==
  /\ calls[m] > 0
  /\ calls' = Calls({m}, {})
  /\ lost' = TRUE
  /\ UNCHANGED <<replicas, clients, submitted, stores>>

Next ==
  \/ \E c \in Collectors : Submit(c)
  \/ \E m \in Call : Deliver(m) \/ Fail(m)

Spec == Init /\ [][Next]_vars
-----------------------------------------------------------------------------
Edges == {m \in Connected : ~Skipped(m)}

\* How many paths there are to d from each collector, of at most as many edges
\* as there are collectors.
PathsTo(edges, d) ==
  LET UpTo[n \in 0..Cardinality(Collectors)] ==
        [c \in Collectors |->
           (IF c = d THEN 1 ELSE 0)
           + (IF n = 0 THEN 0
              ELSE SumFunction([m \in {e \in edges : e.from = c} |-> UpTo[n - 1][m.to]]))]
  IN  UpTo[Cardinality(Collectors)]

Paths(c, d) == PathsTo(Edges, d)[c]

\* The collectors can be ranked so that they replicate downwards only.
Acyclic(edges) ==
  \E rank \in [Collectors -> 1..Cardinality(Collectors)] :
    \A m \in edges : rank[m.to] < rank[m.from]

(* Where the collectors' replicas form no cycle (but for collectors that   *)
(* list themselves), a collector stores a span once for every submission   *)
(* and every path the replicas make from there: what is too much has a     *)
(* second path behind it, and nothing is stored twice for any other reason.*)
OneCopyPerPath ==
  Acyclic(Edges) => \A d \in Collectors :
    stores[d] <= SumFunction([c \in Collectors |-> submitted[c] * Paths(c, d)])

(* When nothing is under way and no call has failed, every collector to    *)
(* which a collector is connected has stored the span if it has, although  *)
(* replication is asynchronous, unless the two have the same id.           *)
QuietMeansReplicated ==
  (\A m \in Call : calls[m] = 0) /\ ~lost =>
    \A m \in Edges : stores[m.from] > 0 => stores[m.to] > 0

(* collector.go:564 "Skip replication from ourselves to avoid loops": a    *)
(* collector stores a span as often as clients have sent it to any.        *)
NoLoops == \A c \in Collectors : stores[c] <= SumFunction(submitted)
=============================================================================
