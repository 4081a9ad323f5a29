--------------------------- MODULE CollectorProcess ---------------------------
(***************************************************************************)
(* The process of src/collector/collector_main.go around the collector:    *)
(* start, the analysis worker, and the shutdown after a signal, which      *)
(* drains the gRPC server, stops the collector and waits for at most ten   *)
(* seconds.  The process may be killed at any time and is started again.   *)
(*                                                                         *)
(* Processors of log files (module LogIngest) store spans as the handlers  *)
(* of RPCs do, but nothing in the shutdown waits for them, nor for the     *)
(* goroutines of ReplicateToBackups (module Replication).  Stop deletes    *)
(* from the map of clients without the lock that those hold to read it:    *)
(* the runtime may end the process for that.  RecoveryInterceptor keeps a  *)
(* panic of a handler from ending the process; no handler panics here.     *)
(***************************************************************************)
EXTENDS Collector

CONSTANTS Processors,  \* the handlers that process log files
          Replicas,    \* configured addresses of other collectors
          ParentOf     \* the parent of a span; itself for a root

ASSUME ProcessAssumption ==
  /\ Processors \subseteq Handlers
  /\ ParentOf \in [Spans -> Spans] /\ Roots = {s \in Spans : ParentOf[s] = s}
  /\ \A s \in Spans : TraceOf[ParentOf[s]] = TraceOf[s]

VARIABLES phase,    \* of main: "down", "running", "draining", "stopping", "waiting"
          worker,   \* the analysis worker: "waiting" for its ticker, "analysing",
                    \* "doomed" if it has listed a trace that makes it panic, "ended"
          clients,  \* keys of replicaConnections and replicaClients
          copying,  \* a goroutine is in ReplicateToBackups, before line 384
          early     \* traces whose root came before all its other spans were stored

processVars == <<vars, phase, worker, clients, copying, early>>

Servers == Handlers \ Processors

ProcessTypeOK ==
  /\ TypeOK
  /\ phase \in {"down", "running", "draining", "stopping", "waiting"}
  /\ worker \in {"waiting", "analysing", "doomed", "ended"}
  /\ clients \subseteq Replicas /\ copying \in BOOLEAN /\ early \subseteq Traces

ProcessInit ==
  /\ Init
  /\ phase = "down" /\ worker = "ended" /\ clients = {} /\ copying = FALSE /\ early = {}
-----------------------------------------------------------------------------
\* main (76-113): replicas that do not answer within five seconds are left out
\* (collector.go:109-113).
Boot ==
  /\ phase = "down"
  /\ phase' = "running" /\ worker' = "waiting"
  /\ clients' \in SUBSET Replicas
  /\ UNCHANGED <<vars, copying, early>>

Die ==
  /\ Restart
  /\ phase' = "down" /\ worker' = "ended" /\ clients' = {} /\ copying' = FALSE
  /\ UNCHANGED early

Kill == phase # "down" /\ Die

Unfinished(r) == \E s \in Spans \ {r} : TraceOf[s] = TraceOf[r] /\ acked[s] = 0

\* A request is taken while the server accepts RPCs; a scan starts a processor
\* until stopCh is closed.
Request(h) ==
  /\ \/ /\ h \in Servers /\ phase = "running"
        /\ (\E s \in Spans : CollectSpan(h, s)) \/ ReplicateSpans(h)
     \/ h \in Processors /\ phase \in {"running", "draining"} /\ ReplicateSpans(h)
  /\ LET roots == {r \in Roots : received'[r] > received[r] /\ Unfinished(r)}
     IN early' = early \cup {TraceOf[r] : r \in roots}
  /\ UNCHANGED <<phase, worker, clients, copying>>

\* StoreSpan starts a goroutine for the replicas when it has stored the span.
HandlerStep(h) ==
  /\ \/ Load(h) /\ UNCHANGED copying
     \/ Store(h) /\ copying' = TRUE
     \/ StoreFails(h) /\ UNCHANGED copying
     \/ Reply(h) /\ UNCHANGED copying
  /\ UNCHANGED <<phase, worker, clients, early>>

\* ReplicateToBackups (379-384): the last goroutine has copied the clients.
Copied ==
  /\ copying /\ copying' = FALSE
  /\ UNCHANGED <<vars, phase, worker, clients, early>>

\* startPruningLoop, until stopCh is closed.
Prune(t) ==
  /\ phase \in {"running", "draining"} /\ PruneOldTraces(t)
  /\ UNCHANGED <<phase, worker, clients, copying, early>>
-----------------------------------------------------------------------------
\* Mutant of Panics: traces without a start time are analysed too.
Panics_Untimed(t) ==
  \E s \in Spans : traces[t].copies[s] > 0 /\ traces[t].copies[ParentOf[s]] = 0

\* DetectBottlenecks reads a nil (analysis.go:143) if a parent is missing; only
\* traces with a start time, those with root metadata, get so far (719).
Panics(t) ==
  /\ traces[t].root # {}
  /\ \E s \in Spans : traces[t].copies[s] > 0 /\ traces[t].copies[ParentOf[s]] = 0

\* startAnalysisWorker and runAnalysis (243-305).  When the context has been
\* cancelled and the ticker has fired, select takes either.
RunAnalysis ==
  /\ phase # "down" /\ worker = "waiting"
  /\ worker' = IF \E t \in Traces : Panics(t) THEN "doomed" ELSE "analysing"
  /\ UNCHANGED <<vars, phase, clients, copying, early>>

AnalysisEnds ==
  /\ worker = "analysing" /\ worker' = "waiting"
  /\ UNCHANGED <<vars, phase, clients, copying, early>>

\* Nothing recovers: the panic of the worker ends the process.
AnalysisPanics == worker = "doomed" /\ Die

WorkerStops ==
  /\ phase \in {"draining", "stopping", "waiting"} /\ worker = "waiting"
  /\ worker' = "ended"
  /\ UNCHANGED <<vars, phase, clients, copying, early>>
-----------------------------------------------------------------------------
\* The first signal; nobody reads a second one (206-214).
Signal ==
  /\ phase = "running" /\ phase' = "draining"
  /\ UNCHANGED <<vars, worker, clients, copying, early>>

\* Mutant of GracefulStop: the server is stopped at once.
GracefulStop_AtOnce ==
  /\ phase = "draining" /\ phase' = "stopping"
  /\ UNCHANGED <<vars, worker, clients, copying, early>>

\* GracefulStop returns when all RPCs have been answered (195-218).
GracefulStop ==
  /\ phase = "draining" /\ \A h \in Servers : pc[h] = "idle"
  /\ phase' = "stopping"
  /\ UNCHANGED <<vars, worker, clients, copying, early>>

\* Stop, one turn of the loop (collector.go:134-138): while a goroutine reads
\* the map, the write to it may be fatal.
Disconnect(a) ==
  /\ phase = "stopping" /\ a \in clients
  /\ \/ /\ clients' = clients \ {a}
        /\ UNCHANGED <<vars, phase, worker, copying, early>>
     \/ copying /\ Die

Stopped ==
  /\ phase = "stopping" /\ clients = {}
  /\ phase' = "waiting"
  /\ UNCHANGED <<vars, worker, clients, copying, early>>

\* handleSignals (227-239): wg counts the server, which has stopped, and the
\* analysis worker.
AllTasksCompleted == phase = "waiting" /\ worker = "ended" /\ Die

\* Mutant of Timeout: there is none.
Timeout_Never == FALSE /\ Die

Timeout == phase = "waiting" /\ worker # "ended" /\ Die

ProcessNext ==
  \/ Boot \/ Kill \/ Copied \/ RunAnalysis \/ AnalysisEnds \/ AnalysisPanics \/ WorkerStops
  \/ Signal \/ GracefulStop \/ Stopped \/ AllTasksCompleted \/ Timeout
  \/ \E h \in Handlers : Request(h) \/ HandlerStep(h)
  \/ \E t \in Traces : Prune(t)
  \/ \E a \in Replicas : Disconnect(a)

ProcessSpec == ProcessInit /\ [][ProcessNext]_processVars

\* The storage answers, GracefulStop returns when it can, and the timer fires;
\* nothing says how long an analysis takes.
Fairness ==
  /\ \A h \in Servers : WF_processVars(HandlerStep(h))
  /\ WF_processVars(GracefulStop) /\ WF_processVars(Stopped)
  /\ \A a \in Replicas : WF_processVars(Disconnect(a))
  /\ WF_processVars(Timeout \/ AllTasksCompleted)

FairProcessSpec == ProcessSpec /\ Fairness
-----------------------------------------------------------------------------
(* "Stop gRPC server gracefully" (collector_main.go:216): from the moment  *)
(* the collector is stopped, whatever ends the process, a panic of the     *)
(* analysis or the fatal error in Stop included, cuts off no request that  *)
(* a client waits for: only a processor may be in the middle of a trace.   *)
NothingCutOff ==
  [][(phase \in {"stopping", "waiting"} /\ phase' = "down") =>
       {h \in Handlers : pc[h] # "idle"} \subseteq Processors]_processVars

(* The analysis takes the collector down only if a root span came to it    *)
(* before another span of its trace was stored, or the trace was disturbed.*)
(* When callers finish after the calls they make (module CallTree), roots  *)
(* come last and their traces have no start time, so the report skips them.*)
PanicsExplained == worker = "doomed" => early \cup disturbed # {}

(* A signal stops the collector (collector_main.go:206-240), even if the   *)
(* analysis never returns: RPCs end, and the wait for the rest is bounded. *)
StopsAfterSignal == phase = "draining" ~> phase = "down"
=============================================================================
