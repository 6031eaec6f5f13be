--------------------------- MODULE ResourceMonitor ---------------------------
(***************************************************************************)
(* besu_benchmark.py: ResourceMonitor, a daemon thread that samples the    *)
(* host and tags each sample with the phase of the benchmark it began in.  *)
(* Each probe of psutil has an exception handler of its own, so a sample   *)
(* may lack figures; all that the report tells apart is a host that has    *)
(* told its CPU and its memory, its CPU only, or neither.                  *)
(***************************************************************************)
EXTENDS Integers, Sequences, FiniteSets

CONSTANT MaxSamples   \* bound: samples of one run

VARIABLES
  phase,    \* the phase that new samples are tagged with
  samples,  \* [phase, figures], figures being "none", "cpu" or "all"
  sampler,  \* the thread: "off", "waiting", "sampling", "ended"
  tag,      \* the phase of the sample that is being taken
  stopping, \* _stop_event
  outlived  \* stop() gave up joining while a probe was still running

monitorVars == <<phase, samples, sampler, tag, stopping, outlived>>

MonitorInit ==
  /\ phase = "idle" /\ samples = <<>> /\ sampler = "off" /\ tag = "idle"
  /\ stopping = FALSE /\ outlived = FALSE

\* start
StartSampler ==
  /\ sampler = "off"
  /\ sampler' = "waiting"
  /\ UNCHANGED <<phase, samples, tag, stopping, outlived>>

set_phase(p) == phase' = p /\ UNCHANGED <<samples, sampler, tag, stopping, outlived>>

\* _run and the beginning of _sample_once: the phase is read under the lock.
BeginSample ==
  /\ sampler = "waiting" /\ ~stopping /\ Len(samples) < MaxSamples
  /\ sampler' = "sampling" /\ tag' = phase
  /\ UNCHANGED <<phase, samples, stopping, outlived>>

\* The rest of _sample_once, and the append.
EndSample ==
  /\ sampler = "sampling"
  /\ \E f \in {"none", "cpu", "all"} :
       samples' = Append(samples, [phase |-> tag, figures |-> f])
  /\ sampler' = "waiting"
  /\ UNCHANGED <<phase, tag, stopping, outlived>>

\* The loop looks at the event, also while it waits for its next turn.
EndSampler ==
  /\ sampler = "waiting" /\ stopping
  /\ sampler' = "ended"
  /\ UNCHANGED <<phase, samples, tag, stopping, outlived>>

Sampler == BeginSample \/ EndSample \/ EndSampler

\* stop sets the event ...
SetStop == stopping' = TRUE /\ UNCHANGED <<phase, samples, sampler, tag, outlived>>

\* Mutant: stop does not wait for the thread.
JoinAtOnce == stopping /\ UNCHANGED monitorVars

\* ... and joins: until the thread has ended, or until the time-out, which a thread that
\* is not inside a probe never reaches.
Join ==
  /\ stopping
  /\ \/ sampler \in {"off", "ended"} /\ UNCHANGED outlived
     \/ sampler = "sampling" /\ outlived' = TRUE
  /\ UNCHANGED <<phase, samples, sampler, tag, stopping>>

\* summary: how many samples, and which averages there are.
summary == [count |-> Len(samples),
            cpu |-> \E i \in DOMAIN samples : samples[i].figures # "none",
            mem |-> \E i \in DOMAIN samples : samples[i].figures = "all"]

\* phase_summary: the samples of each phase.
phase_summary ==
  [p \in {samples[i].phase : i \in DOMAIN samples} |->
     Cardinality({i \in DOMAIN samples : samples[i].phase = p})]
==============================================================================
