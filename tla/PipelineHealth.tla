---------------------------- MODULE PipelineHealth ----------------------------
(***************************************************************************)
(* What the data pipeline (crates/application/src/data_pipeline.rs) says   *)
(* of itself: its counters, its health and the configuration it is given.  *)
(* Nothing here is read under one lock with what it is about.              *)
(***************************************************************************)
EXTENDS Integers, Sequences

PipelineState == {"Starting", "Running", "Paused", "ShuttingDown", "Stopped", "Error"}
CircuitState == {"Closed", "Open", "HalfOpen"}

(* PipelineConfig::default().  Nothing checks a configuration.             *)
DefaultConfig ==
  [buffer_size |-> 1000, batch_size |-> 100, flush_interval_secs |-> 5,
   circuit_breaker_threshold |-> 5, circuit_breaker_timeout_secs |-> 30,
   symbols |-> {"ES"}, timeframe |-> "M1"]
-----------------------------------------------------------------------------
(* PipelineMetrics: four counters; the time since the pipeline was made is *)
(* given where it is used.                                                 *)
NewMetrics == [bars_ingested |-> 0, bars_persisted |-> 0, batches_written |-> 0, error_count |-> 0]

RecordIngested(m) == [m EXCEPT !.bars_ingested = @ + 1]
RecordPersisted(m, count) == [m EXCEPT !.bars_persisted = @ + count]
RecordBatch(m) == [m EXCEPT !.batches_written = @ + 1]
RecordError(m) == [m EXCEPT !.error_count = @ + 1]

(* flush_to_repository() after a save of count bars, or a failed one.      *)
AfterSave(m, count) == RecordBatch(RecordPersisted(m, count))

ProcessingRate(m, elapsed) == IF elapsed > 0 THEN m.bars_ingested \div elapsed ELSE 0

(* get_metrics(): each counter is read on its own, so view[i] holds the    *)
(* counters as they were at the i-th read.                                 *)
GetMetrics(view, elapsed) ==
  [bars_ingested |-> view[1].bars_ingested, bars_persisted |-> view[2].bars_persisted,
   batches_written |-> view[3].batches_written, error_count |-> view[4].error_count,
   processing_rate |-> ProcessingRate(view[5], elapsed), uptime_secs |-> elapsed]
-----------------------------------------------------------------------------
(* health(): the state, the breaker, the last error and the buffer under   *)
(* their locks, one after the other, then the counters.                    *)
Health(view, elapsed) ==
  [state |-> view[1].state, circuit_state |-> view[2].circuit,
   last_error |-> view[3].last_error, queue_depth |-> view[4].queued,
   processing_rate |-> ProcessingRate(view[5].metrics, elapsed), uptime_secs |-> elapsed,
   total_bars_processed |-> view[6].metrics.bars_ingested,
   total_bars_persisted |-> view[7].metrics.bars_persisted]

IsHealthy(health) == health.state = "Running" /\ health.circuit_state = "Closed"
IsDegraded(health) == health.state = "Running" /\ health.circuit_state = "Open"

OverallStatus(health) ==
  CASE IsHealthy(health) -> "healthy"
    [] ~IsHealthy(health) /\ IsDegraded(health) -> "degraded"
    [] OTHER -> "unhealthy"
-----------------------------------------------------------------------------
(* Laws, over small samples that TLC enumerates.                           *)

LOCAL Metrics(ingested, persisted) ==
  [NewMetrics EXCEPT !.bars_ingested = ingested, !.bars_persisted = persisted]
LOCAL View(state, circuit, ingested, persisted) ==
  [state |-> state, circuit |-> circuit, last_error |-> {}, queued |-> ingested - persisted,
   metrics |-> Metrics(ingested, persisted)]

(* With the default configuration a batch fits into the buffer, so a       *)
(* buffer that is full is one that persistence empties.                    *)
ASSUME DefaultConfigDrains ==
  DefaultConfig.batch_size \in 1..DefaultConfig.buffer_size

(* A recovery looks worse than the outage it ends: while a save is tried   *)
(* in the half-open state the pipeline is "unhealthy", and before that,    *)
(* with the breaker open, "degraded".  What is not running is unhealthy.   *)
ASSUME RecoveryLooksWorse ==
  \A state \in PipelineState, circuit \in CircuitState :
    LET status == OverallStatus(Health([i \in 1..7 |-> View(state, circuit, 0, 0)], 0))
    IN /\ circuit = "HalfOpen" \/ state # "Running" => status = "unhealthy"
       /\ state = "Running" => (status = "degraded" <=> circuit = "Open")

(* A snapshot can report more bars persisted than processed, although at   *)
(* no moment there were: the counters are read one after the other.  A     *)
(* counter alone never goes back from one snapshot to the next.            *)
ASSUME SnapshotsAreTorn ==
  LET moments == {m \in (0..2) \X (0..2) : m[2] <= m[1]}
      later(a, b) == a[1] <= b[1] /\ a[2] <= b[2]
      health(a, b) ==
        Health([i \in 1..7 |-> LET m == IF i < 7 THEN a ELSE b
                               IN View("Running", "Closed", m[1], m[2])], 1)
  IN /\ \E a, b \in moments :
          /\ later(a, b)
          /\ health(a, b).total_bars_persisted > health(a, b).total_bars_processed
     /\ \A a, b, c \in moments : later(a, b) /\ later(b, c) =>
          health(a, b).total_bars_processed <= health(b, c).total_bars_processed

(* Read at one moment, the numbers belong together: what has been saved in *)
(* batches was ingested, and the rate times the time does not exceed it.   *)
ASSUME QuietSnapshotsAreTrue ==
  \A n \in 0..3, k \in 0..3, t \in 0..3 : k <= n =>
    LET m == AfterSave(RecordError(RecordIngested(Metrics(n, 0))), k)
        s == GetMetrics([i \in 1..5 |-> m], t)
    IN /\ s.bars_persisted <= s.bars_ingested /\ s.batches_written = 1 /\ s.error_count = 1
       /\ s.processing_rate * t <= s.bars_ingested
=============================================================================
