---------------------------- MODULE DataPipeline ----------------------------
(***************************************************************************)
(* DataPipeline of crates/application/src/data_pipeline.rs for one symbol: *)
(* run() starts three tasks, ingestion publishes the provider's bars on    *)
(* the event bus, distribution moves them from the bus to the buffer, and  *)
(* persistence saves them in batches behind a circuit breaker.  shutdown() *)
(* may be called at any moment.  Bars are numbered as they arrive.         *)
(***************************************************************************)
EXTENDS Integers, Sequences, SequencesExt

CONSTANTS
  BufferSize,       \* DEFAULT_BUFFER_SIZE, at which distribution drops bars
  ConfigBufferSize, \* config.buffer_size, to which a failed save trims
  BatchSize,        \* config.batch_size
  Threshold,        \* failures that open the breaker
  Timeout,          \* how long it stays open before a save may be tried
  NoBar,
  MaxBars,          \* bound: bars the provider delivers
  MaxFailures       \* bound: saves that fail and answers that are lost

ASSUME PipelineAssumption ==
  /\ BufferSize \in Nat \ {0} /\ ConfigBufferSize \in Nat /\ BatchSize \in Nat
  /\ Threshold \in Nat \ {0} /\ Timeout \in Nat
  /\ MaxBars \in Nat /\ MaxFailures \in Nat /\ NoBar \notin Nat

VARIABLES
  pipeline,      \* PipelineState
  runner,        \* where run() is
  stopper,       \* where shutdown() is
  flushing,      \* the bars it took from the buffer
  tasks,         \* of each task: not started, running or ended
  signals,       \* the receivers that have a shutdown signal to read
  subscribed,    \* distribution has subscribed to the event bus
  ingested,      \* bars_ingested
  bus,           \* bars published and not yet received
  held,          \* the bar distribution has received and not yet buffered
  buffer,
  batch,         \* the bars persistence is saving
  breaker, failureCount,
  sinceFailure,  \* time since last_failure, up to Timeout; -1: None
  saved,         \* the bars in the order the repository executed their saves
  told,          \* the places in saved of the executions it answered with success
  persisted,     \* bars_persisted
  failures       \* bound: saves that have failed and answers that were lost

control == <<pipeline, runner, stopper, tasks, signals, subscribed>>
circuit == <<breaker, failureCount, sinceFailure>>
queues == <<bus, held, buffer, batch, flushing>>
repository == <<saved, told>>
vars == <<control, ingested, queues, circuit, repository, persisted, failures>>

Tasks == {"ingestion", "distribution", "persistence"}

Init ==
  /\ pipeline = "Stopped" /\ runner = "idle" /\ stopper = "idle"
  /\ tasks = [t \in Tasks |-> "none"] /\ signals = {} /\ subscribed = FALSE
  /\ ingested = 0
  /\ bus = << >> /\ held = NoBar /\ buffer = << >> /\ batch = << >> /\ flushing = << >>
  /\ breaker = "Closed" /\ failureCount = 0 /\ sinceFailure = -1
  /\ saved = << >> /\ told = {} /\ persisted = 0 /\ failures = 0
-----------------------------------------------------------------------------
(* run() and shutdown() *)

Running(t) == tasks[t] = "running"
End(t) == tasks' = [tasks EXCEPT ![t] = "ended"]

RunStarting ==
  /\ runner = "idle"
  /\ runner' = "starting" /\ pipeline' = "Starting"
  /\ UNCHANGED <<stopper, tasks, signals, subscribed, ingested, queues, circuit, repository,
                 persisted, failures>>

(* From here on run() would see a shutdown signal.                         *)
RunSubscribe ==
  /\ runner = "starting"
  /\ runner' = "subscribed"
  /\ UNCHANGED <<pipeline, stopper, tasks, signals, subscribed, ingested, queues, circuit,
                 repository, persisted, failures>>

RunRunning ==
  /\ runner = "subscribed"
  /\ runner' = "spawning" /\ pipeline' = "Running"
  /\ UNCHANGED <<stopper, tasks, signals, subscribed, ingested, queues, circuit, repository,
                 persisted, failures>>

(* Ingestion, distribution and persistence are spawned one after another,  *)
(* each with a receiver that sees later signals only.                      *)
RunSpawn ==
  /\ runner = "spawning"
  /\ \/ /\ tasks["ingestion"] = "none"
        /\ tasks' = [tasks EXCEPT !["ingestion"] = "running"] /\ runner' = runner
     \/ /\ tasks["ingestion"] # "none" /\ tasks["distribution"] = "none"
        /\ tasks' = [tasks EXCEPT !["distribution"] = "running"] /\ runner' = runner
     \/ /\ tasks["distribution"] # "none"
        /\ tasks' = [tasks EXCEPT !["persistence"] = "running"] /\ runner' = "waiting"
  /\ UNCHANGED <<pipeline, stopper, signals, subscribed, ingested, queues, circuit, repository,
                 persisted, failures>>

(* The signal, or the end of distribution or persistence, ends the wait.   *)
RunWaited ==
  /\ runner = "waiting"
  /\ "run" \in signals \/ \E t \in {"distribution", "persistence"} : tasks[t] = "ended"
  /\ runner' = "joining" /\ signals' = signals \ {"run"}
  /\ UNCHANGED <<pipeline, stopper, tasks, subscribed, ingested, queues, circuit, repository,
                 persisted, failures>>

RunReturn ==
  /\ runner = "joining" /\ tasks["ingestion"] = "ended"
  /\ runner' = "returned" /\ signals' = signals \ {"run"}
  /\ UNCHANGED <<pipeline, stopper, tasks, subscribed, ingested, queues, circuit, repository,
                 persisted, failures>>

(* pause() and resume() write the state, which no task reads.              *)
Pause ==
  /\ pipeline = "Running"
  /\ pipeline' = "Paused"
  /\ UNCHANGED <<runner, stopper, tasks, signals, subscribed, ingested, queues, circuit,
                 repository, persisted, failures>>

Resume ==
  /\ pipeline = "Paused"
  /\ pipeline' = "Running"
  /\ UNCHANGED <<runner, stopper, tasks, signals, subscribed, ingested, queues, circuit,
                 repository, persisted, failures>>

ShutdownBegin ==
  /\ stopper = "idle"
  /\ stopper' = "signal" /\ pipeline' = "ShuttingDown"
  /\ UNCHANGED <<runner, tasks, signals, subscribed, ingested, queues, circuit, repository,
                 persisted, failures>>

ShutdownSignalOne ==  \* seeded fault: the signal is taken by one receiver only
  LET running == {t \in Tasks : Running(t)}
  IN /\ stopper = "signal"
     /\ stopper' = "take"
     /\ signals' = IF runner = "waiting" THEN {"run"} ELSE running
     /\ UNCHANGED <<pipeline, runner, tasks, subscribed, ingested, queues, circuit, repository,
                    persisted, failures>>

(* A broadcast reaches the receivers there are at this moment.             *)
ShutdownSignal ==
  LET running == {t \in Tasks : Running(t)}
      waiting == IF runner \in {"subscribed", "spawning", "waiting", "joining"}
                 THEN {"run"} ELSE {}
  IN /\ stopper = "signal"
     /\ stopper' = "take" /\ signals' = running \cup waiting
     /\ UNCHANGED <<pipeline, runner, tasks, subscribed, ingested, queues, circuit, repository,
                    persisted, failures>>

ShutdownTake ==
  /\ stopper = "take"
  /\ stopper' = IF buffer = << >> THEN "finish" ELSE "flush"
  /\ flushing' = buffer /\ buffer' = << >>
  /\ UNCHANGED <<pipeline, runner, tasks, signals, subscribed, ingested, bus, held, batch,
                 circuit, repository, persisted, failures>>

(* A save executed once more, which its caller is told of.                 *)
SaveTold(bars) ==
  /\ saved' = saved \o bars
  /\ told' = told \cup (Len(saved) + 1)..(Len(saved) + Len(bars))

(* A save is executed and its answer is lost: with_retry() tries again, or *)
(* fails, and then the caller takes the bars for not saved.                *)
AnswerLost ==
  /\ failures < MaxFailures /\ failures' = failures + 1
  /\ \/ batch # << >> /\ saved' = saved \o batch
     \/ stopper = "flush" /\ saved' = saved \o flushing
  /\ UNCHANGED <<control, ingested, queues, circuit, told, persisted>>

ShutdownFlushed ==
  /\ stopper = "flush"
  /\ stopper' = "finish" /\ flushing' = << >>
  /\ SaveTold(flushing) /\ persisted' = persisted + Len(flushing)
  /\ UNCHANGED <<pipeline, runner, tasks, signals, subscribed, ingested, bus, held, buffer,
                 batch, circuit, failures>>

(* The bars of a flush that fails are dropped.                             *)
ShutdownFlushFails ==
  /\ stopper = "flush" /\ failures < MaxFailures
  /\ stopper' = "finish" /\ flushing' = << >> /\ failures' = failures + 1
  /\ UNCHANGED <<pipeline, runner, tasks, signals, subscribed, ingested, bus, held, buffer,
                 batch, circuit, repository, persisted>>

(* shutdown() gives the flush up, which may have reached the database or   *)
(* not, and returns without a change of state.                             *)
ShutdownTimesOut ==
  /\ stopper = "flush" /\ failures < MaxFailures
  /\ stopper' = "returned" /\ flushing' = << >> /\ failures' = failures + 1
  /\ saved' \in {saved, saved \o flushing}
  /\ UNCHANGED <<pipeline, runner, tasks, signals, subscribed, ingested, bus, held, buffer,
                 batch, circuit, told, persisted>>

ShutdownFinish ==
  /\ stopper = "finish"
  /\ stopper' = "returned" /\ pipeline' = "Stopped"
  /\ UNCHANGED <<runner, tasks, signals, subscribed, ingested, queues, circuit, repository,
                 persisted, failures>>
-----------------------------------------------------------------------------
(* The tasks.  Each select! looks for the shutdown signal first.           *)

Idle(t) == Running(t) /\ t \notin signals

TaskEnds(t) ==
  /\ Running(t) /\ t \in signals
  /\ t = "distribution" => subscribed /\ held = NoBar
  /\ t = "persistence" => batch = << >>
  /\ End(t) /\ signals' = signals \ {t}
  /\ UNCHANGED <<pipeline, runner, stopper, subscribed, ingested, queues, circuit, repository,
                 persisted, failures>>

(* The provider refuses the subscription.                                  *)
IngestRefused ==
  /\ Running("ingestion") /\ ingested = 0
  /\ End("ingestion") /\ signals' = signals \ {"ingestion"}
  /\ UNCHANGED <<pipeline, runner, stopper, subscribed, ingested, queues, circuit, repository,
                 persisted, failures>>

(* A bar that the bus does not take, or that is published before           *)
(* distribution has subscribed, reaches nobody.                            *)
IngestBar ==
  /\ Idle("ingestion") /\ ingested < MaxBars
  /\ ingested' = ingested + 1
  /\ \/ bus' = bus
     \/ subscribed /\ bus' = Append(bus, ingested')
  /\ UNCHANGED <<control, held, buffer, batch, flushing, circuit, repository, persisted, failures>>

DistributionSubscribe ==
  /\ Running("distribution") /\ ~subscribed
  /\ subscribed' = TRUE
  /\ UNCHANGED <<pipeline, runner, stopper, tasks, signals, ingested, queues, circuit, repository,
                 persisted, failures>>

DistributeReceive ==
  /\ Idle("distribution") /\ subscribed /\ held = NoBar /\ bus # << >>
  /\ held' = Head(bus) /\ bus' = Tail(bus)
  /\ UNCHANGED <<control, ingested, buffer, batch, flushing, circuit, repository, persisted, failures>>

DistributeUnbounded ==  \* seeded fault: the capacity is not looked at
  /\ held # NoBar
  /\ buffer' = Append(buffer, held)
  /\ held' = NoBar
  /\ UNCHANGED <<control, ingested, bus, batch, flushing, circuit, repository, persisted, failures>>

(* A full buffer drops its oldest bar.                                     *)
DistributePush ==
  /\ held # NoBar
  /\ buffer' = Append(IF Len(buffer) >= BufferSize THEN Tail(buffer) ELSE buffer, held)
  /\ held' = NoBar
  /\ UNCHANGED <<control, ingested, bus, batch, flushing, circuit, repository, persisted, failures>>
-----------------------------------------------------------------------------
(* Persistence and the circuit breaker *)

CanExecuteWhenClosed == breaker = "Closed"  \* seeded fault: a half open breaker runs nothing

CanExecute == breaker # "Open" \/ sinceFailure = -1 \/ sinceFailure >= Timeout

RecordSuccess ==
  /\ breaker' = IF breaker = "HalfOpen" THEN "Closed" ELSE breaker
  /\ failureCount' = 0 /\ sinceFailure' = -1

RecordFailure ==
  /\ failureCount' = failureCount + 1 /\ sinceFailure' = 0
  /\ breaker' = IF breaker = "HalfOpen" \/ (breaker = "Closed" /\ failureCount' >= Threshold)
                THEN "Open" ELSE breaker

Tick ==
  /\ sinceFailure \in 0..(Timeout - 1)
  /\ sinceFailure' = sinceFailure + 1
  /\ UNCHANGED <<control, ingested, queues, breaker, failureCount, repository, persisted, failures>>

FlushCopies ==  \* seeded fault: the bars stay in the buffer while they are saved
  /\ Idle("persistence") /\ batch = << >>
  /\ CanExecute /\ BatchSize > 0 /\ Len(buffer) >= BatchSize
  /\ batch' = SubSeq(buffer, 1, BatchSize)
  /\ UNCHANGED <<control, ingested, bus, held, buffer, flushing, circuit, repository, persisted,
                 failures>>

(* The periodic flush drains one batch.                                    *)
FlushTake ==
  /\ Idle("persistence") /\ batch = << >>
  /\ CanExecute /\ BatchSize > 0 /\ Len(buffer) >= BatchSize
  /\ batch' = SubSeq(buffer, 1, BatchSize)
  /\ buffer' = SubSeq(buffer, BatchSize + 1, Len(buffer))
  /\ UNCHANGED <<control, ingested, bus, held, flushing, circuit, repository, persisted, failures>>

FlushSaved ==
  /\ batch # << >>
  /\ SaveTold(batch) /\ persisted' = persisted + Len(batch)
  /\ batch' = << >>
  /\ RecordSuccess
  /\ UNCHANGED <<control, ingested, bus, held, buffer, flushing, failures>>

FlushFailsAtEnd ==  \* seeded fault: the bars are put back behind newer ones
  LET kept == buffer \o batch
  IN /\ batch # << >> /\ failures < MaxFailures
     /\ failures' = failures + 1
     /\ RecordFailure
     /\ buffer' = IF Len(kept) > ConfigBufferSize THEN SubSeq(kept, 1, ConfigBufferSize) ELSE kept
     /\ batch' = << >>
     /\ UNCHANGED <<control, ingested, bus, held, flushing, repository, persisted>>

FlushFailsForgets ==  \* seeded fault: the bars are not put back
  /\ batch # << >> /\ failures < MaxFailures
  /\ failures' = failures + 1
  /\ RecordFailure
  /\ batch' = << >>
  /\ UNCHANGED <<control, ingested, bus, held, buffer, flushing, repository, persisted>>

(* The bars go back to the front, and the newest are trimmed.              *)
FlushFails ==
  LET kept == batch \o buffer
  IN /\ batch # << >> /\ failures < MaxFailures
     /\ failures' = failures + 1
     /\ RecordFailure
     /\ buffer' = IF Len(kept) > ConfigBufferSize THEN SubSeq(kept, 1, ConfigBufferSize) ELSE kept
     /\ batch' = << >>
     /\ UNCHANGED <<control, ingested, bus, held, flushing, repository, persisted>>

HalfOpenTick ==
  /\ Idle("persistence") /\ batch = << >>
  /\ breaker = "Open" /\ sinceFailure # -1 /\ sinceFailure >= Timeout
  /\ breaker' = "HalfOpen"
  /\ UNCHANGED <<control, ingested, queues, failureCount, sinceFailure, repository, persisted,
                 failures>>
-----------------------------------------------------------------------------
RunStep == RunStarting \/ RunSubscribe \/ RunRunning \/ RunSpawn \/ RunWaited \/ RunReturn

ShutdownStep ==
  \/ ShutdownSignal \/ ShutdownTake \/ ShutdownFlushed \/ ShutdownFlushFails
  \/ ShutdownTimesOut \/ ShutdownFinish

DistributionStep ==
  DistributionSubscribe \/ DistributeReceive \/ DistributePush \/ TaskEnds("distribution")

PersistenceStep ==
  FlushTake \/ FlushSaved \/ FlushFails \/ HalfOpenTick \/ TaskEnds("persistence")

Next ==
  \/ RunStep \/ ShutdownBegin \/ ShutdownStep \/ Pause \/ Resume
  \/ IngestRefused \/ IngestBar \/ TaskEnds("ingestion") \/ DistributionStep \/ PersistenceStep
  \/ AnswerLost \/ Tick

Spec == Init /\ [][Next]_vars

(* The runtime polls what can go on, saves return, and time passes.        *)
FairSpec ==
  /\ Spec
  /\ WF_vars(RunStep) /\ WF_vars(ShutdownStep) /\ WF_vars(TaskEnds("ingestion"))
  /\ WF_vars(DistributionStep) /\ WF_vars(Tick)
  /\ WF_vars(FlushTake \/ FlushSaved \/ FlushFails \/ TaskEnds("persistence"))
  /\ WF_vars(HalfOpenTick)
-----------------------------------------------------------------------------
PipelineStates == {"Starting", "Running", "Paused", "ShuttingDown", "Stopped"}

(* The types of the state.  A task that has ended, or not started, holds   *)
(* no bars and has no signal to read; bars_persisted counts nothing that   *)
(* has not been saved.                                                     *)
TypeOK ==
  /\ pipeline \in PipelineStates
  /\ runner \in {"idle", "starting", "subscribed", "spawning", "waiting", "joining", "returned"}
  /\ stopper \in {"idle", "signal", "take", "flush", "finish", "returned"}
  /\ tasks \in [Tasks -> {"none", "running", "ended"}]
  /\ signals \subseteq {t \in Tasks : Running(t)} \cup {"run"} /\ subscribed \in BOOLEAN
  /\ ingested \in 0..MaxBars /\ held \in 1..MaxBars \cup {NoBar}
  /\ \A q \in {bus, buffer, batch, flushing, saved} : q \in Seq(1..MaxBars)
  /\ held # NoBar => Running("distribution")
  /\ batch # << >> => Running("persistence") /\ Len(batch) = BatchSize
  /\ flushing # << >> <=> stopper = "flush"
  /\ breaker \in {"Closed", "Open", "HalfOpen"} /\ failureCount \in 0..failures
  /\ sinceFailure \in -1..Timeout
  /\ failures \in 0..MaxFailures /\ told \subseteq 1..Len(saved) /\ persisted \in 0..Len(saved)

Waiting == buffer \o (IF held = NoBar THEN << >> ELSE <<held>>) \o bus

(* However saves fail, answers are lost and a shutdown cuts in, no bar is  *)
(* in two queues, and one whose save was answered is in none and is not    *)
(* saved again: its volume is added twice for a lost answer only.          *)
EachBarOnce ==
  LET queued == flushing \o batch \o Waiting
  IN /\ IsInjective(queued)
     /\ \A i \in told : /\ saved[i] \notin ToSet(queued)
                        /\ \A j \in i + 1..Len(saved) : saved[j] # saved[i]

(* Until a shutdown takes bars past persistence, bars wait in the order of *)
(* their arrival, those put back by a failed save too, behind all that     *)
(* were saved; an older bar is saved after a newer one only again.         *)
ArrivalOrder ==
  LET queued == batch \o Waiting
      SavedBefore(b, n) == \E k \in 1..n : saved[k] = b
  IN stopper \in {"idle", "signal", "take"} =>
       /\ \A i \in 1..(Len(queued) - 1) : queued[i] < queued[i + 1]
       /\ \A i \in 1..Len(saved), b \in ToSet(queued) :
            saved[i] < b \/ (i \notin told /\ SavedBefore(b, Len(saved)))
       /\ \A i, j \in 1..Len(saved) :
            i < j => saved[i] < saved[j] \/ SavedBefore(saved[j], i)

(* The buffer never outgrows both capacities, the constant that            *)
(* distribution knows and the configured one that a failed save knows.     *)
BufferBounded == Len(buffer) <= BufferSize \/ Len(buffer) <= ConfigBufferSize

(* The breaker is not closed with its threshold reached.                   *)
ClosedBelowThreshold == breaker = "Closed" => failureCount < Threshold

Bars == ToSet(saved \o flushing \o batch \o Waiting)

(* A bar on its way is lost only to a full buffer, or to a flush of        *)
(* shutdown() that fails.                                                  *)
LostOnlyWhenFull ==
  [][\A b \in Bars : b \notin Bars' =>
       \/ held # NoBar /\ Len(buffer) >= BufferSize
       \/ batch # << >> /\ Len(batch \o buffer) > ConfigBufferSize
       \/ stopper = "flush"]_vars

(* A buffered batch does not stay there: an open breaker, an outage that   *)
(* ends, a paused pipeline delay it only.                                  *)
BatchesDrain == Len(buffer) >= BatchSize ~> (Len(buffer) < BatchSize \/ stopper # "idle")

(* A shutdown that finds the tasks started ends them all and run() too.    *)
ShutdownEndsAll ==
  (stopper = "signal" /\ runner = "waiting") ~>
    (runner = "returned" /\ \A t \in Tasks : tasks[t] = "ended")

(* "Automatic failover on DB errors with recovery" (data_pipeline.rs:8):   *)
(* an open breaker does not stay open once saves succeed.                  *)
BreakerLeavesOpen == breaker = "Open" ~> (breaker # "Open" \/ stopper # "idle")
=============================================================================
