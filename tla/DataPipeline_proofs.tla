------------------------- MODULE DataPipeline_proofs -------------------------
(***************************************************************************)
(* Theorems about DataPipeline: its types, the two limits of its buffer,   *)
(* the threshold of its circuit breaker, that no bar is in two places, the *)
(* order of arrival until a shutdown takes the buffer, and what a bar can  *)
(* be lost to.                                                             *)
(***************************************************************************)
EXTENDS DataPipeline, FiniteSetTheorems, TLAPS

Bar == 1..MaxBars

(* What the steps do to a sequence: the front or the rest of one, one in   *)
(* front of another, one that is cut, one that gets a new last element.    *)
LEMMA FrontAndRest ==
  ASSUME NEW S, NEW q \in Seq(S), NEW n \in Nat, n <= Len(q)
  PROVE  /\ SubSeq(q, 1, n) \in Seq(S) /\ Len(SubSeq(q, 1, n)) = n
         /\ SubSeq(q, n + 1, Len(q)) \in Seq(S) /\ Len(SubSeq(q, n + 1, Len(q))) = Len(q) - n
  OBVIOUS

LEMMA Joined ==
  ASSUME NEW S, NEW q \in Seq(S), NEW r \in Seq(S)
  PROVE  q \o r \in Seq(S) /\ Len(q \o r) = Len(q) + Len(r)
  OBVIOUS

LEMMA CutTo ==
  ASSUME NEW S, NEW q \in Seq(S), NEW n \in Nat
  PROVE  LET kept == IF Len(q) > n THEN SubSeq(q, 1, n) ELSE q
         IN kept \in Seq(S) /\ Len(kept) <= n
<1>1. CASE Len(q) > n
  BY <1>1, FrontAndRest
<1>2. CASE ~(Len(q) > n)
  BY <1>2
<1> QED BY <1>1, <1>2

LEMMA HeadAndTail ==
  ASSUME NEW S, NEW q \in Seq(S), q # << >>
  PROVE  Head(q) \in S /\ Tail(q) \in Seq(S)
  OBVIOUS

(* The elements of the two parts of a sequence.                            *)
LEMMA PartElements ==
  ASSUME NEW S, NEW q \in Seq(S), NEW n \in Nat, n <= Len(q)
  PROVE  /\ \A i \in 1..n : SubSeq(q, 1, n)[i] = q[i]
         /\ \A i \in 1..(Len(q) - n) :
              SubSeq(q, n + 1, Len(q))[i] = q[n + i] /\ n + i \in 1..Len(q)
<1>1. \A i \in 1..(Len(q) - n) : n + i \in 1..Len(q) /\ i \in 1..(Len(q) - (n + 1) + 1)
  OBVIOUS
<1>2. \A i \in 1..(Len(q) - n) : SubSeq(q, n + 1, Len(q))[i] = q[n + i]
  BY <1>1
<1>3. \A i \in 1..n : SubSeq(q, 1, n)[i] = q[i]
  OBVIOUS
<1> QED BY <1>1, <1>2, <1>3

LEMMA Appended ==
  ASSUME NEW S, NEW q \in Seq(S), NEW b \in S
  PROVE  Append(q, b) \in Seq(S) /\ Len(Append(q, b)) = Len(q) + 1
  OBVIOUS
-----------------------------------------------------------------------------
(* Types *)

LEMMA InitType == Init => TypeOK
<1> SUFFICES ASSUME Init PROVE TypeOK
  OBVIOUS
<1>1. Len(<< >>) = 0 /\ << >> \in Seq(1..MaxBars)
  OBVIOUS
<1>2. \A q \in {bus, buffer, batch, flushing, saved} : q \in Seq(1..MaxBars)
  BY <1>1 DEF Init
<1>3. /\ failures \in 0..MaxFailures /\ persisted \in 0..Len(saved)
      /\ failureCount \in 0..failures /\ sinceFailure \in -1..Timeout
      /\ ingested \in 0..MaxBars /\ told \subseteq 1..Len(saved)
  BY <1>1, PipelineAssumption DEF Init
<1> QED
  BY <1>2, <1>3 DEF Init, TypeOK, Tasks, Running, PipelineStates

(* The types of the queues alone, for the steps that change one of them.   *)
LEMMA QueueTypes ==
  ASSUME TypeOK
  PROVE  /\ bus \in Seq(Bar) /\ buffer \in Seq(Bar) /\ batch \in Seq(Bar)
         /\ flushing \in Seq(Bar) /\ saved \in Seq(Bar)
         /\ persisted \in Nat /\ persisted <= Len(saved) /\ told \subseteq 1..Len(saved)
         /\ BatchSize \in Nat /\ BufferSize \in Nat /\ ConfigBufferSize \in Nat
  BY PipelineAssumption DEF TypeOK, Bar

(* A batch is the front of the buffer, and leaves the rest.                *)
LEMMA TakenTypes ==
  ASSUME TypeOK, FlushTake
  PROVE  batch' \in Seq(Bar) /\ Len(batch') = BatchSize /\ buffer' \in Seq(Bar)
<1>1. buffer \in Seq(Bar) /\ BatchSize \in Nat
  BY QueueTypes
<1>2. BatchSize <= Len(buffer)
  BY <1>1 DEF FlushTake
<1>3. /\ SubSeq(buffer, 1, BatchSize) \in Seq(Bar)
      /\ Len(SubSeq(buffer, 1, BatchSize)) = BatchSize
      /\ SubSeq(buffer, BatchSize + 1, Len(buffer)) \in Seq(Bar)
  BY <1>1, <1>2, FrontAndRest
<1> QED BY <1>3 DEF FlushTake

(* What is saved grows, and the counter no faster.                         *)
LEMMA SavedTypes ==
  ASSUME TypeOK, NEW q \in Seq(Bar)
  PROVE  /\ saved \o q \in Seq(Bar)
         /\ told \subseteq 1..Len(saved \o q)
         /\ told \cup (Len(saved) + 1)..(Len(saved) + Len(q)) \subseteq 1..Len(saved \o q)
         /\ persisted \in 0..Len(saved \o q)
         /\ persisted + Len(q) \in 0..Len(saved \o q)
<1>1. /\ saved \in Seq(Bar) /\ persisted \in Nat /\ persisted <= Len(saved)
      /\ told \subseteq 1..Len(saved)
  BY QueueTypes
<1>2. saved \o q \in Seq(Bar) /\ Len(saved \o q) = Len(saved) + Len(q)
  BY <1>1, Joined
<1>3. Len(q) \in Nat /\ Len(saved) \in Nat
  BY <1>1
<1>4. \A n, k \in Nat : 1..n \subseteq 1..(n + k) /\ (n + 1)..(n + k) \subseteq 1..(n + k)
  OBVIOUS
<1>5. /\ 1..Len(saved) \subseteq 1..Len(saved \o q)
      /\ (Len(saved) + 1)..(Len(saved) + Len(q)) \subseteq 1..Len(saved \o q)
  BY <1>2, <1>3, <1>4
<1>6. told \cup (Len(saved) + 1)..(Len(saved) + Len(q)) \subseteq 1..Len(saved \o q)
  BY <1>1, <1>5
<1> QED BY <1>1, <1>2, <1>3, <1>5, <1>6

LEMMA RunTypes ==
  ASSUME TypeOK, RunStep \/ Pause \/ Resume PROVE TypeOK'
<1> USE PipelineAssumption
    DEF TypeOK, Running, Tasks, PipelineStates, control, queues, circuit, repository
<1>1. CASE RunStarting BY <1>1 DEF RunStarting
<1>2. CASE RunSubscribe BY <1>2 DEF RunSubscribe
<1>3. CASE RunRunning BY <1>3 DEF RunRunning
<1>4. CASE RunSpawn BY SMTT(30), <1>4 DEF RunSpawn
<1>5. CASE RunWaited BY <1>5 DEF RunWaited
<1>6. CASE RunReturn BY <1>6 DEF RunReturn
<1>7. CASE Pause BY <1>7 DEF Pause
<1>8. CASE Resume BY <1>8 DEF Resume
<1> QED BY <1>1, <1>2, <1>3, <1>4, <1>5, <1>6, <1>7, <1>8 DEF RunStep

LEMMA ShutdownTypes ==
  ASSUME TypeOK, ShutdownBegin \/ ShutdownStep PROVE TypeOK'
<1> USE PipelineAssumption
    DEF TypeOK, Running, Tasks, PipelineStates, control, queues, circuit, repository
<1>1. CASE ShutdownBegin BY <1>1 DEF ShutdownBegin
<1>2. CASE ShutdownSignal BY <1>2 DEF ShutdownSignal
<1>3. CASE ShutdownTake BY <1>3 DEF ShutdownTake
<1>4. CASE ShutdownFlushed
  <2>1. /\ saved' \in Seq(1..MaxBars) /\ persisted' \in 0..Len(saved')
        /\ told' \subseteq 1..Len(saved')
    <3> HIDE DEF TypeOK
    <3>1. flushing \in Seq(Bar)
      BY QueueTypes
    <3>2. /\ saved' = saved \o flushing /\ persisted' = persisted + Len(flushing)
          /\ told' = told \cup (Len(saved) + 1)..(Len(saved) + Len(flushing))
      BY <1>4 DEF ShutdownFlushed, SaveTold
    <3>3. /\ saved \o flushing \in Seq(Bar)
          /\ told \cup (Len(saved) + 1)..(Len(saved) + Len(flushing)) \subseteq 1..Len(saved \o flushing)
          /\ persisted + Len(flushing) \in 0..Len(saved \o flushing)
      BY <3>1, SavedTypes
    <3> QED BY <3>2, <3>3, Zenon DEF Bar
  <2>2. flushing' = << >> /\ UNCHANGED <<bus, buffer, batch>>
    BY <1>4 DEF ShutdownFlushed
  <2>3. \A q \in {bus', buffer', batch', flushing', saved'} : q \in Seq(1..MaxBars)
    <3> HIDE DEF TypeOK
    <3>1. /\ bus \in Seq(1..MaxBars) /\ buffer \in Seq(1..MaxBars)
          /\ batch \in Seq(1..MaxBars) /\ flushing \in Seq(1..MaxBars)
      BY QueueTypes DEF Bar
    <3>2. << >> \in Seq(1..MaxBars)
      OBVIOUS
    <3> QED BY <2>1, <2>2, <3>1, <3>2, Zenon
  <2> QED BY <1>4, <2>1, <2>3 DEF ShutdownFlushed
<1>5. CASE ShutdownFlushFails BY <1>5 DEF ShutdownFlushFails
<1>6. CASE ShutdownTimesOut
  <2>3. CASE saved' = saved BY <1>6, <2>3 DEF ShutdownTimesOut
  <2>4. CASE saved' = saved \o flushing
    <3>1. /\ saved' \in Seq(1..MaxBars) /\ persisted' \in 0..Len(saved')
          /\ told' \subseteq 1..Len(saved')
      <4> HIDE DEF TypeOK
      <4>1. flushing \in Seq(Bar)
        BY QueueTypes
      <4> QED BY <1>6, <2>4, <4>1, SavedTypes DEF ShutdownTimesOut, Bar
    <3> QED BY <1>6, <3>1 DEF ShutdownTimesOut
  <2> QED BY <1>6, <2>3, <2>4 DEF ShutdownTimesOut
<1>7. CASE ShutdownFinish BY <1>7 DEF ShutdownFinish
<1> QED BY <1>1, <1>2, <1>3, <1>4, <1>5, <1>6, <1>7 DEF ShutdownStep

LEMMA IngestionTypes ==
  ASSUME TypeOK, IngestRefused \/ IngestBar \/ (\E t \in Tasks : TaskEnds(t)) PROVE TypeOK'
<1> USE PipelineAssumption
    DEF TypeOK, Running, Tasks, PipelineStates, control, queues, circuit, repository, Idle, End
<1>1. CASE IngestRefused BY SMTT(30), <1>1 DEF IngestRefused
<1>2. CASE IngestBar
  <2>1. bus \in Seq(Bar) /\ ingested' \in Bar
    BY <1>2 DEF IngestBar, Bar
  <2>2. Append(bus, ingested') \in Seq(Bar)
    BY <2>1, Appended
  <2>3. bus' \in Seq(1..MaxBars)
    BY <1>2, <2>1, <2>2 DEF IngestBar, Bar
  <2> QED BY <1>2, <2>3 DEF IngestBar
<1>3. CASE \E t \in Tasks : TaskEnds(t) BY SMTT(30), <1>3 DEF TaskEnds
<1> QED BY <1>1, <1>2, <1>3

LEMMA DistributionTypes ==
  ASSUME TypeOK, DistributionSubscribe \/ DistributeReceive \/ DistributePush PROVE TypeOK'
<1> USE PipelineAssumption
    DEF TypeOK, Running, Tasks, PipelineStates, control, queues, circuit, repository, Idle
<1>1. CASE DistributionSubscribe BY <1>1 DEF DistributionSubscribe
<1>2. CASE DistributeReceive
  <2>1. Head(bus) \in 1..MaxBars /\ Tail(bus) \in Seq(1..MaxBars)
    <3> HIDE DEF TypeOK
    <3>1. bus \in Seq(Bar) /\ bus # << >>
      BY <1>2, QueueTypes DEF DistributeReceive
    <3> QED BY <3>1, HeadAndTail DEF Bar
  <2> QED BY <1>2, <2>1, SMTT(30) DEF DistributeReceive
<1>3. CASE DistributePush
  <2>1. buffer \in Seq(Bar) /\ held \in Bar
    BY <1>3 DEF DistributePush, Bar
  <2> DEFINE kept == IF Len(buffer) >= BufferSize THEN Tail(buffer) ELSE buffer
  <2>2. kept \in Seq(Bar)
    BY <2>1
  <2>3. Append(kept, held) \in Seq(Bar)
    BY <2>1, <2>2, Appended
  <2>4. buffer' \in Seq(1..MaxBars)
    BY <1>3, <2>3 DEF DistributePush, Bar
  <2>5. /\ held' = NoBar
        /\ UNCHANGED <<control, ingested, bus, batch, flushing, circuit, repository, persisted,
                       failures>>
    <3> HIDE DEF TypeOK
    <3> QED BY <1>3 DEF DistributePush
  <2>6. \A q \in {bus', buffer', batch', flushing', saved'} : q \in Seq(1..MaxBars)
    BY <2>4, <2>5
  <2> QED BY <2>5, <2>6
<1> QED BY <1>1, <1>2, <1>3

LEMMA PersistenceTypes ==
  ASSUME TypeOK, FlushTake \/ FlushSaved \/ FlushFails \/ HalfOpenTick \/ AnswerLost \/ Tick
  PROVE  TypeOK'
<1> USE PipelineAssumption
    DEF TypeOK, Running, Tasks, PipelineStates, control, queues, circuit, repository, Idle
<1>1. CASE FlushTake
  <2>2. /\ batch' \in Seq(1..MaxBars) /\ Len(batch') = BatchSize
        /\ buffer' \in Seq(1..MaxBars)
    <3> HIDE DEF TypeOK
    <3> QED BY <1>1, TakenTypes DEF Bar
  <2> QED BY <1>1, <2>2 DEF FlushTake
<1>2. CASE FlushSaved
  <2>1. /\ saved' \in Seq(1..MaxBars) /\ persisted' \in 0..Len(saved')
        /\ told' \subseteq 1..Len(saved')
    <3> HIDE DEF TypeOK
    <3>1. batch \in Seq(Bar)
      BY QueueTypes
    <3>2. /\ saved' = saved \o batch /\ persisted' = persisted + Len(batch)
          /\ told' = told \cup (Len(saved) + 1)..(Len(saved) + Len(batch))
      BY <1>2 DEF FlushSaved, SaveTold
    <3>3. /\ saved \o batch \in Seq(Bar)
          /\ told \cup (Len(saved) + 1)..(Len(saved) + Len(batch)) \subseteq 1..Len(saved \o batch)
          /\ persisted + Len(batch) \in 0..Len(saved \o batch)
      BY <3>1, SavedTypes
    <3> QED BY <3>2, <3>3, Zenon DEF Bar
  <2>2. breaker' \in {"Closed", "Open", "HalfOpen"} /\ failureCount' \in 0..failures'
    BY <1>2 DEF FlushSaved, RecordSuccess
  <2>3. sinceFailure' \in -1..Timeout
    BY <1>2 DEF FlushSaved, RecordSuccess
  <2>4. batch' = << >> /\ UNCHANGED <<bus, buffer, flushing>>
    BY <1>2 DEF FlushSaved
  <2>5. \A q \in {bus', buffer', batch', flushing', saved'} : q \in Seq(1..MaxBars)
    <3> HIDE DEF TypeOK
    <3>1. /\ bus \in Seq(1..MaxBars) /\ buffer \in Seq(1..MaxBars)
          /\ batch \in Seq(1..MaxBars) /\ flushing \in Seq(1..MaxBars)
      BY QueueTypes DEF Bar
    <3>2. << >> \in Seq(1..MaxBars)
      OBVIOUS
    <3> QED BY <2>1, <2>4, <3>1, <3>2, Zenon
  <2> QED BY <1>2, <2>1, <2>2, <2>3, <2>5 DEF FlushSaved
<1>3. CASE FlushFails
  <2>1. buffer \in Seq(Bar) /\ batch \in Seq(Bar) /\ ConfigBufferSize \in Nat
    BY DEF Bar
  <2>2. batch \o buffer \in Seq(Bar)
    BY <2>1, Joined
  <2>3. buffer' \in Seq(1..MaxBars)
    BY <1>3, <2>1, <2>2, CutTo DEF FlushFails, Bar
  <2>4. failureCount' \in 0..failures' /\ failures' \in 0..MaxFailures
    BY <1>3 DEF FlushFails, RecordFailure
  <2>5. breaker' \in {"Closed", "Open", "HalfOpen"} /\ sinceFailure' \in -1..Timeout
    BY <1>3 DEF FlushFails, RecordFailure
  <2> QED BY SMTT(30), <1>3, <2>3, <2>4, <2>5 DEF FlushFails
<1>4. CASE HalfOpenTick BY <1>4 DEF HalfOpenTick
<1>5. CASE Tick BY <1>5 DEF Tick
<1>6. CASE AnswerLost
  <2>1. /\ saved' \in Seq(1..MaxBars) /\ persisted' \in 0..Len(saved')
        /\ told' \subseteq 1..Len(saved')
    <3> HIDE DEF TypeOK
    <3>1. batch \in Seq(Bar) /\ flushing \in Seq(Bar)
      BY QueueTypes
    <3> QED BY <1>6, <3>1, SavedTypes DEF AnswerLost, Bar
  <2>2. failureCount' \in 0..failures' /\ failures' \in 0..MaxFailures
    BY <1>6 DEF AnswerLost
  <2> QED BY SMTT(30), <1>6, <2>1, <2>2 DEF AnswerLost
<1> QED BY <1>1, <1>2, <1>3, <1>4, <1>5, <1>6

LEMMA StepType == TypeOK /\ [Next]_vars => TypeOK'
<1> SUFFICES ASSUME TypeOK, [Next]_vars PROVE TypeOK'
  OBVIOUS
<1>1. CASE UNCHANGED vars
  BY <1>1 DEF TypeOK, Running, vars, control, queues, circuit, repository
<1>2. CASE Next
  BY <1>2, RunTypes, ShutdownTypes, IngestionTypes, DistributionTypes, PersistenceTypes
  DEF Next, DistributionStep, PersistenceStep, Tasks
<1> QED BY <1>1, <1>2

(* The state keeps its types; bars wait only in tasks that run, a batch is *)
(* full, and bars_persisted counts nothing that was not saved.             *)
THEOREM TypeCorrect == Spec => []TypeOK
BY InitType, StepType, PTL DEF Spec
-----------------------------------------------------------------------------
(* The circuit breaker *)

LEMMA StepThreshold ==
  ASSUME TypeOK, ClosedBelowThreshold, [Next]_vars
  PROVE  ClosedBelowThreshold'
<1> USE PipelineAssumption DEF ClosedBelowThreshold, TypeOK
<1>1. CASE FlushSaved
  BY <1>1 DEF FlushSaved, RecordSuccess
<1>2. CASE FlushFails
  BY <1>2 DEF FlushFails, RecordFailure
<1>3. CASE HalfOpenTick
  BY <1>3 DEF HalfOpenTick
<1>4. CASE UNCHANGED <<breaker, failureCount>>
  BY <1>4
<1>5. \/ FlushSaved \/ FlushFails \/ HalfOpenTick
      \/ UNCHANGED <<breaker, failureCount>>
  BY DEF Next, RunStep, ShutdownStep, DistributionStep, PersistenceStep, vars, circuit, queues,
     RunStarting, RunSubscribe, RunRunning, RunSpawn, RunWaited, RunReturn, Pause, Resume,
     ShutdownBegin, ShutdownSignal, ShutdownTake, ShutdownFlushed, ShutdownFlushFails,
     ShutdownTimesOut, ShutdownFinish, TaskEnds, IngestRefused, IngestBar,
     DistributionSubscribe, DistributeReceive, DistributePush, FlushTake, AnswerLost, Tick
<1> QED BY <1>1, <1>2, <1>3, <1>4, <1>5

(* However saves fail and succeed, the breaker is not closed once as many  *)
(* saves in a row have failed as open it.                                  *)
THEOREM ClosedMeansBelow == Spec => []ClosedBelowThreshold
<1>1. Init => ClosedBelowThreshold
  BY PipelineAssumption DEF Init, ClosedBelowThreshold
<1> QED BY <1>1, StepThreshold, TypeCorrect, PTL DEF Spec
-----------------------------------------------------------------------------
(* The buffer *)

LEMMA StepBuffer ==
  ASSUME TypeOK, BufferBounded, [Next]_vars
  PROVE  BufferBounded'
<1> USE PipelineAssumption DEF BufferBounded
<1>0. buffer \in Seq(Bar) /\ batch \in Seq(Bar)
  BY DEF TypeOK, Bar
<1>1. CASE DistributePush
  <2>1. held \in Bar
    BY <1>1 DEF DistributePush, TypeOK, Bar
  <2>2. CASE Len(buffer) >= BufferSize
    <3>1. Tail(buffer) \in Seq(Bar) /\ Len(Tail(buffer)) = Len(buffer) - 1
      BY <1>0, <2>2
    <3>2. buffer' = Append(Tail(buffer), held)
      BY <1>1, <2>2 DEF DistributePush
    <3>3. Len(buffer') = Len(buffer)
      BY <1>0, <2>1, <3>1, <3>2, Appended
    <3> QED BY <3>3
  <2>3. CASE ~(Len(buffer) >= BufferSize)
    <3>1. buffer' = Append(buffer, held)
      BY <1>1, <2>3 DEF DistributePush
    <3>2. Len(buffer') = Len(buffer) + 1
      BY <1>0, <2>1, <3>1, Appended
    <3> QED BY <1>0, <2>3, <3>2
  <2> QED BY <2>2, <2>3
<1>2. CASE FlushTake
  <2>1. buffer' = SubSeq(buffer, BatchSize + 1, Len(buffer)) /\ BatchSize <= Len(buffer)
    BY <1>2 DEF FlushTake
  <2>2. Len(buffer') = Len(buffer) - BatchSize
    BY <1>0, <2>1, FrontAndRest
  <2> QED BY <1>0, <2>2
<1>3. CASE FlushFails
  <2> DEFINE kept == batch \o buffer
  <2>1. kept \in Seq(Bar)
    BY <1>0, Joined
  <2>2. buffer' = IF Len(kept) > ConfigBufferSize THEN SubSeq(kept, 1, ConfigBufferSize) ELSE kept
    BY <1>3 DEF FlushFails
  <2> HIDE DEF kept
  <2>3. Len(buffer') <= ConfigBufferSize
    BY <2>1, <2>2, CutTo
  <2> QED BY <2>3
<1>4. CASE ShutdownTake
  <2>1. Len(buffer') = 0
    BY <1>4 DEF ShutdownTake
  <2> QED BY <2>1
<1>5. CASE buffer' = buffer
  BY <1>5
<1>6. \/ DistributePush \/ FlushTake \/ FlushFails \/ ShutdownTake \/ buffer' = buffer
  BY DEF Next, RunStep, ShutdownStep, DistributionStep, PersistenceStep, vars, queues, repository,
     RunStarting, RunSubscribe, RunRunning, RunSpawn, RunWaited, RunReturn, Pause, Resume,
     ShutdownBegin, ShutdownSignal, ShutdownFlushed, ShutdownFlushFails, ShutdownTimesOut,
     ShutdownFinish, TaskEnds, IngestRefused, IngestBar, DistributionSubscribe,
     DistributeReceive, FlushSaved, HalfOpenTick, AnswerLost, Tick
<1> QED BY <1>1, <1>2, <1>3, <1>4, <1>5, <1>6

(* A failed save that puts bars back and a distribution that appends keep  *)
(* to one of the two limits between them, whichever of the two is larger.  *)
THEOREM BufferKeepsItsLimits == Spec => []BufferBounded
<1>1. Init => BufferBounded
  BY PipelineAssumption DEF Init, BufferBounded
<1> QED BY <1>1, StepBuffer, TypeCorrect, PTL DEF Spec
-----------------------------------------------------------------------------
(***************************************************************************)
(* Each bar is in one place.  The places are kept apart one by one, bars   *)
(* that have not arrived are in none of them, and no queue holds a bar     *)
(* twice; the concatenation of the queues is then injective.               *)
(***************************************************************************)
Apart(A, B) == \A x \in A : x \notin B

LEMMA JoinOnce ==
  ASSUME NEW S, NEW q \in Seq(S), NEW r \in Seq(S)
  PROVE  /\ q \o r \in Seq(S)
         /\ ToSet(q \o r) = ToSet(q) \cup ToSet(r)
         /\ IsInjective(q) /\ IsInjective(r) /\ Apart(ToSet(q), ToSet(r)) => IsInjective(q \o r)
<1>1. q \o r \in Seq(S) /\ Len(q \o r) = Len(q) + Len(r)
  OBVIOUS
<1>2. \A i \in 1..Len(q) : (q \o r)[i] = q[i]
  OBVIOUS
<1>3. \A i \in 1..Len(r) : (q \o r)[Len(q) + i] = r[i]
  OBVIOUS
<1>5. DOMAIN q = 1..Len(q) /\ DOMAIN r = 1..Len(r) /\ DOMAIN (q \o r) = 1..(Len(q) + Len(r))
  BY <1>1
<1>4. \A i \in DOMAIN (q \o r) : i \in 1..Len(q) \/ \E k \in 1..Len(r) : i = Len(q) + k
  <2>1. SUFFICES ASSUME NEW i \in 1..(Len(q) + Len(r)), i > Len(q)
                 PROVE \E k \in 1..Len(r) : i = Len(q) + k
    BY <1>5
  <2>2. i - Len(q) \in 1..Len(r) /\ i = Len(q) + (i - Len(q))
    BY <2>1
  <2> QED BY <2>2
<1> DEFINE j == q \o r
<1> HIDE DEF j
<1>6. ToSet(j) = ToSet(q) \cup ToSet(r)
  <2>1. ASSUME NEW i \in DOMAIN j PROVE j[i] \in ToSet(q) \cup ToSet(r)
    <3>1. CASE i \in 1..Len(q)
      BY <3>1, <1>2, <1>5 DEF ToSet, j
    <3>2. CASE \E k \in 1..Len(r) : i = Len(q) + k
      BY <3>2, <1>3, <1>5 DEF ToSet, j
    <3> QED BY <3>1, <3>2, <2>1, <1>4 DEF j
  <2>2. ASSUME NEW i \in 1..Len(q) PROVE q[i] \in ToSet(j)
    BY <2>2, <1>2, <1>5 DEF ToSet, j
  <2>3. ASSUME NEW i \in 1..Len(r) PROVE r[i] \in ToSet(j)
    <3>1. Len(q) + i \in 1..(Len(q) + Len(r))
      BY <1>1
    <3> QED BY <3>1, <1>3, <1>5 DEF ToSet, j
  <2> QED BY <2>1, <2>2, <2>3, <1>5 DEF ToSet
<1>7. ASSUME IsInjective(q), IsInjective(r), Apart(ToSet(q), ToSet(r)) PROVE IsInjective(j)
  <2>1. \A i \in DOMAIN q, k \in DOMAIN r : q[i] # r[k]
    BY <1>7 DEF Apart, ToSet
  <2>2. SUFFICES ASSUME NEW a \in DOMAIN j, NEW b \in DOMAIN j, j[a] = j[b] PROVE a = b
    BY DEF IsInjective
  <2>3. CASE a \in 1..Len(q) /\ b \in 1..Len(q)
    BY <2>2, <2>3, <1>2, <1>5, <1>7 DEF IsInjective, j
  <2>4. CASE a \in 1..Len(q) /\ \E k \in 1..Len(r) : b = Len(q) + k
    BY <2>1, <2>2, <2>4, <1>2, <1>3, <1>5 DEF j
  <2>5. CASE b \in 1..Len(q) /\ \E k \in 1..Len(r) : a = Len(q) + k
    BY <2>1, <2>2, <2>5, <1>2, <1>3, <1>5 DEF j
  <2>6. ASSUME NEW k \in 1..Len(r), NEW l \in 1..Len(r), a = Len(q) + k, b = Len(q) + l
        PROVE a = b
    BY <2>2, <2>6, <1>3, <1>5, <1>7 DEF IsInjective, j
  <2> QED BY <2>3, <2>4, <2>5, <2>6, <1>4 DEF j
<1> QED BY <1>1, <1>6, <1>7 DEF j

LEMMA SplitOnce ==
  ASSUME NEW S, NEW q \in Seq(S), NEW n \in Nat, n <= Len(q)
  PROVE  LET front == SubSeq(q, 1, n)
             rest == SubSeq(q, n + 1, Len(q))
         IN /\ front \in Seq(S) /\ rest \in Seq(S)
            /\ ToSet(front) \subseteq ToSet(q) /\ ToSet(rest) \subseteq ToSet(q)
            /\ IsInjective(q) => /\ IsInjective(front) /\ IsInjective(rest)
                                /\ Apart(ToSet(front), ToSet(rest))
<1> DEFINE front == SubSeq(q, 1, n)
           rest == SubSeq(q, n + 1, Len(q))
<1>1. front \in Seq(S) /\ rest \in Seq(S)
  BY FrontAndRest
<1>2. DOMAIN front = 1..n /\ DOMAIN rest = 1..(Len(q) - n) /\ DOMAIN q = 1..Len(q)
  OBVIOUS
<1>3. \A i \in 1..n : front[i] = q[i]
  OBVIOUS
<1>4. \A i \in 1..(Len(q) - n) : rest[i] = q[n + i]
  OBVIOUS
<1> HIDE DEF front, rest
<1>5. ToSet(front) \subseteq ToSet(q) /\ ToSet(rest) \subseteq ToSet(q)
  <2>1. \A i \in DOMAIN rest : n + i \in DOMAIN q /\ rest[i] = q[n + i]
    BY <1>2, <1>4
  <2>2. \A i \in DOMAIN front : i \in DOMAIN q /\ front[i] = q[i]
    BY <1>2, <1>3
  <2> QED BY <2>1, <2>2 DEF ToSet
<1>6. ASSUME IsInjective(q)
      PROVE IsInjective(front) /\ IsInjective(rest) /\ Apart(ToSet(front), ToSet(rest))
  <2>1. \A i, k \in 1..Len(q) : q[i] = q[k] => i = k
    BY <1>2, <1>6 DEF IsInjective
  <2>2. IsInjective(front)
    BY <1>2, <1>3, <2>1 DEF IsInjective
  <2>3. IsInjective(rest)
    BY <1>2, <1>4, <2>1 DEF IsInjective
  <2>4. Apart(ToSet(front), ToSet(rest))
    BY <1>2, <1>3, <1>4, <2>1 DEF Apart, ToSet
  <2> QED BY <2>2, <2>3, <2>4
<1> QED BY <1>1, <1>5, <1>6 DEF front, rest

LEMMA Singleton ==
  ASSUME NEW S, NEW b \in S
  PROVE  <<b>> \in Seq(S) /\ ToSet(<<b>>) = {b} /\ IsInjective(<<b>>)
  BY DEF ToSet, IsInjective

LEMMA AppendOnce ==
  ASSUME NEW S, NEW q \in Seq(S), NEW b \in S
  PROVE  /\ Append(q, b) \in Seq(S)
         /\ ToSet(Append(q, b)) = ToSet(q) \cup {b}
         /\ IsInjective(q) /\ b \notin ToSet(q) => IsInjective(Append(q, b))
<1>1. Append(q, b) = q \o <<b>>
  OBVIOUS
<1>2. <<b>> \in Seq(S) /\ ToSet(<<b>>) = {b} /\ IsInjective(<<b>>)
  BY Singleton
<1> DEFINE r == <<b>>
<1> HIDE DEF r
<1>3. /\ q \o r \in Seq(S) /\ ToSet(q \o r) = ToSet(q) \cup ToSet(r)
      /\ IsInjective(q) /\ IsInjective(r) /\ Apart(ToSet(q), ToSet(r)) => IsInjective(q \o r)
  BY <1>2, JoinOnce DEF r
<1>4. b \notin ToSet(q) => Apart(ToSet(q), ToSet(r))
  BY <1>2 DEF Apart, r
<1> QED BY <1>1, <1>2, <1>3, <1>4 DEF r

LEMMA HeadOnce ==
  ASSUME NEW S, NEW q \in Seq(S), q # << >>
  PROVE  /\ Tail(q) \in Seq(S) /\ Head(q) \in ToSet(q) /\ ToSet(Tail(q)) \subseteq ToSet(q)
         /\ IsInjective(q) => IsInjective(Tail(q)) /\ Head(q) \notin ToSet(Tail(q))
<1> DEFINE t == Tail(q)
<1>1. t \in Seq(S) /\ DOMAIN t = 1..(Len(q) - 1) /\ DOMAIN q = 1..Len(q) /\ Len(q) >= 1
  OBVIOUS
<1>2. Head(q) = q[1] /\ \A i \in 1..(Len(q) - 1) : t[i] = q[i + 1]
  OBVIOUS
<1> HIDE DEF t
<1>3. Head(q) \in ToSet(q)
  BY <1>1, <1>2 DEF ToSet
<1>4. \A i \in DOMAIN t : i + 1 \in DOMAIN q /\ i + 1 # 1 /\ t[i] = q[i + 1]
  BY <1>1, <1>2
<1>5. ToSet(t) \subseteq ToSet(q)
  BY <1>4 DEF ToSet
<1>6. ASSUME IsInjective(q) PROVE IsInjective(t) /\ Head(q) \notin ToSet(t)
  <2>1. \A i, k \in 1..Len(q) : q[i] = q[k] => i = k
    BY <1>1, <1>6 DEF IsInjective
  <2>2. IsInjective(t)
    BY <1>1, <1>2, <2>1 DEF IsInjective
  <2>3. \A i \in DOMAIN t : t[i] # Head(q)
    BY <1>1, <1>2, <2>1
  <2> QED BY <2>2, <2>3 DEF ToSet
<1> QED BY <1>1, <1>3, <1>5, <1>6 DEF t

LEMMA NoneOnce ==
  << >> \in Seq(Bar) /\ ToSet(<< >>) = {} /\ IsInjective(<< >>)
  BY DEF ToSet, IsInjective

(* The bars of the executions that were answered, and that none of them is *)
(* executed again; and how both grow with a save.                          *)
Settled(q, T) == {q[i] : i \in T}
NeverAgain(q, T) == \A i \in T : \A j \in i + 1..Len(q) : q[j] # q[i]
Slots(q, r) == (Len(q) + 1)..(Len(q) + Len(r))

LEMMA SaveMore ==
  ASSUME NEW q \in Seq(Bar), NEW T \in SUBSET (1..Len(q)), NEW r \in Seq(Bar)
  PROVE  /\ Settled(q \o r, T) = Settled(q, T)
         /\ Settled(q \o r, T \cup Slots(q, r)) = Settled(q, T) \cup ToSet(r)
         /\ NeverAgain(q, T) /\ Apart(Settled(q, T), ToSet(r)) =>
              /\ NeverAgain(q \o r, T)
              /\ IsInjective(r) => NeverAgain(q \o r, T \cup Slots(q, r))
<1> DEFINE z == q \o r
<1>1. z \in Seq(Bar) /\ Len(z) = Len(q) + Len(r) /\ Len(q) \in Nat /\ Len(r) \in Nat
  OBVIOUS
<1>2. \A i \in 1..Len(q) : z[i] = q[i]
  OBVIOUS
<1>3. \A k \in 1..Len(r) : z[Len(q) + k] = r[k]
  OBVIOUS
<1> HIDE DEF z
<1>4. \A j \in Slots(q, r) : j - Len(q) \in 1..Len(r) /\ z[j] = r[j - Len(q)]
  <2>1. SUFFICES ASSUME NEW j \in Slots(q, r)
                 PROVE j - Len(q) \in 1..Len(r) /\ z[j] = r[j - Len(q)]
    OBVIOUS
  <2>2. j - Len(q) \in 1..Len(r) /\ Len(q) + (j - Len(q)) = j
    BY <1>1 DEF Slots
  <2> QED BY <1>3, <2>2
<1>5. \A k \in 1..Len(r) : Len(q) + k \in Slots(q, r)
  BY <1>1 DEF Slots
<1>6. DOMAIN r = 1..Len(r)
  OBVIOUS
<1>7. Settled(z, T) = Settled(q, T)
  BY <1>2 DEF Settled
<1>8. Settled(z, Slots(q, r)) = ToSet(r)
  <2>1. \A x \in Settled(z, Slots(q, r)) : x \in ToSet(r)
    BY <1>4, <1>6 DEF Settled, ToSet
  <2>2. \A x \in ToSet(r) : x \in Settled(z, Slots(q, r))
    BY <1>3, <1>5, <1>6 DEF Settled, ToSet
  <2> QED BY <2>1, <2>2
<1>9. Settled(z, T \cup Slots(q, r)) = Settled(z, T) \cup Settled(z, Slots(q, r))
  BY DEF Settled
<1>10. ASSUME NeverAgain(q, T), Apart(Settled(q, T), ToSet(r)) PROVE NeverAgain(z, T)
  <2>1. SUFFICES ASSUME NEW i \in T, NEW j \in i + 1..Len(z) PROVE z[j] # z[i]
    BY DEF NeverAgain
  <2>2. i \in 1..Len(q) /\ z[i] = q[i] /\ q[i] \in Settled(q, T)
    BY <1>2 DEF Settled
  <2>3. CASE j \in i + 1..Len(q)
    <3>1. j \in 1..Len(q)
      BY <2>2, <2>3
    <3> QED BY <1>2, <1>10, <2>2, <2>3, <3>1 DEF NeverAgain
  <2>4. CASE ~(j \in i + 1..Len(q))
    <3>1. j \in Slots(q, r)
      BY <1>1, <2>2, <2>4 DEF Slots
    <3>2. z[j] \in ToSet(r)
      BY <1>4, <1>6, <3>1 DEF ToSet
    <3> QED BY <1>10, <2>2, <3>2 DEF Apart
  <2> QED BY <2>3, <2>4
<1>11. ASSUME NeverAgain(z, T), IsInjective(r) PROVE NeverAgain(z, T \cup Slots(q, r))
  <2>1. SUFFICES ASSUME NEW i \in Slots(q, r), NEW j \in i + 1..Len(z) PROVE z[j] # z[i]
    BY <1>11 DEF NeverAgain
  <2>2. j \in Slots(q, r) /\ j - Len(q) # i - Len(q)
    BY <1>1, <2>1 DEF Slots
  <2>3. r[j - Len(q)] # r[i - Len(q)]
    BY <1>4, <1>6, <1>11, <2>2 DEF IsInjective
  <2> QED BY <1>4, <2>2, <2>3
<1> QED BY <1>7, <1>8, <1>9, <1>10, <1>11 DEF z

(* The bars whose save was answered, taken by shutdown(), being saved,     *)
(* buffered, held and on the bus, of those that have arrived.              *)
Placed(S, F, B, W, H, U, n) ==
  /\ Apart(S, F \cup B \cup W \cup H \cup U)
  /\ Apart(F, B \cup W \cup H \cup U)
  /\ Apart(B, W \cup H \cup U)
  /\ Apart(W, H \cup U)
  /\ Apart(H, U)
  /\ \A x \in S \cup F \cup B \cup W \cup H \cup U : x \in 1..n

Held == {held} \ {NoBar}
Told == Settled(saved, told)

OnceInv ==
  /\ IsInjective(flushing) /\ IsInjective(batch) /\ IsInjective(buffer) /\ IsInjective(bus)
  /\ Placed(Told, ToSet(flushing), ToSet(batch), ToSet(buffer), Held, ToSet(bus), ingested)
  /\ NeverAgain(saved, told)
  /\ \A x \in ToSet(saved) : x \in 1..ingested

LEMMA InitOnce == Init => OnceInv
<1> SUFFICES ASSUME Init PROVE OnceInv
  OBVIOUS
<1>1. Held = {} /\ Told = {} /\ NeverAgain(saved, told)
  BY DEF Init, Held, Told, Settled, NeverAgain
<1> QED BY <1>1, NoneOnce DEF Init, OnceInv, Placed, Apart

LEMMA ToldAfter ==
  ASSUME TypeOK, NEW q \in {flushing, batch}
  PROVE  /\ Settled(saved \o q, told) = Told
         /\ Settled(saved \o q, told \cup Slots(saved, q)) = Told \cup ToSet(q)
<1>1. saved \in Seq(Bar) /\ q \in Seq(Bar) /\ told \in SUBSET (1..Len(saved))
  BY DEF TypeOK, Bar
<1>2. Settled(saved \o q, told) = Settled(saved, told)
  BY <1>1, SaveMore
<1>3. Settled(saved \o q, told \cup Slots(saved, q)) = Settled(saved, told) \cup ToSet(q)
  BY SMTT(30), <1>1, SaveMore
<1> QED BY <1>2, <1>3 DEF Told

(* A save that is executed, of bars taken by shutdown() or persistence:    *)
(* answered, they are settled; unanswered, nothing else changes.           *)
LEMMA SavedOnce ==
  ASSUME TypeOK, OnceInv, NEW q \in {flushing, batch}, saved' = saved \o q
  PROVE  /\ told' = told =>
              Told' = Told /\ NeverAgain(saved', told')
         /\ told' = told \cup Slots(saved, q) =>
              Told' = Told \cup ToSet(q) /\ NeverAgain(saved', told')
         /\ \A x \in ToSet(saved') : x \in 1..ingested
<1>1. saved \in Seq(Bar) /\ q \in Seq(Bar) /\ told \in SUBSET (1..Len(saved))
  BY DEF TypeOK, Bar
<1>2. /\ IsInjective(q) /\ Apart(Told, ToSet(q)) /\ NeverAgain(saved, told)
      /\ \A x \in ToSet(saved) \cup ToSet(q) : x \in 1..ingested
  BY DEF OnceInv, Placed, Apart
<1>3. ToSet(saved') = ToSet(saved) \cup ToSet(q)
  BY <1>1, JoinOnce
<1>4. Told' = Settled(saved', told')
  BY DEF Told
<1>7. /\ Settled(saved \o q, told) = Settled(saved, told)
      /\ Settled(saved \o q, told \cup Slots(saved, q)) = Settled(saved, told) \cup ToSet(q)
      /\ NeverAgain(saved \o q, told)
      /\ NeverAgain(saved \o q, told \cup Slots(saved, q))
  BY SMTT(30), <1>1, <1>2, SaveMore DEF Told
<1>5. told' = told => Told' = Told /\ NeverAgain(saved', told')
  BY <1>1, <1>2, <1>4, <1>7 DEF Told
<1>6. told' = told \cup Slots(saved, q) =>
        Told' = Told \cup ToSet(q) /\ NeverAgain(saved', told')
  BY <1>1, <1>2, <1>4, <1>7 DEF Told
<1> QED BY <1>2, <1>3, <1>5, <1>6

LEMMA ShutdownOnce ==
  ASSUME TypeOK, OnceInv,
         ShutdownTake \/ ShutdownFlushed \/ ShutdownFlushFails \/ ShutdownTimesOut
  PROVE  OnceInv'
<1> USE NoneOnce
<1>1. CASE ShutdownTake
  <2>1. flushing = << >> /\ Told' = Told
    BY <1>1 DEF ShutdownTake, TypeOK, Told, repository
  <2> QED BY <1>1, <2>1 DEF ShutdownTake, OnceInv, Placed, Apart, Held, repository
<1>2. CASE ShutdownFlushed
  <2>1. saved' = saved \o flushing /\ told' = told \cup Slots(saved, flushing)
    BY <1>2 DEF ShutdownFlushed, SaveTold, Slots
  <2>2. /\ Told' = Told \cup ToSet(flushing) /\ NeverAgain(saved', told')
        /\ \A x \in ToSet(saved') : x \in 1..ingested
    BY <2>1, SavedOnce
  <2> QED BY <1>2, <2>2 DEF ShutdownFlushed, OnceInv, Placed, Apart, Held
<1>3. CASE saved' = saved \o flushing /\ flushing' = << >>
           /\ UNCHANGED <<told, batch, buffer, held, bus, ingested>>
  <2>1. /\ Told' = Told /\ NeverAgain(saved', told')
        /\ \A x \in ToSet(saved') : x \in 1..ingested
    BY <1>3, SavedOnce
  <2> QED BY <1>3, <2>1 DEF OnceInv, Placed, Apart, Held
<1>4. CASE flushing' = << >> /\ UNCHANGED <<saved, told, batch, buffer, held, bus, ingested>>
  BY <1>4 DEF OnceInv, Placed, Apart, Held, Told
<1> QED BY <1>1, <1>2, <1>3, <1>4 DEF ShutdownFlushFails, ShutdownTimesOut, repository

LEMMA DistributionOnce ==
  ASSUME TypeOK, OnceInv, IngestBar \/ DistributeReceive \/ DistributePush
  PROVE  OnceInv'
<1> USE NoneOnce, PipelineAssumption
<1>0. bus \in Seq(Bar) /\ buffer \in Seq(Bar) /\ ingested \in Nat /\ NoBar \notin Bar
  BY SMTT(30) DEF TypeOK, Bar
<1>00. Told' = Told /\ saved' = saved /\ (NeverAgain(saved, told) <=> NeverAgain(saved', told'))
  BY DEF IngestBar, DistributeReceive, DistributePush, repository, Told
<1>1. CASE IngestBar
  <2>1. ingested' \in Bar /\ ingested' = ingested + 1 /\ ingested' \notin ToSet(bus)
    BY <1>0, <1>1 DEF IngestBar, TypeOK, Bar, OnceInv, Placed
  <2>2. CASE bus' = bus
    BY <1>0, <1>00, <1>1, <2>1, <2>2 DEF IngestBar, OnceInv, Placed, Apart, Held
  <2>3. CASE bus' = Append(bus, ingested')
    <3>1. ToSet(bus') = ToSet(bus) \cup {ingested'} /\ IsInjective(bus')
      BY <1>0, <2>1, <2>3, AppendOnce DEF OnceInv
    <3> QED BY <1>0, <1>00, <1>1, <2>1, <3>1 DEF IngestBar, OnceInv, Placed, Apart, Held
  <2> QED BY <1>1, <2>2, <2>3 DEF IngestBar
<1>2. CASE DistributeReceive
  <2>1. /\ ToSet(bus') \subseteq ToSet(bus) /\ held' \in ToSet(bus)
        /\ held' \notin ToSet(bus') /\ IsInjective(bus') /\ Held = {}
    BY <1>0, <1>2, HeadOnce DEF DistributeReceive, OnceInv, Held
  <2>2. Held' = {held'} \/ Held' = {}
    BY DEF Held
  <2> QED BY <1>00, <1>2, <2>1, <2>2 DEF DistributeReceive, OnceInv, Placed, Apart
<1>3. CASE DistributePush
  <2>1. held \in Bar /\ Held = {held} /\ Held' = {} /\ held \notin ToSet(buffer)
    BY <1>0, <1>3 DEF DistributePush, TypeOK, Bar, Held, OnceInv, Placed, Apart
  <2> DEFINE kept == IF Len(buffer) >= BufferSize THEN Tail(buffer) ELSE buffer
  <2>2. kept \in Seq(Bar) /\ ToSet(kept) \subseteq ToSet(buffer) /\ IsInjective(kept)
    <3>1. CASE Len(buffer) >= BufferSize
      <4>1. buffer # << >>
        BY <3>1
      <4> QED BY <1>0, <3>1, <4>1, HeadOnce DEF OnceInv
    <3>2. CASE ~(Len(buffer) >= BufferSize)
      BY <1>0, <3>2 DEF OnceInv
    <3> QED BY <3>1, <3>2
  <2>3. buffer' = Append(kept, held)
    BY <1>3 DEF DistributePush
  <2> HIDE DEF kept
  <2>4. ToSet(buffer') = ToSet(kept) \cup {held} /\ IsInjective(buffer')
    BY <2>1, <2>2, <2>3, AppendOnce
  <2>5. ToSet(buffer') \subseteq ToSet(buffer) \cup Held
    BY <2>1, <2>2, <2>4
  <2> QED BY <1>00, <1>3, <2>1, <2>4, <2>5 DEF DistributePush, OnceInv, Placed, Apart
<1> QED BY <1>1, <1>2, <1>3

LEMMA PersistenceOnce ==
  ASSUME TypeOK, OnceInv, FlushTake \/ FlushSaved \/ FlushFails \/ AnswerLost
  PROVE  OnceInv'
<1> USE NoneOnce, PipelineAssumption
<1>0. batch \in Seq(Bar) /\ buffer \in Seq(Bar)
  BY DEF TypeOK, Bar
<1>00. UNCHANGED <<saved, told>> => Told' = Told
  BY DEF Told
<1>1. CASE FlushTake
  <2>1. BatchSize \in Nat /\ BatchSize <= Len(buffer) /\ batch = << >>
    BY <1>1 DEF FlushTake
  <2>2. /\ batch' = SubSeq(buffer, 1, BatchSize)
        /\ buffer' = SubSeq(buffer, BatchSize + 1, Len(buffer))
    BY <1>1 DEF FlushTake
  <2>3. /\ ToSet(batch') \subseteq ToSet(buffer) /\ ToSet(buffer') \subseteq ToSet(buffer)
        /\ IsInjective(batch') /\ IsInjective(buffer') /\ Apart(ToSet(batch'), ToSet(buffer'))
    BY <1>0, <2>1, <2>2, SplitOnce DEF OnceInv
  <2> QED BY <1>00, <1>1, <2>1, <2>3 DEF FlushTake, OnceInv, Placed, Apart, Held, repository
<1>2. CASE FlushSaved
  <2>1. saved' = saved \o batch /\ told' = told \cup Slots(saved, batch)
    BY <1>2 DEF FlushSaved, SaveTold, Slots
  <2>2. /\ Told' = Told \cup ToSet(batch) /\ NeverAgain(saved', told')
        /\ \A x \in ToSet(saved') : x \in 1..ingested
    BY <2>1, SavedOnce
  <2> QED BY <1>2, <2>2 DEF FlushSaved, OnceInv, Placed, Apart, Held
<1>4. CASE AnswerLost
  <2>1. /\ Told' = Told /\ NeverAgain(saved', told')
        /\ \A x \in ToSet(saved') : x \in 1..ingested
    BY <1>4, SavedOnce DEF AnswerLost
  <2> QED BY <1>4, <2>1 DEF AnswerLost, OnceInv, Placed, Apart, Held, queues
<1>3. CASE FlushFails
  <2> DEFINE kept == batch \o buffer
  <2>1. Apart(ToSet(batch), ToSet(buffer))
    BY DEF OnceInv, Placed, Apart
  <2>2. kept \in Seq(Bar) /\ ToSet(kept) = ToSet(batch) \cup ToSet(buffer) /\ IsInjective(kept)
    BY <1>0, <2>1, JoinOnce DEF OnceInv
  <2>3. buffer' = IF Len(kept) > ConfigBufferSize THEN SubSeq(kept, 1, ConfigBufferSize) ELSE kept
    BY <1>3 DEF FlushFails
  <2> HIDE DEF kept
  <2>4. ToSet(buffer') \subseteq ToSet(kept) /\ IsInjective(buffer')
    <3>1. CASE Len(kept) > ConfigBufferSize
      BY <2>2, <2>3, <3>1, SplitOnce
    <3>2. CASE ~(Len(kept) > ConfigBufferSize)
      BY <2>2, <2>3, <3>2
    <3> QED BY <3>1, <3>2
  <2> QED BY <1>00, <1>3, <2>2, <2>4 DEF FlushFails, OnceInv, Placed, Apart, Held, repository
<1> QED BY <1>1, <1>2, <1>3, <1>4

LEMMA StepOnce == TypeOK /\ OnceInv /\ [Next]_vars => OnceInv'
<1> SUFFICES ASSUME TypeOK, OnceInv, [Next]_vars PROVE OnceInv'
  OBVIOUS
<1>1. CASE UNCHANGED <<queues, repository, ingested>>
  BY <1>1 DEF OnceInv, Held, Told, queues, repository
<1>2. \/ ShutdownTake \/ ShutdownFlushed \/ ShutdownFlushFails \/ ShutdownTimesOut
      \/ IngestBar \/ DistributeReceive \/ DistributePush
      \/ FlushTake \/ FlushSaved \/ FlushFails \/ AnswerLost
      \/ UNCHANGED <<queues, repository, ingested>>
  BY DEF Next, RunStep, ShutdownStep, DistributionStep, PersistenceStep, vars, queues, repository,
     RunStarting, RunSubscribe, RunRunning, RunSpawn, RunWaited, RunReturn, Pause, Resume,
     ShutdownBegin, ShutdownSignal, ShutdownFinish, TaskEnds, IngestRefused,
     DistributionSubscribe, HalfOpenTick, Tick
<1> QED BY <1>1, <1>2, ShutdownOnce, DistributionOnce, PersistenceOnce

(* Places that are apart, with no bar twice in any, make a sequence that   *)
(* has no bar twice.                                                       *)
Once(q, A) == q \in Seq(Bar) /\ ToSet(q) = A /\ IsInjective(q)

LEMMA JoinPlaces ==
  ASSUME NEW q, NEW r, NEW A, NEW B, Once(q, A), Once(r, B), Apart(A, B)
  PROVE  Once(q \o r, A \cup B)
  BY JoinOnce DEF Once

LEMMA PlacesJoined == TypeOK /\ OnceInv => EachBarOnce
<1> SUFFICES ASSUME TypeOK, OnceInv PROVE EachBarOnce
  OBVIOUS
<1> DEFINE F == ToSet(flushing)
           B == ToSet(batch)
           W == ToSet(buffer)
           U == ToSet(bus)
           h == IF held = NoBar THEN << >> ELSE <<held>>
           queued == (flushing \o batch) \o Waiting
<1>1. Once(flushing, F) /\ Once(batch, B) /\ Once(buffer, W) /\ Once(bus, U)
  BY DEF TypeOK, Bar, Once, OnceInv
<1>2. Once(h, Held)
  <2>1. CASE held = NoBar
    BY <2>1, NoneOnce DEF Held, Once
  <2>2. CASE held # NoBar
    <3>1. held \in Bar
      BY <2>2 DEF TypeOK, Bar
    <3> QED BY <2>2, <3>1, Singleton DEF Held, Once
  <2> QED BY <2>1, <2>2
<1>3. /\ Apart(F, B) /\ Apart(W, Held) /\ Apart(W \cup Held, U)
      /\ Apart(F \cup B, (W \cup Held) \cup U)
      /\ Apart(Told, (F \cup B) \cup ((W \cup Held) \cup U))
  BY DEF OnceInv, Placed, Apart
<1>4. Waiting = (buffer \o h) \o bus
  BY DEF Waiting
<1> HIDE DEF F, B, W, U, h
<1>5. Once(buffer \o h, W \cup Held)
  BY <1>1, <1>2, <1>3, JoinPlaces
<1>6. Once(Waiting, (W \cup Held) \cup U)
  BY <1>1, <1>3, <1>4, <1>5, JoinPlaces
<1>7. Once(flushing \o batch, F \cup B)
  BY <1>1, <1>3, JoinPlaces
<1>8. Once(queued, (F \cup B) \cup ((W \cup Held) \cup U))
  BY <1>3, <1>6, <1>7, JoinPlaces
<1>9. IsInjective(queued) /\ Apart(Told, ToSet(queued))
  BY <1>3, <1>8 DEF Once
<1>10. \A i \in told : saved[i] \notin ToSet(queued)
  BY <1>9 DEF Told, Settled, Apart
<1>11. EachBarOnce = /\ IsInjective(queued)
                     /\ \A i \in told : /\ saved[i] \notin ToSet(queued)
                                        /\ \A j \in i + 1..Len(saved) : saved[j] # saved[i]
  BY DEF EachBarOnce
<1> HIDE DEF queued
<1> QED BY <1>9, <1>10, <1>11 DEF OnceInv, NeverAgain

(* No bar is ever in two queues or in one twice, and a bar whose save was *)
(* answered is in none and is not saved again: not even one that a failed  *)
(* save puts back while a shutdown takes the rest.                         *)
THEOREM NoBarTwice == Spec => []EachBarOnce
BY InitOnce, StepOnce, PlacesJoined, TypeCorrect, PTL DEF Spec
-----------------------------------------------------------------------------
(***************************************************************************)
(* Bars in the order of their arrival, until a shutdown takes the buffer.  *)
(***************************************************************************)
Before(A, B) == \A x \in A, y \in B : x < y

Sorted(q, A) ==
  /\ q \in Seq(Bar) /\ ToSet(q) = A
  /\ \A i, j \in 1..Len(q) : i < j => q[i] < q[j]

LEMMA JoinSorted ==
  ASSUME NEW q, NEW r, NEW A, NEW B, Sorted(q, A), Sorted(r, B), Before(A, B)
  PROVE  Sorted(q \o r, A \cup B)
<1> DEFINE z == q \o r
<1>1. /\ q \in Seq(Bar) /\ r \in Seq(Bar) /\ z \in Seq(Bar) /\ ToSet(z) = A \cup B
      /\ Len(z) = Len(q) + Len(r)
  BY JoinOnce DEF Sorted
<1>2. \A i \in 1..Len(q) : z[i] = q[i] /\ q[i] \in A
  BY <1>1 DEF Sorted, ToSet
<1>3. \A k \in 1..Len(r) : z[Len(q) + k] = r[k] /\ r[k] \in B
  BY <1>1 DEF Sorted, ToSet
<1> HIDE DEF z
<1>4. ASSUME NEW i \in 1..Len(z), NEW j \in 1..Len(z), i < j
      PROVE z[i] < z[j]
  <2>1. CASE j <= Len(q)
    BY <1>1, <1>2, <1>4, <2>1 DEF Sorted
  <2>2. CASE i <= Len(q) /\ j > Len(q)
    <3>1. j - Len(q) \in 1..Len(r) /\ j = Len(q) + (j - Len(q))
      BY <1>1, <2>2
    <3>2. z[j] = r[j - Len(q)] /\ r[j - Len(q)] \in B
      BY <1>3, <3>1
    <3>3. i \in 1..Len(q)
      BY <1>1, <2>2
    <3>4. z[i] = q[i] /\ q[i] \in A
      BY <1>2, <3>3
    <3> QED BY <3>2, <3>4 DEF Before
  <2>3. CASE i > Len(q)
    <3>1. /\ i - Len(q) \in 1..Len(r) /\ i = Len(q) + (i - Len(q))
          /\ j - Len(q) \in 1..Len(r) /\ j = Len(q) + (j - Len(q))
      BY <1>1, <1>4, <2>3
    <3>2. z[i] = r[i - Len(q)] /\ z[j] = r[j - Len(q)]
      BY <1>3, <3>1
    <3>3. i - Len(q) < j - Len(q)
      <4>1. i \in Nat /\ j \in Nat /\ Len(q) \in Nat
        BY <1>1
      <4> QED BY <1>4, <4>1
    <3>4. \A k, l \in 1..Len(r) : k < l => r[k] < r[l]
      BY DEF Sorted
    <3>5. r[i - Len(q)] < r[j - Len(q)]
      BY <3>1, <3>3, <3>4
    <3> QED BY <3>2, <3>5
  <2> QED BY <1>1, <2>1, <2>2, <2>3
<1> QED BY <1>1, <1>4 DEF Sorted, z

LEMMA SplitSorted ==
  ASSUME NEW q, NEW A, Sorted(q, A), NEW n \in Nat, n <= Len(q)
  PROVE  LET front == SubSeq(q, 1, n)
             rest == SubSeq(q, n + 1, Len(q))
         IN /\ Sorted(front, ToSet(front)) /\ Sorted(rest, ToSet(rest))
            /\ ToSet(front) \subseteq A /\ ToSet(rest) \subseteq A
            /\ Before(ToSet(front), ToSet(rest))
<1> DEFINE front == SubSeq(q, 1, n)
           rest == SubSeq(q, n + 1, Len(q))
<1>1. /\ q \in Seq(Bar) /\ front \in Seq(Bar) /\ rest \in Seq(Bar)
      /\ ToSet(front) \subseteq A /\ ToSet(rest) \subseteq A
  BY SplitOnce DEF Sorted
<1>2. DOMAIN front = 1..n /\ DOMAIN rest = 1..(Len(q) - n)
      /\ Len(front) = n /\ Len(rest) = Len(q) - n
  BY <1>1
<1>3. \A i \in 1..n : front[i] = q[i]
  BY <1>1, PartElements
<1>4. \A i \in 1..(Len(q) - n) : rest[i] = q[n + i] /\ n + i \in 1..Len(q)
  BY <1>1, PartElements
<1> HIDE DEF front, rest
<1>5. \A i, j \in 1..Len(q) : i < j => q[i] < q[j]
  BY DEF Sorted
<1>6. Sorted(front, ToSet(front))
  BY <1>1, <1>2, <1>3, <1>5 DEF Sorted
<1>7. Sorted(rest, ToSet(rest))
  <2>1. \A i \in 1..(Len(q) - n) : i \in Nat /\ n + i \in 1..Len(q) /\ rest[i] = q[n + i]
    BY <1>4
  <2>2. \A i, j \in 1..(Len(q) - n) : i < j => n + i < n + j
    BY <2>1
  <2>3. \A i, j \in 1..(Len(q) - n) : i < j => rest[i] < rest[j]
    BY <2>1, <2>2, <1>5
  <2> QED BY <1>1, <1>2, <2>3 DEF Sorted
<1>8. ASSUME NEW i \in 1..n, NEW j \in 1..(Len(q) - n) PROVE front[i] < rest[j]
  <2>1. i \in 1..Len(q) /\ n + j \in 1..Len(q) /\ i < n + j
    BY <1>1, <1>4
  <2>2. q[i] < q[n + j]
    BY <1>5, <2>1
  <2>3. front[i] = q[i] /\ rest[j] = q[n + j]
    BY <1>3, <1>4
  <2> QED BY <2>2, <2>3
<1>9. Before(ToSet(front), ToSet(rest))
  <2>1. \A i \in DOMAIN front, j \in DOMAIN rest : front[i] < rest[j]
    BY <1>2, <1>8
  <2> QED BY <2>1 DEF Before, ToSet
<1> QED BY <1>1, <1>6, <1>7, <1>9 DEF front, rest

LEMMA SingletonSorted ==
  ASSUME NEW b \in Bar PROVE Sorted(<<b>>, {b})
<1>1. Len(<<b>>) = 1
  OBVIOUS
<1>2. \A i, j \in 1..Len(<<b>>) : ~(i < j)
  BY <1>1
<1> QED BY <1>2, Singleton DEF Sorted

LEMMA AppendSorted ==
  ASSUME NEW q, NEW A, Sorted(q, A), NEW b \in Bar, Before(A, {b})
  PROVE  Sorted(Append(q, b), A \cup {b})
<1>1. Append(q, b) = q \o <<b>>
  BY DEF Sorted
<1>2. Sorted(<<b>>, {b})
  BY SingletonSorted
<1>3. Sorted(q \o <<b>>, A \cup {b})
  BY <1>2, JoinSorted
<1> QED BY <1>1, <1>3

LEMMA HeadSorted ==
  ASSUME NEW q, NEW A, Sorted(q, A), q # << >>
  PROVE  /\ Sorted(Tail(q), ToSet(Tail(q))) /\ ToSet(Tail(q)) \subseteq A
         /\ Head(q) \in A /\ Before({Head(q)}, ToSet(Tail(q)))
<1> DEFINE t == Tail(q)
<1>1. /\ q \in Seq(Bar) /\ t \in Seq(Bar) /\ Len(t) = Len(q) - 1 /\ DOMAIN t = 1..(Len(q) - 1)
      /\ Len(q) >= 1
  BY DEF Sorted
<1>2. Head(q) = q[1] /\ \A i \in 1..(Len(q) - 1) : t[i] = q[i + 1]
  BY <1>1
<1>3. ToSet(t) \subseteq A /\ Head(q) \in A
  BY <1>1, HeadOnce DEF Sorted
<1> HIDE DEF t
<1>4. \A i, j \in 1..Len(q) : i < j => q[i] < q[j]
  BY DEF Sorted
<1>5. Sorted(t, ToSet(t))
  BY <1>1, <1>2, <1>4 DEF Sorted
<1>6. \A i \in DOMAIN t : Head(q) < t[i]
  BY <1>1, <1>2, <1>4
<1>7. Before({Head(q)}, ToSet(t))
  BY <1>6 DEF Before, ToSet
<1> QED BY <1>3, <1>5, <1>7 DEF t

Untaken == stopper \in {"idle", "signal", "take"}

InOrder(S, B, W, H, U) ==
  /\ Before(S, B \cup W \cup H \cup U)
  /\ Before(B, W \cup H \cup U)
  /\ Before(W, H \cup U)
  /\ Before(H, U)

(* What was saved is older than what was not; and of two saves the older   *)
(* bar's comes first, unless that bar had been saved before both.          *)
Behind(A, B) == \A b \in B : b \in A \/ \A x \in A : x < b

FirstsInOrder(q) ==
  \A i, j \in 1..Len(q) : i < j => q[i] < q[j] \/ \E k \in 1..i : q[k] = q[j]

Queued == ToSet(batch) \cup ToSet(buffer) \cup Held \cup ToSet(bus)

ArrivalInv ==
  Untaken =>
    /\ Sorted(batch, ToSet(batch)) /\ Sorted(buffer, ToSet(buffer)) /\ Sorted(bus, ToSet(bus))
    /\ InOrder(Told, ToSet(batch), ToSet(buffer), Held, ToSet(bus))
    /\ Behind(ToSet(saved), Queued)
    /\ FirstsInOrder(saved)

LEMMA NoneSorted == Sorted(<< >>, {})
  BY NoneOnce DEF Sorted

LEMMA InitArrival == Init => ArrivalInv
<1> SUFFICES ASSUME Init PROVE ArrivalInv
  OBVIOUS
<1>1. Held = {} /\ Told = {}
  BY DEF Init, Held, Told, Settled
<1>2. Queued = {} /\ FirstsInOrder(saved)
  BY <1>1, NoneOnce DEF Init, Queued, FirstsInOrder
<1> QED BY <1>1, <1>2, NoneSorted, NoneOnce DEF Init, ArrivalInv, InOrder, Before, Behind

(* Another save of bars in order, that are behind what was saved.          *)
LEMMA SaveInOrder ==
  ASSUME NEW q \in Seq(Bar), FirstsInOrder(q), NEW r, NEW A, Sorted(r, A), Behind(ToSet(q), A)
  PROVE  FirstsInOrder(q \o r)
<1> DEFINE z == q \o r
<1>1. r \in Seq(Bar) /\ Len(z) = Len(q) + Len(r) /\ Len(q) \in Nat /\ Len(r) \in Nat
  BY DEF Sorted
<1>2. \A i \in 1..Len(q) : z[i] = q[i] /\ q[i] \in ToSet(q)
  BY <1>1 DEF ToSet
<1>3. \A k \in 1..Len(r) : z[Len(q) + k] = r[k] /\ r[k] \in A
  BY <1>1 DEF Sorted, ToSet
<1>4. \A x \in ToSet(q) : \E k \in 1..Len(q) : q[k] = x
  BY DEF ToSet
<1> HIDE DEF z
<1>5. SUFFICES ASSUME NEW i \in 1..Len(z), NEW j \in 1..Len(z), i < j
               PROVE z[i] < z[j] \/ \E k \in 1..i : z[k] = z[j]
  BY DEF FirstsInOrder, z
<1>6. CASE j <= Len(q)
  <2>1. i \in 1..Len(q) /\ j \in 1..Len(q) /\ \A k \in 1..i : k \in 1..Len(q)
    BY <1>1, <1>5, <1>6
  <2> QED BY <1>2, <1>5, <2>1 DEF FirstsInOrder
<1>7. CASE j > Len(q)
  <2> DEFINE l == j - Len(q)
  <2>1. l \in 1..Len(r) /\ Len(q) + l = j
    BY <1>1, <1>7
  <2>2. z[j] = r[l] /\ r[l] \in A
    BY <1>3, <2>1
  <2>3. CASE i > Len(q)
    <3>1. i - Len(q) \in 1..Len(r) /\ Len(q) + (i - Len(q)) = i /\ i - Len(q) < l
      BY <1>1, <1>5, <2>1, <2>3
    <3>2. z[i] = r[i - Len(q)]
      BY <1>3, <3>1
    <3> QED BY <2>1, <2>2, <3>1, <3>2 DEF Sorted
  <2>4. CASE i <= Len(q)
    <3>1. i \in 1..Len(q) /\ z[i] = q[i] /\ q[i] \in ToSet(q) /\ \A k \in 1..i : k \in 1..Len(q)
      BY <1>1, <1>2, <2>4
    <3>2. CASE \A x \in ToSet(q) : x < z[j]
      BY <3>1, <3>2
    <3>3. CASE z[j] \in ToSet(q)
      <4>1. PICK k \in 1..Len(q) : q[k] = z[j]
        BY <1>4, <3>3
      <4>2. CASE k <= i
        <5>1. k \in 1..i
          BY <4>2
        <5> QED BY <1>2, <4>1, <5>1
      <4>3. CASE i < k
        BY <1>2, <3>1, <4>1, <4>3 DEF FirstsInOrder
      <4> QED BY <1>1, <3>1, <4>2, <4>3
    <3> QED BY <2>2, <3>2, <3>3 DEF Behind
  <2> QED BY <1>1, <2>3, <2>4
<1> QED BY <1>1, <1>6, <1>7

LEMMA DistributionArrival ==
  ASSUME TypeOK, OnceInv, ArrivalInv, IngestBar \/ DistributeReceive \/ DistributePush
  PROVE  ArrivalInv'
<1> USE PipelineAssumption, NoneOnce, NoneSorted
<1>0. stopper' = stopper /\ ingested \in Nat /\ NoBar \notin Bar
  BY DEF IngestBar, DistributeReceive, DistributePush, control, TypeOK, Bar
<1>00. Told' = Told /\ saved' = saved /\ batch' = batch
  BY DEF IngestBar, DistributeReceive, DistributePush, repository, Told
<1> SUFFICES ASSUME Untaken, Untaken' PROVE ArrivalInv'
  BY <1>0 DEF ArrivalInv, Untaken
<1>1. CASE IngestBar
  <2>1. ingested' \in Bar /\ ingested' = ingested + 1
    BY <1>0, <1>1 DEF IngestBar, TypeOK, Bar
  <2>2. CASE bus' = bus
    BY <1>0, <1>00, <1>1, <2>1, <2>2 DEF IngestBar, ArrivalInv, InOrder, Held, Queued
  <2>3. CASE bus' = Append(bus, ingested')
    <3>1. /\ Before(Told \cup ToSet(batch) \cup ToSet(buffer) \cup Held \cup ToSet(bus),
                    {ingested'})
          /\ Before(ToSet(saved), {ingested'})
      BY <1>0, <2>1 DEF OnceInv, Placed, Before
    <3>2. Before(ToSet(bus), {ingested'})
      BY <3>1 DEF Before
    <3>3. Sorted(bus', ToSet(bus) \cup {ingested'})
      BY <2>1, <2>3, <3>2, AppendSorted DEF ArrivalInv
    <3>4. Sorted(bus', ToSet(bus')) /\ ToSet(bus') = ToSet(bus) \cup {ingested'}
      BY <3>3 DEF Sorted
    <3>5. InOrder(Told, ToSet(batch), ToSet(buffer), Held, ToSet(bus'))
      BY <3>1, <3>4 DEF ArrivalInv, InOrder, Before
    <3>6. Queued' \subseteq Queued \cup {ingested'}
      BY <1>1, <3>4 DEF IngestBar, Queued, Held
    <3>7. Behind(ToSet(saved), Queued')
      BY <3>1, <3>6 DEF ArrivalInv, Behind, Before
    <3> QED BY <1>00, <1>1, <3>4, <3>5, <3>7 DEF IngestBar, ArrivalInv, Held
  <2> QED BY <1>1, <2>2, <2>3 DEF IngestBar
<1>2. CASE DistributeReceive
  <2>1. /\ Sorted(bus', ToSet(bus')) /\ ToSet(bus') \subseteq ToSet(bus)
        /\ held' \in ToSet(bus) /\ Before({held'}, ToSet(bus')) /\ Held = {}
    BY <1>2, HeadSorted DEF DistributeReceive, ArrivalInv, Held
  <2>2. Held' = {held'} \/ Held' = {}
    BY DEF Held
  <2>3. InOrder(Told, ToSet(batch), ToSet(buffer), Held', ToSet(bus'))
    BY <2>1, <2>2 DEF ArrivalInv, InOrder, Before
  <2>4. Queued' \subseteq Queued
    BY <1>2, <2>1, <2>2 DEF DistributeReceive, Queued
  <2>5. Behind(ToSet(saved), Queued')
    BY <2>4 DEF ArrivalInv, Behind
  <2> QED BY <1>00, <1>2, <2>1, <2>3, <2>5 DEF DistributeReceive, ArrivalInv
<1>3. CASE DistributePush
  <2>1. held \in Bar /\ Held = {held} /\ Held' = {}
    BY <1>0, <1>3 DEF DistributePush, TypeOK, Bar, Held
  <2> DEFINE kept == IF Len(buffer) >= BufferSize THEN Tail(buffer) ELSE buffer
  <2>2. Sorted(kept, ToSet(kept)) /\ ToSet(kept) \subseteq ToSet(buffer)
    <3>1. CASE Len(buffer) >= BufferSize
      <4>1. buffer # << >>
        BY <3>1
      <4> QED BY <3>1, <4>1, HeadSorted DEF ArrivalInv
    <3>2. CASE ~(Len(buffer) >= BufferSize)
      BY <3>2 DEF ArrivalInv
    <3> QED BY <3>1, <3>2
  <2>3. buffer' = Append(kept, held)
    BY <1>3 DEF DistributePush
  <2> HIDE DEF kept
  <2>4. Before(ToSet(kept), {held})
    BY <2>1, <2>2 DEF ArrivalInv, InOrder, Before
  <2>5. Sorted(buffer', ToSet(kept) \cup {held})
    BY <2>1, <2>2, <2>3, <2>4, AppendSorted
  <2>6. Sorted(buffer', ToSet(buffer')) /\ ToSet(buffer') \subseteq ToSet(buffer) \cup Held
    BY <2>1, <2>2, <2>5 DEF Sorted
  <2>7. InOrder(Told, ToSet(batch), ToSet(buffer'), {}, ToSet(bus))
    BY <2>1, <2>6 DEF ArrivalInv, InOrder, Before
  <2>8. Queued' \subseteq Queued
    BY <1>3, <2>1, <2>6 DEF DistributePush, Queued
  <2>9. Behind(ToSet(saved), Queued')
    BY <2>8 DEF ArrivalInv, Behind
  <2> QED BY <1>00, <1>3, <2>1, <2>6, <2>7, <2>9 DEF DistributePush, ArrivalInv
<1> QED BY <1>1, <1>2, <1>3

(* A save of the batch, answered or not, while the others wait.            *)
LEMMA SavedArrival ==
  ASSUME TypeOK, ArrivalInv, Untaken, saved' = saved \o batch
  PROVE  /\ Behind(ToSet(saved'), Queued)
         /\ FirstsInOrder(saved')
<1>1. saved \in Seq(Bar) /\ batch \in Seq(Bar)
  BY DEF TypeOK, Bar
<1>2. ToSet(saved') = ToSet(saved) \cup ToSet(batch)
  BY <1>1, JoinOnce
<1>3. Behind(ToSet(saved), ToSet(batch))
  BY DEF ArrivalInv, Behind, Queued
<1>4. FirstsInOrder(saved')
  BY <1>1, <1>3, SaveInOrder DEF ArrivalInv
<1>5. Before(ToSet(batch), Queued \ ToSet(batch))
  BY DEF ArrivalInv, InOrder, Before, Queued
<1>6. Behind(ToSet(saved'), Queued)
  BY <1>2, <1>5 DEF ArrivalInv, Behind, Before
<1> QED BY <1>4, <1>6

LEMMA PersistenceArrival ==
  ASSUME TypeOK, ArrivalInv, FlushTake \/ FlushSaved \/ FlushFails \/ AnswerLost
  PROVE  ArrivalInv'
<1> USE PipelineAssumption, NoneOnce, NoneSorted
<1>0. stopper' = stopper
  BY DEF FlushTake, FlushSaved, FlushFails, AnswerLost, control
<1>00. UNCHANGED <<saved, told>> => Told' = Told
  BY DEF Told
<1> SUFFICES ASSUME Untaken, Untaken' PROVE ArrivalInv'
  BY <1>0 DEF ArrivalInv, Untaken
<1>1. CASE FlushTake
  <2>1. BatchSize \in Nat /\ BatchSize <= Len(buffer) /\ batch = << >>
    BY <1>1 DEF FlushTake
  <2>2. /\ batch' = SubSeq(buffer, 1, BatchSize)
        /\ buffer' = SubSeq(buffer, BatchSize + 1, Len(buffer))
    BY <1>1 DEF FlushTake
  <2>3. /\ Sorted(batch', ToSet(batch')) /\ Sorted(buffer', ToSet(buffer'))
        /\ ToSet(batch') \subseteq ToSet(buffer) /\ ToSet(buffer') \subseteq ToSet(buffer)
        /\ Before(ToSet(batch'), ToSet(buffer'))
    BY <2>1, <2>2, SplitSorted DEF ArrivalInv
  <2>4. InOrder(Told, ToSet(batch'), ToSet(buffer'), Held, ToSet(bus))
    BY <2>3 DEF ArrivalInv, InOrder, Before
  <2>5. Queued' \subseteq Queued
    BY <1>1, <2>3 DEF FlushTake, Queued, Held
  <2>6. Behind(ToSet(saved), Queued')
    BY <2>5 DEF ArrivalInv, Behind
  <2> QED BY <1>00, <1>1, <2>3, <2>4, <2>6 DEF FlushTake, ArrivalInv, Held, repository
<1>2. CASE FlushSaved
  <2>1. saved' = saved \o batch /\ told' = told \cup Slots(saved, batch)
    BY <1>2 DEF FlushSaved, SaveTold, Slots
  <2>2. saved \in Seq(Bar) /\ batch \in Seq(Bar) /\ told \in SUBSET (1..Len(saved))
    BY DEF TypeOK, Bar
  <2>3. Told' = Told \cup ToSet(batch)
    <3>1. Settled(saved \o batch, told \cup Slots(saved, batch)) = Told \cup ToSet(batch)
      BY ToldAfter
    <3> QED BY <2>1, <3>1 DEF Told
  <2>4. InOrder(Told', {}, ToSet(buffer), Held, ToSet(bus))
    BY <2>3 DEF ArrivalInv, InOrder, Before
  <2>5. Queued' \subseteq Queued
    BY <1>2 DEF FlushSaved, Queued, Held
  <2>6. Behind(ToSet(saved'), Queued') /\ FirstsInOrder(saved')
    BY <2>1, <2>5, SavedArrival DEF Behind
  <2> QED BY <1>2, <2>4, <2>6 DEF FlushSaved, ArrivalInv, Held
<1>3. CASE FlushFails
  <2> DEFINE kept == batch \o buffer
             all == ToSet(batch) \cup ToSet(buffer)
  <2>1. Before(ToSet(batch), ToSet(buffer))
    BY DEF ArrivalInv, InOrder, Before
  <2>2. Sorted(kept, all)
    BY <2>1, JoinSorted DEF ArrivalInv
  <2>3. buffer' = IF Len(kept) > ConfigBufferSize THEN SubSeq(kept, 1, ConfigBufferSize) ELSE kept
    BY <1>3 DEF FlushFails
  <2> HIDE DEF kept, all
  <2>4. Sorted(buffer', ToSet(buffer')) /\ ToSet(buffer') \subseteq all
    <3>1. CASE Len(kept) > ConfigBufferSize
      BY <2>2, <2>3, <3>1, SplitSorted
    <3>2. CASE ~(Len(kept) > ConfigBufferSize)
      BY <2>2, <2>3, <3>2 DEF Sorted
    <3> QED BY <3>1, <3>2
  <2>5. InOrder(Told, {}, ToSet(buffer'), Held, ToSet(bus))
    BY <2>4 DEF ArrivalInv, InOrder, Before, all
  <2>6. Queued' \subseteq Queued
    BY <1>3, <2>4 DEF FlushFails, Queued, Held, all
  <2>7. Behind(ToSet(saved), Queued')
    BY <2>6 DEF ArrivalInv, Behind
  <2> QED BY <1>00, <1>3, <2>4, <2>5, <2>7 DEF FlushFails, ArrivalInv, Held, repository
<1>4. CASE AnswerLost
  <2>1. saved' = saved \o batch /\ UNCHANGED <<told, batch, buffer, held, bus>>
    BY <1>4 DEF AnswerLost, Untaken, queues
  <2>2. saved \in Seq(Bar) /\ batch \in Seq(Bar) /\ told \in SUBSET (1..Len(saved))
    BY DEF TypeOK, Bar
  <2>3. Told' = Told
    <3>1. Settled(saved \o batch, told) = Told
      BY ToldAfter
    <3> QED BY <2>1, <3>1 DEF Told
  <2>4. Queued' = Queued
    BY <2>1 DEF Queued, Held
  <2>5. Behind(ToSet(saved'), Queued') /\ FirstsInOrder(saved')
    BY <2>1, <2>4, SavedArrival
  <2> QED BY <2>1, <2>3, <2>5 DEF ArrivalInv, Held
<1> QED BY <1>1, <1>2, <1>3, <1>4

LEMMA StepArrival == TypeOK /\ OnceInv /\ ArrivalInv /\ [Next]_vars => ArrivalInv'
<1> SUFFICES ASSUME TypeOK, OnceInv, ArrivalInv, [Next]_vars PROVE ArrivalInv'
  OBVIOUS
<1>1. CASE UNCHANGED <<queues, repository>> /\ (Untaken' => Untaken)
  BY <1>1 DEF ArrivalInv, Held, Told, Queued, queues, repository
<1>2. CASE ~Untaken'
  BY <1>2 DEF ArrivalInv
<1>3. \/ IngestBar \/ DistributeReceive \/ DistributePush
      \/ FlushTake \/ FlushSaved \/ FlushFails \/ AnswerLost
      \/ UNCHANGED <<queues, repository>> /\ (Untaken' => Untaken)
      \/ ~Untaken'
  BY DEF Next, RunStep, ShutdownStep, DistributionStep, PersistenceStep, vars, queues, control, repository,
     RunStarting, RunSubscribe, RunRunning, RunSpawn, RunWaited, RunReturn, Pause, Resume,
     ShutdownBegin, ShutdownSignal, ShutdownTake, ShutdownFlushed, ShutdownFlushFails,
     ShutdownTimesOut, ShutdownFinish, TaskEnds, IngestRefused, DistributionSubscribe,
     HalfOpenTick, Tick, Untaken
<1> QED BY <1>1, <1>2, <1>3, DistributionArrival, PersistenceArrival

LEMMA QueuedSorted ==
  TypeOK /\ ArrivalInv /\ Untaken => Sorted(batch \o Waiting, Queued)
<1> SUFFICES ASSUME TypeOK, ArrivalInv, Untaken PROVE Sorted(batch \o Waiting, Queued)
  OBVIOUS
<1> DEFINE B == ToSet(batch)
           W == ToSet(buffer)
           U == ToSet(bus)
           h == IF held = NoBar THEN << >> ELSE <<held>>
<1>1. Sorted(batch, B) /\ Sorted(buffer, W) /\ Sorted(bus, U)
  BY DEF ArrivalInv
<1>2. Sorted(h, Held)
  <2>1. CASE held = NoBar
    BY <2>1, NoneSorted DEF Held
  <2>2. CASE held # NoBar
    <3>1. held \in Bar
      BY <2>2 DEF TypeOK, Bar
    <3> QED BY <2>2, <3>1, SingletonSorted DEF Held
  <2> QED BY <2>1, <2>2
<1>3. /\ Before(W, Held) /\ Before(W \cup Held, U) /\ Before(B, (W \cup Held) \cup U)
  BY DEF ArrivalInv, InOrder, Before
<1>4. Waiting = (buffer \o h) \o bus
  BY DEF Waiting
<1>5. Queued = B \cup ((W \cup Held) \cup U)
  BY DEF Queued
<1> HIDE DEF B, W, U, h
<1>6. Sorted(buffer \o h, W \cup Held)
  BY <1>1, <1>2, <1>3, JoinSorted
<1>7. Sorted(Waiting, (W \cup Held) \cup U)
  BY <1>1, <1>3, <1>4, <1>6, JoinSorted
<1> QED BY <1>1, <1>3, <1>5, <1>7, JoinSorted

LEMMA PlacesSorted == TypeOK /\ ArrivalInv => ArrivalOrder
<1> SUFFICES ASSUME TypeOK, ArrivalInv, Untaken PROVE ArrivalOrder
  BY DEF ArrivalOrder, Untaken
<1> DEFINE queued == batch \o Waiting
           SavedBefore(b, n) == \E k \in 1..n : saved[k] = b
<1>1. Sorted(queued, Queued)
  BY QueuedSorted
<1>2. saved \in Seq(Bar) /\ told \in SUBSET (1..Len(saved))
  BY DEF TypeOK, Bar
<1> HIDE DEF queued
<1>3. ASSUME NEW i \in 1..(Len(queued) - 1) PROVE queued[i] < queued[i + 1]
  <2>1. i \in 1..Len(queued) /\ i + 1 \in 1..Len(queued) /\ i < i + 1
    BY <1>1, <1>3 DEF Sorted
  <2> QED BY <1>1, <2>1 DEF Sorted
<1>4. ASSUME NEW i \in 1..Len(saved), NEW b \in ToSet(queued)
      PROVE saved[i] < b \/ (i \notin told /\ SavedBefore(b, Len(saved)))
  <2>1. b \in Queued /\ ToSet(queued) = Queued
    BY <1>1 DEF Sorted
  <2>2. CASE i \in told
    <3>1. saved[i] \in Told
      BY <2>2 DEF Told, Settled
    <3>2. Before(Told, Queued)
      BY DEF ArrivalInv, InOrder, Before, Queued
    <3> QED BY <2>1, <3>1, <3>2 DEF Before
  <2>3. CASE i \notin told
    <3>1. saved[i] \in ToSet(saved)
      BY <1>2 DEF ToSet
    <3>2. b \in ToSet(saved) => SavedBefore(b, Len(saved))
      BY <1>2 DEF ToSet
    <3>3. b \in ToSet(saved) \/ \A x \in ToSet(saved) : x < b
      BY <2>1 DEF ArrivalInv, Behind
    <3> QED BY <2>3, <3>1, <3>2, <3>3
  <2> QED BY <2>2, <2>3
<1>5. \A i, j \in 1..Len(saved) : i < j => saved[i] < saved[j] \/ SavedBefore(saved[j], i)
  BY DEF ArrivalInv, FirstsInOrder
<1> QED BY <1>3, <1>4, <1>5 DEF ArrivalOrder, queued

(* Failed saves, lost answers, trimming and drops from a full buffer leave *)
(* the bars in the order of their arrival, and save them in that order but *)
(* for those that are saved again.                                         *)
THEOREM BarsKeepTheirOrder == Spec => []ArrivalOrder
BY InitOnce, StepOnce, InitArrival, StepArrival, PlacesSorted, TypeCorrect, PTL DEF Spec
-----------------------------------------------------------------------------
(***************************************************************************)
(* What a bar can be lost to.  A step loses it when it was in one of the   *)
(* places and is in none of them afterwards.                               *)
(***************************************************************************)
Places ==
  ToSet(saved) \cup ToSet(flushing) \cup ToSet(batch) \cup ToSet(buffer) \cup Held \cup ToSet(bus)

Holds(q, A) == q \in Seq(Bar) /\ ToSet(q) = A

LEMMA JoinHeld ==
  ASSUME NEW q, NEW r, NEW A, NEW B, Holds(q, A), Holds(r, B)
  PROVE  Holds(q \o r, A \cup B)
  BY JoinOnce DEF Holds

LEMMA BarsAreInPlaces == TypeOK => Bars = Places
<1> SUFFICES ASSUME TypeOK PROVE Bars = Places
  OBVIOUS
<1> DEFINE h == IF held = NoBar THEN << >> ELSE <<held>>
           S == ToSet(saved)
           F == ToSet(flushing)
           B == ToSet(batch)
           W == ToSet(buffer)
           U == ToSet(bus)
<1>1. Holds(saved, S) /\ Holds(flushing, F) /\ Holds(batch, B) /\ Holds(buffer, W) /\ Holds(bus, U)
  BY DEF TypeOK, Bar, Holds
<1>2. Holds(h, Held)
  <2>1. CASE held = NoBar
    BY <2>1, NoneOnce DEF Held, Holds
  <2>2. CASE held # NoBar
    <3>1. held \in Bar
      BY <2>2 DEF TypeOK, Bar
    <3> QED BY <2>2, <3>1, Singleton DEF Held, Holds
  <2> QED BY <2>1, <2>2
<1>3. Waiting = (buffer \o h) \o bus
  BY DEF Waiting
<1> HIDE DEF S, F, B, W, U, h
<1>4. Holds(buffer \o h, W \cup Held)
  BY <1>1, <1>2, JoinHeld
<1>5. Holds(Waiting, (W \cup Held) \cup U)
  BY <1>1, <1>3, <1>4, JoinHeld
<1>6. Holds(saved \o flushing, S \cup F)
  BY <1>1, JoinHeld
<1>7. Holds((saved \o flushing) \o batch, (S \cup F) \cup B)
  BY <1>1, <1>6, JoinHeld
<1>8. Holds(((saved \o flushing) \o batch) \o Waiting,
            ((S \cup F) \cup B) \cup ((W \cup Held) \cup U))
  BY <1>5, <1>7, JoinHeld
<1>9. Bars = ((S \cup F) \cup B) \cup ((W \cup Held) \cup U)
  BY <1>8 DEF Bars, Holds
<1> QED BY <1>9 DEF Places, S, F, B, W, U

LEMMA HeadOrTail ==
  ASSUME NEW S, NEW q \in Seq(S), q # << >>
  PROVE  ToSet(q) \subseteq {Head(q)} \cup ToSet(Tail(q))
<1> SUFFICES ASSUME NEW i \in DOMAIN q PROVE q[i] \in {Head(q)} \cup ToSet(Tail(q))
  BY DEF ToSet
<1>1. CASE i = 1
  BY <1>1
<1>2. CASE i # 1
  <2>1. i - 1 \in 1 .. Len(Tail(q)) /\ Tail(q)[i - 1] = q[i] /\ Tail(q) \in Seq(S)
    BY <1>2
  <2>2. i - 1 \in DOMAIN Tail(q)
    BY <2>1
  <2> QED BY <2>1, <2>2 DEF ToSet
<1> QED BY <1>1, <1>2

LEMMA FrontOrRest ==
  ASSUME NEW S, NEW q \in Seq(S), NEW n \in Nat, n <= Len(q)
  PROVE  ToSet(q) \subseteq ToSet(SubSeq(q, 1, n)) \cup ToSet(SubSeq(q, n + 1, Len(q)))
<1> DEFINE front == SubSeq(q, 1, n)
           rest == SubSeq(q, n + 1, Len(q))
<1>1. /\ front \in Seq(S) /\ Len(front) = n /\ rest \in Seq(S) /\ Len(rest) = Len(q) - n
      /\ \A j \in 1 .. n : front[j] = q[j]
      /\ \A j \in 1 .. (Len(q) - n) : rest[j] = q[n + j]
  BY FrontAndRest, PartElements
<1> HIDE DEF front, rest
<1> SUFFICES ASSUME NEW i \in DOMAIN q PROVE q[i] \in ToSet(front) \cup ToSet(rest)
  BY DEF ToSet, front, rest
<1>2. i \in 1 .. Len(q) /\ Len(q) \in Nat
  OBVIOUS
<1>3. CASE i <= n
  <2>1. i \in DOMAIN front /\ front[i] = q[i]
    BY <1>1, <1>2, <1>3
  <2> QED BY <2>1 DEF ToSet
<1>4. CASE i > n
  <2>1. i - n \in 1 .. (Len(q) - n) /\ n + (i - n) = i
    BY <1>2, <1>4
  <2>2. i - n \in DOMAIN rest /\ rest[i - n] = q[i]
    BY <1>1, <2>1
  <2> QED BY <2>2 DEF ToSet
<1> QED BY <1>2, <1>3, <1>4

(* What a step may lose bars to.                                           *)
Excused ==
  \/ held # NoBar /\ Len(buffer) >= BufferSize
  \/ batch # << >> /\ Len(batch \o buffer) > ConfigBufferSize
  \/ stopper = "flush"

LEMMA ShutdownLoses ==
  ASSUME TypeOK, ShutdownTake \/ ShutdownFlushed \/ ShutdownFlushFails \/ ShutdownTimesOut
  PROVE  Places \subseteq Places' \/ Excused
<1>1. CASE ShutdownTake
  <2>1. flushing = << >>
    BY <1>1 DEF ShutdownTake, TypeOK
  <2> QED BY <1>1, <2>1, NoneOnce DEF ShutdownTake, Places, Held, repository
<1>2. CASE ~ShutdownTake
  BY <1>2 DEF ShutdownFlushed, ShutdownFlushFails, ShutdownTimesOut, Excused
<1> QED BY <1>1, <1>2

LEMMA DistributionLoses ==
  ASSUME TypeOK, IngestBar \/ DistributeReceive \/ DistributePush
  PROVE  Places \subseteq Places' \/ Excused
<1>0. bus \in Seq(Bar) /\ buffer \in Seq(Bar) /\ NoBar \notin Bar
  BY PipelineAssumption DEF TypeOK, Bar
<1>1. CASE IngestBar
  <2>1. ToSet(bus) \subseteq ToSet(bus')
    <3>1. ingested' \in Bar
      BY <1>1, PipelineAssumption DEF IngestBar, TypeOK, Bar
    <3>2. CASE bus' = bus
      BY <3>2
    <3>3. CASE bus' = Append(bus, ingested')
      BY <1>0, <3>1, <3>3, AppendOnce
    <3> QED BY <1>1, <3>2, <3>3 DEF IngestBar
  <2> QED BY <1>1, <2>1 DEF IngestBar, Places, Held, repository
<1>2. CASE DistributeReceive
  <2>1. held' = Head(bus) /\ bus' = Tail(bus) /\ held = NoBar /\ bus # << >>
    BY <1>2 DEF DistributeReceive
  <2>2. held' \in Bar /\ ToSet(bus) \subseteq {held'} \cup ToSet(bus')
    BY <1>0, <2>1, HeadAndTail, HeadOrTail
  <2>3. Held = {} /\ Held' = {held'}
    BY <1>0, <2>1, <2>2 DEF Held
  <2> QED BY <1>2, <2>2, <2>3 DEF DistributeReceive, Places, repository
<1>3. CASE DistributePush /\ ~(Len(buffer) >= BufferSize)
  <2>1. held \in Bar /\ Held = {held}
    BY <1>3 DEF DistributePush, TypeOK, Bar, Held
  <2>2. buffer' = Append(buffer, held)
    BY <1>3 DEF DistributePush
  <2>3. ToSet(buffer') = ToSet(buffer) \cup Held
    BY <1>0, <2>1, <2>2, AppendOnce
  <2> QED BY <1>3, <2>3 DEF DistributePush, Places, repository
<1>4. CASE DistributePush /\ Len(buffer) >= BufferSize
  BY <1>4 DEF DistributePush, Excused
<1> QED BY <1>1, <1>2, <1>3, <1>4

LEMMA PersistenceLoses ==
  ASSUME TypeOK, FlushTake \/ FlushSaved \/ FlushFails \/ AnswerLost
  PROVE  Places \subseteq Places' \/ Excused
<1>0. /\ batch \in Seq(Bar) /\ buffer \in Seq(Bar) /\ saved \in Seq(Bar)
      /\ flushing \in Seq(Bar)
  BY DEF TypeOK, Bar
<1>1. CASE FlushTake
  <2>1. /\ BatchSize \in Nat /\ BatchSize <= Len(buffer) /\ batch = << >>
        /\ batch' = SubSeq(buffer, 1, BatchSize)
        /\ buffer' = SubSeq(buffer, BatchSize + 1, Len(buffer))
    BY <1>1, PipelineAssumption DEF FlushTake
  <2>2. ToSet(buffer) \subseteq ToSet(batch') \cup ToSet(buffer') /\ ToSet(batch) = {}
    BY <1>0, <2>1, FrontOrRest, NoneOnce
  <2> QED BY <1>1, <2>2 DEF FlushTake, Places, Held, repository
<1>2. CASE FlushSaved
  <2>1. ToSet(saved') = ToSet(saved) \cup ToSet(batch)
    BY <1>0, <1>2, JoinOnce DEF FlushSaved, SaveTold
  <2> QED BY <1>2, <2>1 DEF FlushSaved, Places, Held
<1>3. CASE FlushFails /\ ~(Len(batch \o buffer) > ConfigBufferSize)
  <2>1. buffer' = batch \o buffer
    BY <1>3 DEF FlushFails
  <2>2. ToSet(buffer') = ToSet(batch) \cup ToSet(buffer)
    BY <1>0, <2>1, JoinOnce
  <2> QED BY <1>3, <2>2 DEF FlushFails, Places, Held, repository
<1>4. CASE FlushFails /\ Len(batch \o buffer) > ConfigBufferSize
  BY <1>4 DEF FlushFails, Excused
<1>5. CASE AnswerLost
  <2>1. ToSet(saved) \subseteq ToSet(saved')
    <3>1. /\ ToSet(saved \o batch) = ToSet(saved) \cup ToSet(batch)
          /\ ToSet(saved \o flushing) = ToSet(saved) \cup ToSet(flushing)
      BY <1>0, JoinOnce
    <3> QED BY <1>5, <3>1 DEF AnswerLost
  <2> QED BY <1>5, <2>1 DEF AnswerLost, Places, Held, queues
<1> QED BY <1>1, <1>2, <1>3, <1>4, <1>5

LEMMA StepLoses == TypeOK /\ [Next]_vars => Places \subseteq Places' \/ Excused
<1> SUFFICES ASSUME TypeOK, [Next]_vars PROVE Places \subseteq Places' \/ Excused
  OBVIOUS
<1>1. CASE UNCHANGED <<queues, saved>>
  BY <1>1 DEF Places, Held, queues
<1>2. \/ ShutdownTake \/ ShutdownFlushed \/ ShutdownFlushFails \/ ShutdownTimesOut
      \/ IngestBar \/ DistributeReceive \/ DistributePush
      \/ FlushTake \/ FlushSaved \/ FlushFails \/ AnswerLost
      \/ UNCHANGED <<queues, saved>>
  BY DEF Next, RunStep, ShutdownStep, DistributionStep, PersistenceStep, vars, queues, repository,
     RunStarting, RunSubscribe, RunRunning, RunSpawn, RunWaited, RunReturn, Pause, Resume,
     ShutdownBegin, ShutdownSignal, ShutdownFinish, TaskEnds, IngestRefused,
     DistributionSubscribe, HalfOpenTick, Tick
<1> QED BY <1>1, <1>2, ShutdownLoses, DistributionLoses, PersistenceLoses

(* No step loses a bar on its way but to a full buffer, when distribution  *)
(* adds to it or a failed save puts bars back, or to a shutdown that is    *)
(* flushing: not a drain, an ordinary failure or the end of a task.        *)
THEOREM BarsAreLostOnlyWhenFull == Spec => LostOnlyWhenFull
<1> DEFINE Loses == \A b \in Bars : b \notin Bars' =>
                      \/ held # NoBar /\ Len(buffer) >= BufferSize
                      \/ batch # << >> /\ Len(batch \o buffer) > ConfigBufferSize
                      \/ stopper = "flush"
<1>1. TypeOK' => (Bars = Places)'
  BY BarsAreInPlaces, PTL
<1>2. TypeOK /\ TypeOK' /\ [Next]_vars => [Loses]_vars
  BY <1>1, BarsAreInPlaces, StepLoses DEF Excused
<1> QED BY <1>2, TypeCorrect, PTL DEF Spec, LostOnlyWhenFull
=============================================================================
