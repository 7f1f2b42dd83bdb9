----------------------------- MODULE MCServices -----------------------------
(***************************************************************************)
(* A finite instance of six services that share no state: the use cases on *)
(* the repositories, the health checker, the processing rate, the cache's  *)
(* circuit breaker, the ingest command and the client of Interactive       *)
(* Brokers.  Each behaviour is of one of them, the others stay as they     *)
(* began, so that the states add up and do not multiply.                   *)
(***************************************************************************)
EXTENDS UseCases, OrderTable, PositionTable, FillTable, SeriesTable

CONSTANTS
  Probes, Checked, Placeholders, Pushed, MaxProbes, MaxChanges,     \* HealthChecker
  Servers, MaxBars,                                                 \* Metrics
  CacheCallers, FailureThreshold, SuccessThreshold,                 \* RedisCache
  Users, Ingester, NoOwner, MaxFed, TimeOf, BatchSize, ChanSize, MaxUses, \* Ingest
  Managers, NoManager, EventCap, MaxAttempts, AutoReconnect, LinkMayFail,
  MaxClientCalls                                                    \* IBClient

(* A component is asked, answered for or pushed, and only one of them; the *)
(* servers that are started are finitely many.                             *)
ASSUME NamesAssumption ==
  /\ IsFiniteSet(Servers)
  /\ Checked \cap Placeholders = {} /\ Checked \cap Pushed = {} /\ Placeholders \cap Pushed = {}

VARIABLES
  service, \* the service of this behaviour
  components, checks, actual, probe, overlapped, steady, begun, changes,
  ingested, atLast, updater, rate, reported, missed,
  circuit, failureCount, successCount, lastFailure, cacheAt, alive,
  linked, owner, subscriberAt, since, uses, phase, chan, buffer, saving, received, savedCount,
  stored, unheard, givenUp, fed, failed,
  state, connected, shutdown, stale, idKnown, handle, queued, clientAt, tries, clientCalls,
  manager, aborted, backoff

health == <<components, checks, actual, probe, overlapped, steady, begun, changes>>
metrics == <<ingested, atLast, updater, rate, reported, missed>>
cache == <<circuit, failureCount, successCount, lastFailure, cacheAt, alive>>
ingest == <<linked, owner, subscriberAt, since, uses, phase, chan, buffer, saving, received,
            savedCount, stored, unheard, givenUp, fed, failed>>
client == <<state, connected, shutdown, stale, idKnown, handle, queued, clientAt, tries,
            clientCalls, manager, aborted, backoff>>

H == INSTANCE HealthChecker
R == INSTANCE Metrics
C == INSTANCE RedisCache WITH Callers <- CacheCallers, state <- circuit, at <- cacheAt
I == INSTANCE Ingest WITH MaxBars <- MaxFed, at <- subscriberAt, faults <- failed
K == INSTANCE IBClient WITH MaxCalls <- MaxClientCalls, at <- clientAt, made <- clientCalls

(* What the instances suppose of their constants.                          *)
ASSUME InstancesAssumption ==
  C!CacheAssumption /\ I!IngestAssumption /\ K!ClientAssumption

(* One bar is corrected by the next: they have the same time.              *)
SecondAndThirdMeet == [b \in 1..MaxFed |-> IF b < 3 THEN b ELSE b - 1]

ServicesInit ==
  /\ service \in {"use cases", "health", "rate", "cache", "ingest", "client"}
  /\ Init /\ H!Init /\ R!Init /\ C!Init /\ I!Init /\ K!Init
  /\ service # "use cases" => positionRow.side = "Long"  \* nobody reads it there

ServicesNext ==
  /\ UNCHANGED service
  /\ \/ service = "use cases" /\ Next /\ UNCHANGED <<health, metrics, cache, ingest, client>>
     \/ service = "health" /\ H!Next /\ UNCHANGED <<vars, metrics, cache, ingest, client>>
     \/ service = "rate" /\ R!Next /\ UNCHANGED <<vars, health, cache, ingest, client>>
     \/ service = "cache" /\ C!Next /\ UNCHANGED <<vars, health, metrics, ingest, client>>
     \/ service = "ingest" /\ I!Next /\ UNCHANGED <<vars, health, metrics, cache, client>>
     \/ service = "client" /\ K!Next /\ UNCHANGED <<vars, health, metrics, cache, ingest>>

ServicesSpec ==
  ServicesInit /\ [][ServicesNext]_<<service, vars, health, metrics, cache, ingest, client>>

LoneProbeTellsTruth == H!LoneProbeTellsTruth
RatesAddUp == R!RatesAddUp
NoTransitionMissed == C!NoTransitionMissed
ReceivedIsAccountedFor == I!ReceivedIsAccountedFor
SavedCountIsStored == I!SavedCountIsStored
AddedOncePerAnswer == I!AddedOncePerAnswer
ReplacedOnlyByOverlap == I!ReplacedOnlyByOverlap
OneManager == K!OneManager
ConnectedIsWatched == K!ConnectedIsWatched
=============================================================================
