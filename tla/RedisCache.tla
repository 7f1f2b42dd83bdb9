----------------------------- MODULE RedisCache -----------------------------
(***************************************************************************)
(* RedisCache and its CircuitBreaker (crates/infrastructure/src/cache/     *)
(* redis.rs).  Callers share one breaker.  Its state is read under a lock  *)
(* that is released before anything is done about it, and its counters are *)
(* atomics of their own: between the read and what follows other callers   *)
(* change both.  All commands go through one multiplexed connection that   *)
(* is made once: when it is lost, commands fail or are never answered from *)
(* then on, since no timeout is set on it.  Redis, and whether a value can *)
(* be serialized, are external.                                            *)
(***************************************************************************)
EXTENDS Integers, FiniteSets

CONSTANTS
  Callers,
  FailureThreshold, SuccessThreshold  \* CircuitBreakerConfig

ASSUME CacheAssumption ==
  FailureThreshold \in Nat \ {0} /\ SuccessThreshold \in Nat \ {0}

VARIABLES
  state, failureCount, successCount,
  lastFailure, \* last_failure_time: "none", or whether the timeout is over: "recent", "old"
  at,          \* where each caller is
  alive        \* whether the connection of with_cache_config() still stands

breaker == <<state, failureCount, successCount, lastFailure>>
vars == <<breaker, at, alive>>

CircuitState == {"Closed", "Open", "HalfOpen"}

Init ==
  /\ state = "Closed" /\ failureCount = 0 /\ successCount = 0 /\ lastFailure = "none"
  /\ at = [c \in Callers |-> "idle"]
  /\ alive = TRUE

Moves(c, from, to) == at[c] = from /\ at' = [at EXCEPT ![c] = to]
-----------------------------------------------------------------------------
(* transition_to(): the counters are reset under the lock of the state.    *)

TransitionToOpen ==
  /\ state' = "Open" /\ lastFailure' = "recent" /\ successCount' = 0
  /\ UNCHANGED failureCount

TransitionToHalfOpen ==
  /\ state' = "HalfOpen" /\ successCount' = 0
  /\ UNCHANGED <<failureCount, lastFailure>>

TransitionToClosedOnly ==  \* seeded fault: the failures are kept
  /\ state' = "Closed" /\ successCount' = 0
  /\ UNCHANGED <<failureCount, lastFailure>>

TransitionToClosed ==
  /\ state' = "Closed" /\ failureCount' = 0 /\ successCount' = 0
  /\ UNCHANGED lastFailure
-----------------------------------------------------------------------------
(* The operations: can_execute(), then the command, then its record.       *)

Call(c) == Moves(c, "idle", "ask") /\ UNCHANGED <<breaker, alive>>

CanExecute(c) ==
  /\ Moves(c, "ask", IF state = "Open" THEN "checkTimeout" ELSE "execute")
  /\ UNCHANGED <<breaker, alive>>

CheckTimeoutNever(c) ==  \* seeded fault: an open circuit stays open
  /\ Moves(c, "checkTimeout", "idle")
  /\ UNCHANGED <<breaker, alive>>

CheckTimeout(c) ==
  /\ Moves(c, "checkTimeout", IF lastFailure = "old" THEN "toHalfOpen" ELSE "idle")
  /\ UNCHANGED <<breaker, alive>>

ToHalfOpen(c) ==
  /\ Moves(c, "toHalfOpen", "execute")
  /\ TransitionToHalfOpen
  /\ UNCHANGED alive

(* A command that Redis carries out.                                       *)
Executed(c) ==
  /\ alive /\ Moves(c, "execute", "succeeded")
  /\ UNCHANGED <<breaker, alive>>

(* set(), setex(), delete() and exists() record that a command failed,     *)
(* with its connection or with an error reply.                             *)
CommandFails(c) ==
  /\ Moves(c, "execute", "failed")
  /\ UNCHANGED <<breaker, alive>>

(* get() does not; and a value that cannot be encoded, or what Redis holds *)
(* and cannot be decoded, is not recorded either.                          *)
ReturnsUnrecorded(c) ==
  /\ Moves(c, "execute", "idle")
  /\ UNCHANGED <<breaker, alive>>
-----------------------------------------------------------------------------
(* record_success() *)

RecordSuccess(c) ==
  /\ Moves(c, "succeeded", CASE state = "HalfOpen" -> "addSuccess"
                             [] state = "Closed" -> "resetFailures"
                             [] state = "Open" -> "idle")
  /\ UNCHANGED <<breaker, alive>>

AddSuccess(c) ==
  /\ Moves(c, "addSuccess",
           IF successCount + 1 >= SuccessThreshold THEN "toClosed" ELSE "idle")
  /\ successCount' = successCount + 1
  /\ UNCHANGED <<state, failureCount, lastFailure, alive>>

ResetFailures(c) ==
  /\ Moves(c, "resetFailures", "idle")
  /\ failureCount' = 0
  /\ UNCHANGED <<state, successCount, lastFailure, alive>>

ToClosed(c) ==
  /\ Moves(c, "toClosed", "idle")
  /\ TransitionToClosed
  /\ UNCHANGED alive
-----------------------------------------------------------------------------
(* record_failure() *)

RecordFailure(c) ==
  /\ Moves(c, "failed", CASE state = "Closed" -> "addFailure"
                          [] state = "HalfOpen" -> "toOpen"
                          [] state = "Open" -> "stampFailure")
  /\ UNCHANGED <<breaker, alive>>

AddFailure(c) ==
  /\ Moves(c, "addFailure",
           IF failureCount + 1 >= FailureThreshold THEN "toOpen" ELSE "idle")
  /\ failureCount' = failureCount + 1
  /\ UNCHANGED <<state, successCount, lastFailure, alive>>

ToOpen(c) ==
  /\ Moves(c, "toOpen", "idle")
  /\ TransitionToOpen
  /\ UNCHANGED alive

StampFailure(c) ==
  /\ Moves(c, "stampFailure", "idle")
  /\ lastFailure' = "recent"
  /\ UNCHANGED <<state, failureCount, successCount, alive>>
-----------------------------------------------------------------------------
TimeoutPasses ==
  /\ lastFailure = "recent" /\ lastFailure' = "old"
  /\ UNCHANGED <<state, failureCount, successCount, at, alive>>

ConnectionLost ==
  /\ alive /\ alive' = FALSE
  /\ UNCHANGED <<breaker, at>>

Command(c) == Executed(c) \/ CommandFails(c) \/ ReturnsUnrecorded(c)

Admission(c) == CanExecute(c) \/ CheckTimeout(c) \/ ToHalfOpen(c)

Recording(c) ==
  \/ RecordSuccess(c) \/ AddSuccess(c) \/ ResetFailures(c) \/ ToClosed(c)
  \/ RecordFailure(c) \/ AddFailure(c) \/ ToOpen(c) \/ StampFailure(c)

Next ==
  \/ \E c \in Callers : Call(c) \/ Admission(c) \/ Command(c) \/ Recording(c)
  \/ TimeoutPasses \/ ConnectionLost

Spec == Init /\ [][Next]_vars

(* Calls keep being made, and time passes.  While the connection stands    *)
(* Redis answers each command, and of a caller that goes on not every      *)
(* command is refused or fails to be serialized.                           *)
FairSpec ==
  /\ Spec /\ WF_vars(TimeoutPasses)
  /\ \A c \in Callers :
       /\ WF_vars(Call(c)) /\ WF_vars(Admission(c)) /\ WF_vars(Recording(c))
       /\ WF_vars(alive /\ Command(c)) /\ SF_vars(Executed(c))
-----------------------------------------------------------------------------
Places ==
  {"idle", "ask", "checkTimeout", "toHalfOpen", "execute", "succeeded", "addSuccess",
   "resetFailures", "toClosed", "failed", "addFailure", "toOpen", "stampFailure"}

(* The types of the state, and an open circuit has a time to wait from:    *)
(* without one can_execute() would refuse for ever.                        *)
TypeOK ==
  /\ state \in CircuitState /\ failureCount \in Nat /\ successCount \in Nat
  /\ lastFailure \in {"none", "recent", "old"}
  /\ state = "Open" => lastFailure # "none"
  /\ at \in [Callers -> Places]
  /\ alive \in BOOLEAN

(* However callers interleave, no threshold is passed unnoticed: a closed  *)
(* circuit that has counted enough failures has a caller about to open it, *)
(* and a half-open one that has counted enough successes has one about to  *)
(* close it.                                                               *)
NoTransitionMissed ==
  /\ state = "Closed" /\ failureCount >= FailureThreshold =>
       \E c \in Callers : at[c] = "toOpen"
  /\ state = "HalfOpen" /\ successCount >= SuccessThreshold =>
       \E c \in Callers : at[c] = "toClosed"

(* Once commands fail no more on a connection that still stands, the       *)
(* circuit closes for good, whatever stale transitions the failures left   *)
(* in the callers.  A connection that is lost ends that for ever.          *)
ClosesAfterFailures ==
  <>[](alive /\ \A c \in Callers : at[c] # "failed") => <>[](state = "Closed")
=============================================================================
