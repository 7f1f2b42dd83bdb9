------------------------------- MODULE Metrics -------------------------------
(***************************************************************************)
(* The processing rate of crates/infrastructure/src/metrics.rs: bars are   *)
(* counted by an atomic counter, and the tasks that monitoring servers     *)
(* spawn turn the growth of the one counter of the program into a rate.  A *)
(* rate is kept as the bars that it stands for; the time between two       *)
(* updates is positive or zero.                                            *)
(***************************************************************************)
EXTENDS Naturals

CONSTANTS
  Servers,  \* calls of MonitoringServer::start(), each of which gets its port
  MaxBars   \* bound: bars counted

VARIABLES
  ingested,  \* bars_ingested_total
  atLast,    \* bars_at_last_calculation
  updater,   \* the task of each server: none, at rest, or what it has read
  rate,      \* processing_rate: the bars of the last interval
  reported,  \* history: the bars of all rates that were set
  missed     \* history: the bars of intervals of no length, which set no rate

vars == <<ingested, atLast, updater, rate, reported, missed>>

NoTask == [pc |-> "none", current |-> 0, last |-> 0]
Ticking == [pc |-> "tick", current |-> 0, last |-> 0]

Init ==
  /\ ingested = 0 /\ atLast = 0 /\ rate = 0
  /\ updater = [s \in Servers |-> NoTask]
  /\ reported = 0 /\ missed = 0

(* start() spawns the task once it has bound its port.  Nothing ends the   *)
(* task, not even the end of start(), and another port or the port that is *)
(* free again lets another server start.                                   *)
Start(s) ==
  /\ updater[s] = NoTask
  /\ updater' = [updater EXCEPT ![s] = Ticking]
  /\ UNCHANGED <<ingested, atLast, rate, reported, missed>>

RecordBarsIngested ==
  /\ ingested < MaxBars
  /\ \E count \in 1..2 : ingested' = ingested + count
  /\ UNCHANGED <<atLast, updater, rate, reported, missed>>

(* update_processing_rate(): the counter is read, then swapped for what    *)
(* the last update read, and the rate is set under the lock of the time.   *)
ReadCounter(s) ==
  /\ updater[s].pc = "tick"
  /\ updater' = [updater EXCEPT ![s] = [pc |-> "swap", current |-> ingested, last |-> 0]]
  /\ UNCHANGED <<ingested, atLast, rate, reported, missed>>

SwapReread(s) ==  \* seeded fault: the counter is read once more to be stored
  /\ updater[s].pc = "swap"
  /\ updater' = [updater EXCEPT ![s] = [pc |-> "set", current |-> @.current, last |-> atLast]]
  /\ atLast' = ingested
  /\ UNCHANGED <<ingested, rate, reported, missed>>

Swap(s) ==
  /\ updater[s].pc = "swap"
  /\ updater' = [updater EXCEPT ![s] = [pc |-> "set", current |-> @.current, last |-> atLast]]
  /\ atLast' = updater[s].current
  /\ UNCHANGED <<ingested, rate, reported, missed>>

Growth(s) == IF updater[s].current > updater[s].last THEN updater[s].current - updater[s].last ELSE 0

SetRate(s) ==
  /\ updater[s].pc = "set"
  /\ \/ rate' = Growth(s) /\ reported' = reported + Growth(s) /\ UNCHANGED missed
     \/ missed' = missed + Growth(s) /\ UNCHANGED <<rate, reported>>
  /\ updater' = [updater EXCEPT ![s] = Ticking]
  /\ UNCHANGED <<ingested, atLast>>

Next ==
  \/ RecordBarsIngested
  \/ \E s \in Servers : Start(s) \/ ReadCounter(s) \/ Swap(s) \/ SetRate(s)

Spec == Init /\ [][Next]_vars
-----------------------------------------------------------------------------
Rests(s) == updater[s].pc \in {"none", "tick"}

AloneOfAll == \A s, t \in Servers : updater[s].pc # "none" /\ updater[t].pc # "none" => s = t

(* No bar escapes the rates: however the tasks of several servers read and *)
(* swap the one counter, what the updates stood for adds up to at least    *)
(* the bars that the last of them read, but for intervals of no length;    *)
(* and to no more than those when one task alone computes the rate.        *)
RatesAddUp ==
  (\A s \in Servers : Rests(s)) =>
    /\ reported + missed >= atLast
    /\ AloneOfAll => reported + missed = atLast
=============================================================================
