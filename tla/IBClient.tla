------------------------------ MODULE IBClient ------------------------------
(***************************************************************************)
(* IBClient of crates/infrastructure/src/external/ib/client.rs: callers    *)
(* connect, ask for an order id and disconnect; a manager task beats and   *)
(* reconnects; all of them report on a bounded channel of events.  The     *)
(* link itself (do_connect, do_reconnect: placeholders in the code) is     *)
(* external and may fail.  A step of a task runs to its next await.        *)
(***************************************************************************)
EXTENDS Integers, FiniteSets

CONSTANTS
  Callers,       \* tasks that call the client
  Managers,      \* identities of manager tasks, reused once they ended
  NoManager,
  EventCap,      \* capacity of the event channel
  MaxAttempts,   \* config.max_reconnect_attempts; 0: no limit
  AutoReconnect, \* config.auto_reconnect
  LinkMayFail,   \* whether an attempt to connect may fail
  MaxCalls       \* bound: calls that are made

ASSUME ClientAssumption ==
  /\ NoManager \notin Managers
  /\ EventCap \in Nat \ {0} /\ MaxAttempts \in Nat /\ MaxCalls \in Nat
  /\ AutoReconnect \in BOOLEAN /\ LinkMayFail \in BOOLEAN

VARIABLES
  state,      \* ConnectionState
  connected,  \* the flag beside it
  shutdown,   \* shutdown_signal, which nothing clears
  stale,      \* last_activity is older than connection_dead_timeout
  idKnown,    \* next_valid_id is not 0
  handle,     \* manager_handle
  queued,     \* events in the channel
  at,         \* where each caller is
  tries,      \* the attempt counter of its backoff
  made,       \* bound: calls that were made
  manager,    \* where each manager task is
  aborted,    \* the managers aborted in the middle of a poll
  backoff     \* the attempt counter of each manager

link == <<state, connected, stale>>
calls == <<at, tries, made>>
tasks == <<manager, aborted, backoff>>
vars == <<link, shutdown, idKnown, handle, queued, calls, tasks>>

ConnectionStates == {"Disconnected", "Connecting", "Connected", "Reconnecting", "Failed"}

Init ==
  /\ state = "Disconnected" /\ connected = FALSE /\ stale = FALSE
  /\ shutdown = FALSE /\ idKnown = FALSE /\ handle = NoManager /\ queued = 0
  /\ at = [c \in Callers |-> "idle"]
  /\ tries = [c \in Callers |-> 0] /\ made = 0
  /\ manager = [m \in Managers |-> "ended"] /\ aborted = {}
  /\ backoff = [m \in Managers |-> 0]
-----------------------------------------------------------------------------
(* Parts of the calls.  A step takes a caller from one point to the next.  *)

Moves(c, from, to) ==
  /\ at[c] = from /\ at' = [at EXCEPT ![c] = to]
  /\ UNCHANGED <<tries, made>>

(* set_state() reports a change, once it has released the lock.            *)
SetState(c, from, new, report, next) ==
  /\ Moves(c, from, IF state = new THEN next ELSE report)
  /\ state' = new
  /\ UNCHANGED <<connected, stale, shutdown, idKnown, handle, queued, tasks>>

(* send() waits for room in the channel.                                   *)
Room == queued < EventCap

Sends(c, from, to) ==
  /\ Room /\ Moves(c, from, to)
  /\ queued' = queued + 1
  /\ UNCHANGED <<link, shutdown, idKnown, handle, tasks>>

Live(m) == manager[m] # "ended"

ManagerReports == {"beat", "tellDead", "tellReconnecting", "tellRelinked"}
-----------------------------------------------------------------------------
(* connect(), with which request_next_order_id() begins too: once there is *)
(* a connection, one of them returns and the other goes on.                *)

Call(c) ==
  /\ at[c] = "idle" /\ made < MaxCalls
  /\ at' = [at EXCEPT ![c] = "checkFlag"]
  /\ made' = made + 1
  /\ tries' = [tries EXCEPT ![c] = 0]
  /\ UNCHANGED <<link, shutdown, idKnown, handle, queued, tasks>>

Established == {"idle", "loadId"}

CheckFlag(c) ==
  /\ Moves(c, "checkFlag", IF connected THEN "checkState" ELSE "setConnecting")
  /\ UNCHANGED <<link, shutdown, idKnown, handle, queued, tasks>>

CheckState(c) ==
  /\ IF state = "Connected" THEN \E next \in Established : Moves(c, "checkState", next)
                            ELSE Moves(c, "checkState", "setConnecting")
  /\ UNCHANGED <<link, shutdown, idKnown, handle, queued, tasks>>

SetConnecting(c) == SetState(c, "setConnecting", "Connecting", "tellConnecting", "attempt")

TellConnecting(c) == Sends(c, "tellConnecting", "attempt")

AttemptSucceeds(c) ==
  /\ Moves(c, "attempt", "touch")
  /\ connected' = TRUE
  /\ UNCHANGED <<state, stale, shutdown, idKnown, handle, queued, tasks>>

AttemptFails(c) ==
  /\ LinkMayFail /\ Moves(c, "attempt", "setFailed")
  /\ UNCHANGED <<link, shutdown, idKnown, handle, queued, tasks>>

Touch(c) ==
  /\ Moves(c, "touch", "setConnected")
  /\ stale' = FALSE
  /\ UNCHANGED <<state, connected, shutdown, idKnown, handle, queued, tasks>>

SetConnected(c) == SetState(c, "setConnected", "Connected", "tellState", "tellConnected")

TellState(c) == Sends(c, "tellState", "tellConnected")

TellConnected(c) == Sends(c, "tellConnected", "startManager")

(* The state is Failed after every failed attempt, not only the last.      *)
SetFailed(c) == SetState(c, "setFailed", "Failed", "tellFailed", "retry")

TellFailed(c) == Sends(c, "tellFailed", "retry")

RetryForEver(c) ==  \* seeded fault: the attempts are not counted
  /\ Moves(c, "retry", "attempt")
  /\ UNCHANGED <<link, shutdown, idKnown, handle, queued, tasks>>

Retry(c) ==
  /\ at[c] = "retry" /\ (MaxAttempts = 0 \/ tries[c] < MaxAttempts)
  /\ at' = [at EXCEPT ![c] = "attempt"] /\ tries' = [tries EXCEPT ![c] = @ + 1]
  /\ UNCHANGED <<link, shutdown, idKnown, handle, queued, made, tasks>>

OutOfAttempts(c) ==
  /\ MaxAttempts > 0 /\ tries[c] >= MaxAttempts
  /\ SetState(c, "retry", "Failed", "tellGivenUp", "idle")

TellGivenUp(c) == Sends(c, "tellGivenUp", "idle")

(* A task that is aborted while it is suspended ends there; one that is    *)
(* being polled ends at its next await that has to wait.                   *)
Suspended(m) ==
  \/ manager[m] \in {"tick", "sleep", "linking"}
  \/ manager[m] \in ManagerReports /\ ~Room

(* Of the managers, those that the abort of m lets run on, and all after   *)
(* it.  A handle may be NoManager, or a manager that has ended.            *)
RunsOn(m) == {n \in Managers : n = m /\ Live(n) /\ ~Suspended(n)}

Without(m) == [n \in Managers |-> IF n = m /\ Suspended(n) THEN "ended" ELSE manager[n]]

StartManagerBesideOld(c) ==  \* seeded fault: the manager there is goes on
  \E m \in Managers, next \in Established :
    /\ ~Live(m) /\ m # handle
    /\ Moves(c, "startManager", next)
    /\ manager' = [manager EXCEPT ![m] = "tick"]
    /\ backoff' = [backoff EXCEPT ![m] = 0]
    /\ handle' = m
    /\ UNCHANGED <<link, shutdown, idKnown, queued, aborted>>

(* The lock on the handle is held while the old manager is aborted and the *)
(* new one spawned.                                                        *)
StartManager(c) ==
  \E m \in Managers, next \in Established :
    /\ ~Live(m) /\ m # handle
    /\ Moves(c, "startManager", next)
    /\ aborted' = aborted \cup RunsOn(handle)
    /\ manager' = [Without(handle) EXCEPT ![m] = "tick"]
    /\ backoff' = [backoff EXCEPT ![m] = 0]
    /\ handle' = m
    /\ UNCHANGED <<link, shutdown, idKnown, queued>>

LoadId(c) ==
  /\ Moves(c, "loadId", IF idKnown THEN "idle" ELSE "storeId")
  /\ UNCHANGED <<link, shutdown, idKnown, handle, queued, tasks>>

StoreId(c) ==
  /\ Moves(c, "storeId", "tellId")
  /\ idKnown' = TRUE
  /\ UNCHANGED <<link, shutdown, handle, queued, tasks>>

TellId(c) == Sends(c, "tellId", "idle")
-----------------------------------------------------------------------------
(* disconnect() *)

Disconnect(c) ==
  /\ at[c] = "idle" /\ made < MaxCalls
  /\ at' = [at EXCEPT ![c] = "abort"] /\ made' = made + 1
  /\ shutdown' = TRUE
  /\ UNCHANGED <<link, idKnown, handle, queued, tries, tasks>>

AbortManager(c) ==
  /\ Moves(c, "abort", "closing")
  /\ aborted' = aborted \cup RunsOn(handle) /\ manager' = Without(handle)
  /\ handle' = NoManager
  /\ UNCHANGED <<link, shutdown, idKnown, queued, backoff>>

ClearFlag(c) ==
  /\ Moves(c, "closing", "setDisconnected")
  /\ connected' = FALSE
  /\ UNCHANGED <<state, stale, shutdown, idKnown, handle, queued, tasks>>

SetDisconnected(c) ==
  SetState(c, "setDisconnected", "Disconnected", "tellDown", "tellDisconnected")

TellDown(c) == Sends(c, "tellDown", "tellDisconnected")

TellDisconnected(c) == Sends(c, "tellDisconnected", "idle")
-----------------------------------------------------------------------------
(* The manager.  What it has begun when it is aborted it may go on with    *)
(* until it has to wait for a timer.                                       *)

Step(m, from, to) ==
  LET next == IF m \in aborted /\ to \in {"sleep", "linking"} THEN "ended" ELSE to
  IN /\ manager[m] = from
     /\ manager' = [manager EXCEPT ![m] = next]
     /\ aborted' = IF next = "ended" THEN aborted \ {m} ELSE aborted

ManagerSends(m, from, to) ==
  /\ Room /\ Step(m, from, to)
  /\ queued' = queued + 1
  /\ UNCHANGED <<link, shutdown, idKnown, handle, calls, backoff>>

AbortTakes(m) ==
  /\ m \in aborted
  /\ manager' = [manager EXCEPT ![m] = "ended"] /\ aborted' = aborted \ {m}
  /\ UNCHANGED <<link, shutdown, idKnown, handle, queued, calls, backoff>>

Tick(m) ==
  /\ Step(m, "tick", IF shutdown THEN "ended" ELSE "health")
  /\ UNCHANGED <<link, shutdown, idKnown, handle, queued, calls, backoff>>

(* An unhealthy connection is reconnected only if that is configured.      *)
Unhealthy == IF AutoReconnect THEN "reconnect" ELSE "tick"

CheckHealth(m) ==
  /\ Step(m, "health", IF connected THEN "activity" ELSE Unhealthy)
  /\ UNCHANGED <<link, shutdown, idKnown, handle, queued, calls, backoff>>

(* A beat does not count as activity.                                      *)
CheckActivity(m) ==
  /\ Step(m, "activity", IF stale THEN "tellDead" ELSE "beat")
  /\ UNCHANGED <<link, shutdown, idKnown, handle, queued, calls, backoff>>

Beat(m) == ManagerSends(m, "beat", "tick")

TellDead(m) == ManagerSends(m, "tellDead", Unhealthy)

ReconnectBegin(m) ==
  /\ Step(m, "reconnect",
          IF state \in {"Reconnecting", "Connecting"} THEN "tick" ELSE "setReconnecting")
  /\ UNCHANGED <<link, shutdown, idKnown, handle, queued, calls, backoff>>

SetReconnecting(m) ==
  /\ Step(m, "setReconnecting", "tellReconnecting")
  /\ state' = "Reconnecting"
  /\ UNCHANGED <<connected, stale, shutdown, idKnown, handle, queued, calls, backoff>>

TellReconnecting(m) == ManagerSends(m, "tellReconnecting", "backoff")

Exhausted(m) == MaxAttempts > 0 /\ backoff[m] >= MaxAttempts

BackOff(m) ==
  /\ ~Exhausted(m) /\ Step(m, "backoff", "sleep")
  /\ backoff' = [backoff EXCEPT ![m] = @ + 1]
  /\ UNCHANGED <<link, shutdown, idKnown, handle, queued, calls>>

(* No event reports this change of state.                                  *)
ReconnectGivesUp(m) ==
  /\ Exhausted(m) /\ Step(m, "backoff", "tick")
  /\ state' = "Failed"
  /\ UNCHANGED <<connected, stale, shutdown, idKnown, handle, queued, calls, backoff>>

Slept(m) ==
  /\ Step(m, "sleep", "linking")
  /\ UNCHANGED <<link, shutdown, idKnown, handle, queued, calls, backoff>>

RelinkFailsAndEnds(m) ==  \* seeded fault: the manager gives its loop up
  /\ LinkMayFail /\ Step(m, "linking", "ended")
  /\ UNCHANGED <<link, shutdown, idKnown, handle, queued, calls, backoff>>

(* The state stays Reconnecting.                                           *)
RelinkFails(m) ==
  /\ LinkMayFail /\ Step(m, "linking", "tick")
  /\ UNCHANGED <<link, shutdown, idKnown, handle, queued, calls, backoff>>

Relinked(m) ==
  /\ Step(m, "linking", "relinked")
  /\ backoff' = [backoff EXCEPT ![m] = 0] /\ connected' = TRUE
  /\ UNCHANGED <<state, stale, shutdown, idKnown, handle, queued, calls>>

RelinkTouch(m) ==
  /\ Step(m, "relinked", "setRelinked")
  /\ stale' = FALSE
  /\ UNCHANGED <<state, connected, shutdown, idKnown, handle, queued, calls, backoff>>

RelinkState(m) ==
  /\ Step(m, "setRelinked", "tellRelinked")
  /\ state' = "Connected"
  /\ UNCHANGED <<connected, stale, shutdown, idKnown, handle, queued, calls, backoff>>

TellRelinked(m) == ManagerSends(m, "tellRelinked", "tick")
-----------------------------------------------------------------------------
(* Whoever has the receiver may take an event, and need not: the ingest    *)
(* command keeps its receiver and never reads.                             *)
Receive ==
  /\ queued > 0
  /\ queued' = queued - 1
  /\ UNCHANGED <<link, shutdown, idKnown, handle, calls, tasks>>

(* The dead timeout passes without activity.                               *)
GrowStale ==
  /\ ~stale /\ connected
  /\ stale' = TRUE
  /\ UNCHANGED <<state, connected, shutdown, idKnown, handle, queued, calls, tasks>>

CallerSends(c) ==
  \/ TellConnecting(c) \/ TellState(c) \/ TellConnected(c) \/ TellFailed(c)
  \/ TellGivenUp(c) \/ TellId(c) \/ TellDown(c) \/ TellDisconnected(c)

CallerStep(c) ==
  \/ CheckFlag(c) \/ CheckState(c) \/ SetConnecting(c) \/ AttemptSucceeds(c)
  \/ AttemptFails(c) \/ Touch(c) \/ SetConnected(c) \/ SetFailed(c) \/ Retry(c)
  \/ OutOfAttempts(c) \/ StartManager(c) \/ LoadId(c) \/ StoreId(c) \/ AbortManager(c)
  \/ ClearFlag(c) \/ SetDisconnected(c) \/ CallerSends(c)

ManagerStep(m) ==
  \/ AbortTakes(m) \/ Tick(m) \/ CheckHealth(m) \/ CheckActivity(m) \/ Beat(m)
  \/ TellDead(m) \/ ReconnectBegin(m) \/ SetReconnecting(m) \/ TellReconnecting(m)
  \/ BackOff(m) \/ ReconnectGivesUp(m) \/ Slept(m) \/ RelinkFails(m) \/ Relinked(m)
  \/ RelinkTouch(m) \/ RelinkState(m) \/ TellRelinked(m)

Next ==
  \/ \E c \in Callers : Call(c) \/ Disconnect(c) \/ CallerStep(c)
  \/ \E m \in Managers : ManagerStep(m)
  \/ Receive \/ GrowStale

Spec == Init /\ [][Next]_vars

(* Calls that can go on are polled, and the channel hands out its room in  *)
(* the order it was asked for.  Nothing is supposed of who receives.       *)
FairSpec ==
  /\ Spec
  /\ \A c \in Callers : WF_vars(CallerStep(c)) /\ SF_vars(CallerSends(c))
-----------------------------------------------------------------------------
CallerPcs ==
  {"idle", "checkFlag", "checkState", "setConnecting", "tellConnecting", "attempt", "touch",
   "setConnected", "tellState", "tellConnected", "startManager", "setFailed", "tellFailed",
   "retry", "tellGivenUp", "loadId", "storeId", "tellId", "abort", "closing",
   "setDisconnected", "tellDown", "tellDisconnected"}

ManagerPcs ==
  {"ended", "tick", "health", "activity", "beat", "tellDead", "reconnect", "setReconnecting",
   "tellReconnecting", "backoff", "sleep", "linking", "relinked", "setRelinked",
   "tellRelinked"}

(* The types of the state; the channel keeps its capacity and the backoff  *)
(* counters their limit.                                                   *)
TypeOK ==
  /\ state \in ConnectionStates /\ connected \in BOOLEAN /\ stale \in BOOLEAN
  /\ shutdown \in BOOLEAN /\ idKnown \in BOOLEAN
  /\ handle \in Managers \cup {NoManager} /\ queued \in 0..EventCap
  /\ at \in [Callers -> CallerPcs]
  /\ tries \in [Callers -> Nat] /\ made \in 0..MaxCalls /\ backoff \in [Managers -> Nat]
  /\ MaxAttempts > 0 => /\ \A c \in Callers : tries[c] <= MaxAttempts
                        /\ \A m \in Managers : backoff[m] <= MaxAttempts
  /\ manager \in [Managers -> ManagerPcs]
  /\ aborted \subseteq {m \in Managers : Live(m)}

(* However calls overlap, a manager that has not been aborted is the one   *)
(* of the handle, so that disconnect() finds it: no second manager         *)
(* reconnects behind the back of the first.                                *)
OneManager == \A m \in Managers : Live(m) /\ m \notin aborted => handle = m

IsConnected == connected /\ state = "Connected"

(* A connection that the client reports while nobody is connecting is      *)
(* watched by a manager, whatever reconnections failed, until disconnect().*)
ConnectedIsWatched ==
  IsConnected /\ ~shutdown /\ (\A c \in Callers : at[c] = "idle") =>
    handle # NoManager /\ Live(handle) /\ handle \notin aborted

(* "This task runs continuously while the client is active, monitoring the *)
(* connection health and triggering reconnection" (client.rs:831): of a    *)
(* connection that was made after a disconnect() too.                      *)
EveryConnectionWatched ==
  IsConnected /\ (\A c \in Callers : at[c] = "idle") =>
    handle # NoManager /\ Live(handle) /\ handle \notin aborted

CallerReports ==
  {"tellConnecting", "tellState", "tellConnected", "tellFailed", "tellGivenUp", "tellId",
   "tellDown", "tellDisconnected"}

(* Nothing but the channel of events holds a call for ever: neither a link *)
(* that fails nor what other calls and managers do.  Each call returns,    *)
(* unless it waits to report on a channel that stays full.                 *)
CallsReturn ==
  \A c \in Callers : []<>(at[c] = "idle") \/ <>[](at[c] \in CallerReports /\ ~Room)
=============================================================================
