---------------------------- MODULE HealthChecker ----------------------------
(***************************************************************************)
(* The health checker of crates/infrastructure/src/health.rs, behind the   *)
(* handlers of monitoring.rs.  Probes run the registered checks one after  *)
(* the other, without a lock from a check to the write of its result, and  *)
(* then read what all checks and all updates left.                         *)
(***************************************************************************)
EXTENDS Naturals, FiniteSets

CONSTANTS
  Probes,       \* concurrent callers of check_health()
  Checked,      \* components whose check asks the component
  Placeholders, \* components whose check answers Up without asking
  Pushed,       \* components that are only written by update_component()
  MaxProbes,    \* bound: calls of check_health()
  MaxChanges    \* bound: changes of the components and pushed updates

VARIABLES
  components, \* the statuses held, of the components written so far
  checks,     \* the components with a registered check
  actual,     \* the state each component is really in
  probe,      \* what each call of check_health() is doing
  overlapped, \* history: probes that ran while another one did
  steady,     \* history: the components each probe checks that did not change since it began
  begun,      \* bound
  changes     \* bound

vars == <<components, checks, actual, probe, overlapped, steady, begun, changes>>

Names == Checked \cup Placeholders \cup Pushed
Statuses == {"Up", "Down"}
NoComponents == [c \in {} |-> "Unknown"]

Idle == [pc |-> "idle", left |-> {}, name |-> "", result |-> "Unknown", answer |-> NoComponents]

(* HealthCheckerBuilder::build() returns an empty checker, whatever it was *)
(* given.                                                                  *)
Build(given) == NoComponents

Init ==
  /\ components = Build([c \in Pushed |-> "Up"])
  /\ checks = {}
  /\ actual = [c \in Checked |-> "Up"]
  /\ probe = [p \in Probes |-> Idle]
  /\ overlapped = {} /\ steady = [p \in Probes |-> {}]
  /\ begun = 0 /\ changes = 0
-----------------------------------------------------------------------------
(* insert(): the latest write of a component stands.                       *)
Insert(c, status) ==
  components' = [d \in DOMAIN components \cup {c} |-> IF d = c THEN status ELSE components[d]]

GetComponent(c) == IF c \in DOMAIN components THEN components[c] ELSE "Unknown"

Goto(p, pc, left, name, result) ==
  probe' = [probe EXCEPT ![p] = [pc |-> pc, left |-> left, name |-> name, result |-> result,
                                 answer |-> NoComponents]]

Running(p) == probe[p].pc \in {"run", "write"}

(* check_health() takes a copy of the registered checks.                   *)
CheckHealth(p) ==
  /\ ~Running(p) /\ begun < MaxProbes
  /\ begun' = begun + 1
  /\ Goto(p, "run", checks, "", "Unknown")
  /\ LET others == {q \in Probes \ {p} : Running(q)}
     IN overlapped' = IF others = {} THEN overlapped \ {p} ELSE overlapped \cup others \cup {p}
  /\ steady' = [steady EXCEPT ![p] = checks]
  /\ UNCHANGED <<components, checks, actual, changes>>

(* The checks of the database and of Redis wait a millisecond and answer;  *)
(* the one of Interactive Brokers connects, and counts a timeout as Down.  *)
Measured(c) == IF c \in Placeholders THEN "Up" ELSE actual[c]

RunCheck(p) ==
  /\ probe[p].pc = "run"
  /\ \E c \in probe[p].left : Goto(p, "write", probe[p].left \ {c}, c, Measured(c))
  /\ UNCHANGED <<components, checks, actual, overlapped, steady, begun, changes>>

WriteResultOnce(p) ==  \* seeded fault: a component that is held already is not updated
  /\ probe[p].pc = "write"
  /\ IF probe[p].name \in DOMAIN components THEN UNCHANGED components
     ELSE Insert(probe[p].name, probe[p].result)
  /\ Goto(p, "run", probe[p].left, "", "Unknown")
  /\ UNCHANGED <<checks, actual, overlapped, steady, begun, changes>>

WriteResult(p) ==
  /\ probe[p].pc = "write"
  /\ Insert(probe[p].name, probe[p].result)
  /\ Goto(p, "run", probe[p].left, "", "Unknown")
  /\ UNCHANGED <<checks, actual, overlapped, steady, begun, changes>>

Collect(p) ==
  /\ probe[p].pc = "run" /\ probe[p].left = {}
  /\ probe' = [probe EXCEPT ![p] = [Idle EXCEPT !.pc = "answered", !.answer = components]]
  /\ UNCHANGED <<components, checks, actual, overlapped, steady, begun, changes>>

(* update_component() and register_component(), as the pipeline calls them *)
(* for its own component.                                                  *)
UpdateComponent(c) ==
  /\ changes < MaxChanges /\ changes' = changes + 1
  /\ \E status \in Statuses : Insert(c, status)
  /\ UNCHANGED <<checks, actual, probe, overlapped, steady, begun>>

RegisterCheck(c) ==
  /\ c \notin checks /\ checks' = checks \cup {c}
  /\ UNCHANGED <<components, actual, probe, overlapped, steady, begun, changes>>

(* Environment: a component goes up or down.                               *)
Change(c) ==
  /\ changes < MaxChanges /\ changes' = changes + 1
  /\ actual' = [actual EXCEPT ![c] = IF @ = "Up" THEN "Down" ELSE "Up"]
  /\ steady' = [p \in Probes |-> steady[p] \ {c}]
  /\ UNCHANGED <<components, checks, probe, overlapped, begun>>
-----------------------------------------------------------------------------
(* calculate_overall_health(): Unknown statuses count as not down.         *)
OverallHealth(held) ==
  LET up == {c \in DOMAIN held : held[c] = "Up"}
      down == {c \in DOMAIN held : held[c] = "Down"}
  IN IF DOMAIN held = {} THEN "Unknown"
     ELSE IF down = {} THEN "Healthy"
     ELSE IF up # {} THEN "Degraded" ELSE "Unhealthy"

(* The status codes of /health and /health/ready, what is_ready() says of  *)
(* the same health, and /health/live.                                      *)
HealthCode(held) == IF OverallHealth(held) = "Unhealthy" THEN 503 ELSE 200
ReadyCode(held) ==
  IF OverallHealth(held) \in {"Healthy", "Degraded", "Unknown"} THEN 200 ELSE 503
IsReady(held) == OverallHealth(held) = "Healthy"
GracePeriod == 300
IsAlive(uptime) == uptime < GracePeriod
-----------------------------------------------------------------------------
ProbeStep(p) == CheckHealth(p) \/ RunCheck(p) \/ WriteResult(p) \/ Collect(p)

Next ==
  \/ \E p \in Probes : ProbeStep(p)
  \/ \E c \in Pushed : UpdateComponent(c)
  \/ \E c \in Checked \cup Placeholders : RegisterCheck(c)
  \/ \E c \in Checked : Change(c)

Spec == Init /\ [][Next]_vars
-----------------------------------------------------------------------------
(* A probe that ran alone tells the truth of each component whose check    *)
(* asks it and that did not change meanwhile: is_ready() is false when one *)
(* is down, and traffic is refused only when they all are.  (Probes that   *)
(* overlap may leave an older result over a newer one.)                    *)
LoneProbeTellsTruth ==
  \A p \in Probes :
    probe[p].pc = "answered" /\ p \notin overlapped =>
      \A c \in steady[p] \cap Checked :
        /\ probe[p].answer[c] = actual[c]
        /\ actual[c] = "Down" => ~IsReady(probe[p].answer)
        /\ ReadyCode(probe[p].answer) = 503 => actual[c] = "Down"
=============================================================================
