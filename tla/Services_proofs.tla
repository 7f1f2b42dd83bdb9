-------------------------- MODULE Services_proofs --------------------------
(***************************************************************************)
(* Machine-checked proofs about the six services that MCServices puts side *)
(* by side: the use cases, the health checker, the processing rate, the    *)
(* cache's circuit breaker, the ingest command and the client of           *)
(* Interactive Brokers.  They hold for every value of the constants; of    *)
(* each service alone, and at the end of all of them in one behaviour.     *)
(***************************************************************************)
EXTENDS MCServices, FiniteSums, TLAPS

-----------------------------------------------------------------------------
(* The processing rate.  The swaps of all tasks form a chain, so that what *)
(* was reported or is about to be is no less than its last link.           *)

UpdaterRecord == [pc : {"none", "tick", "swap", "set"}, current : Nat, last : Nat]

RateType ==
  /\ ingested \in Nat /\ atLast \in Nat /\ reported \in Nat /\ missed \in Nat
  /\ updater \in [Servers -> UpdaterRecord]

(* The growth that each task has computed and not yet reported.            *)
Due == [s \in Servers |-> IF updater[s].pc = "set" THEN R!Growth(s) ELSE 0]

Lower == reported + missed + SumOver(Due, Servers) >= atLast

(* Of a task that is alone: between its two exchanges the bars not yet in  *)
(* a rate are those that it has read.                                      *)
Lone ==
  R!AloneOfAll =>
    /\ atLast <= ingested
    /\ (\A s \in Servers : R!Rests(s)) => reported + missed = atLast
    /\ \A s \in Servers :
         /\ updater[s].pc = "swap" =>
              /\ updater[s].current \in atLast..ingested
              /\ reported + missed = atLast
         /\ updater[s].pc = "set" =>
              /\ updater[s].last <= updater[s].current /\ updater[s].current = atLast
              /\ reported + missed = updater[s].last

RateInv == RateType /\ Lower /\ Lone

LEMMA DueType ==
  ASSUME RateType
  PROVE  /\ \A s \in Servers : Due[s] \in Nat
         /\ SumOver(Due, Servers) \in Nat
<1>1. ASSUME NEW s \in Servers PROVE Due[s] \in Nat
  <2>1. R!Growth(s) \in Nat
    BY DEF R!Growth, RateType, UpdaterRecord
  <2> QED BY <2>1 DEF Due
<1>2. IsFiniteSet(Servers)
  BY NamesAssumption
<1> QED BY <1>1, <1>2, SumType

(* A step of one task changes what is due by the change of its own share.  *)
LEMMA DueOf ==
  ASSUME RateType, RateType', NEW s \in Servers,
         \A t \in Servers \ {s} : updater'[t] = updater[t]
  PROVE  SumOver(Due', Servers) = SumOver(Due, Servers) + (Due'[s] - Due[s])
<1>1. \A t \in Servers : Due[t] \in Int /\ Due'[t] \in Int
  <2>1. \A t \in Servers : Due[t] \in Nat
    BY DueType
  <2>2. ASSUME NEW t \in Servers PROVE Due'[t] \in Nat
    <3>1. R!Growth(t)' \in Nat
      BY DEF R!Growth, RateType, UpdaterRecord
    <3> QED BY <3>1 DEF Due
  <2> QED BY <2>1, <2>2
<1>2. \A t \in Servers \ {s} : Due'[t] = Due[t]
  BY DEF Due, R!Growth
<1>3. IsFiniteSet(Servers)
  BY NamesAssumption
<1> QED BY <1>1, <1>2, <1>3, SumChange

LEMMA RateInit == R!Init => RateInv
<1> SUFFICES ASSUME R!Init PROVE RateInv
  OBVIOUS
<1>1. RateType /\ Lone
  BY DEF R!Init, RateType, Lone, UpdaterRecord, R!NoTask, R!Rests
<1>2. SumOver(Due, Servers) \in Nat
  BY <1>1, DueType
<1> QED BY <1>1, <1>2 DEF R!Init, RateInv, Lower

LEMMA RateTypeStep == RateType /\ [R!Next]_metrics => RateType'
<1> SUFFICES ASSUME RateType, [R!Next]_metrics PROVE RateType'
  OBVIOUS
<1> USE DEF RateType, UpdaterRecord
<1>1. CASE R!RecordBarsIngested
  BY <1>1 DEF R!RecordBarsIngested
<1>2. ASSUME NEW s \in Servers, R!Start(s) PROVE RateType'
  BY <1>2 DEF R!Start, R!Ticking
<1>3. ASSUME NEW s \in Servers, R!ReadCounter(s) PROVE RateType'
  BY <1>3 DEF R!ReadCounter
<1>4. ASSUME NEW s \in Servers, R!Swap(s) PROVE RateType'
  BY <1>4 DEF R!Swap
<1>5. ASSUME NEW s \in Servers, R!SetRate(s) PROVE RateType'
  <2>1. R!Growth(s) \in Nat
    BY DEF R!Growth
  <2> QED BY <1>5, <2>1 DEF R!SetRate, R!Ticking
<1>6. CASE UNCHANGED metrics
  BY <1>6 DEF metrics
<1> QED BY <1>1, <1>2, <1>3, <1>4, <1>5, <1>6 DEF R!Next

LEMMA LowerStep == RateType /\ RateType' /\ Lower /\ [R!Next]_metrics => Lower'
<1> SUFFICES ASSUME RateType, RateType', Lower, [R!Next]_metrics PROVE Lower'
  OBVIOUS
<1> DEFINE due == SumOver(Due, Servers)
           after == SumOver(Due', Servers)
<1>1. due \in Nat
  BY DueType
<1>2. reported \in Nat /\ missed \in Nat /\ atLast \in Nat /\ ingested \in Nat
  BY DEF RateType
<1>3. reported + missed + due >= atLast
  BY DEF Lower
<1>4. SUFFICES reported' + missed' + after >= atLast'
  BY DEF Lower
<1>5. CASE R!RecordBarsIngested \/ UNCHANGED metrics
  <2>1. UNCHANGED <<atLast, reported, missed, updater>>
    BY <1>5 DEF R!RecordBarsIngested, metrics
  <2>2. Due' = Due
    BY <2>1 DEF Due, R!Growth
  <2> QED BY <1>3, <2>1, <2>2
<1>6. ASSUME NEW s \in Servers, R!Start(s) \/ R!ReadCounter(s) \/ R!Swap(s) \/ R!SetRate(s)
      PROVE  reported' + missed' + after >= atLast'
  <2>1. updater[s] \in UpdaterRecord /\ Due[s] \in Nat
    BY DueType DEF RateType
  <2>2. after = due + (Due'[s] - Due[s])
    <3>1. \A t \in Servers \ {s} : updater'[t] = updater[t]
      BY <1>6 DEF R!Start, R!ReadCounter, R!Swap, R!SetRate, RateType
    <3> QED BY <3>1, DueOf
  <2>3. CASE R!Start(s) \/ R!ReadCounter(s)
    <3>1. updater[s].pc # "set" /\ updater'[s].pc # "set" /\ UNCHANGED <<atLast, reported, missed>>
      BY <2>3 DEF R!Start, R!ReadCounter, RateType, R!NoTask, R!Ticking
    <3>2. Due[s] = 0 /\ Due'[s] = 0
      BY <3>1 DEF Due
    <3> QED BY <1>1, <1>2, <1>3, <2>2, <3>1, <3>2
  <2>4. CASE R!Swap(s)
    <3>1. /\ updater[s].pc = "swap" /\ atLast' = updater[s].current
          /\ updater'[s].pc = "set" /\ updater'[s].current = updater[s].current
          /\ updater'[s].last = atLast /\ UNCHANGED <<reported, missed>>
      BY <2>4 DEF R!Swap, RateType, UpdaterRecord
    <3>2. updater[s].current \in Nat
      BY <2>1 DEF UpdaterRecord
    <3>3. Due[s] = 0
      BY <3>1 DEF Due
    <3>4. Due'[s] = R!Growth(s)'
      BY <3>1 DEF Due
    <3>5. Due'[s] \in Nat /\ Due'[s] >= atLast' - atLast
      BY <1>2, <3>1, <3>2, <3>4 DEF R!Growth
    <3> QED BY <1>1, <1>2, <1>3, <2>2, <3>1, <3>2, <3>3, <3>5
  <2>5. CASE R!SetRate(s)
    <3>1. /\ updater[s].pc = "set" /\ updater'[s].pc = "tick" /\ atLast' = atLast
          /\ \/ reported' = reported + R!Growth(s) /\ missed' = missed
             \/ missed' = missed + R!Growth(s) /\ reported' = reported
      BY <2>5 DEF R!SetRate, RateType, R!Ticking
    <3>2. Due[s] = R!Growth(s) /\ Due'[s] = 0
      BY <3>1 DEF Due
    <3> QED BY <1>1, <1>2, <1>3, <2>1, <2>2, <3>1, <3>2
  <2> QED BY <1>6, <2>3, <2>4, <2>5
<1> QED BY <1>5, <1>6 DEF R!Next

LEMMA LoneStep == RateType /\ Lone /\ [R!Next]_metrics => Lone'
<1> SUFFICES ASSUME RateType, Lone, [R!Next]_metrics, R!AloneOfAll' PROVE Lone'
  BY DEF Lone
<1> USE DEF RateType, UpdaterRecord, R!Rests
<1>1. CASE R!RecordBarsIngested
  BY <1>1 DEF R!RecordBarsIngested, Lone, R!AloneOfAll
<1>2. ASSUME NEW s \in Servers, R!Start(s)
      PROVE  Lone'
  <2>1. \A t \in Servers : updater[t].pc = "none"
    BY <1>2 DEF R!Start, R!AloneOfAll, R!Ticking, R!NoTask
  <2>2. R!AloneOfAll /\ \A t \in Servers : updater'[t].pc \in {"none", "tick"}
    BY <1>2, <2>1 DEF R!Start, R!AloneOfAll, R!Ticking
  <2> QED BY <1>2, <2>1, <2>2 DEF R!Start, Lone
<1>3. ASSUME NEW s \in Servers, R!ReadCounter(s) \/ R!Swap(s) \/ R!SetRate(s)
      PROVE  Lone'
  <2>1. \A t \in Servers \ {s} : updater[t].pc = "none" /\ updater'[t] = updater[t]
    BY <1>3 DEF R!ReadCounter, R!Swap, R!SetRate, R!AloneOfAll, R!Ticking
  <2>2. R!AloneOfAll
    BY <2>1 DEF R!AloneOfAll
  <2>3. CASE R!ReadCounter(s)
    BY <2>1, <2>2, <2>3 DEF R!ReadCounter, Lone
  <2>4. CASE R!Swap(s)
    BY <2>1, <2>2, <2>4 DEF R!Swap, Lone
  <2>5. CASE R!SetRate(s)
    <3>1. R!Growth(s) = updater[s].current - updater[s].last /\ R!Growth(s) \in Nat
      BY <2>2, <2>5 DEF R!SetRate, R!Growth, Lone
    <3>2. reported' + missed' = reported + missed + R!Growth(s)
      BY <2>5, <3>1 DEF R!SetRate
    <3> QED BY <2>1, <2>2, <2>5, <3>1, <3>2 DEF R!SetRate, R!Ticking, Lone
  <2> QED BY <1>3, <2>3, <2>4, <2>5
<1>4. CASE UNCHANGED metrics
  BY <1>4 DEF metrics, Lone, R!AloneOfAll
<1> QED BY <1>1, <1>2, <1>3, <1>4 DEF R!Next

(* However many servers run tasks, no bar escapes the rates that are set,  *)
(* and a task that is alone counts none of them twice, but for intervals   *)
(* of no length.                                                           *)
THEOREM NoBarEscapesTheRate == R!Spec => []RatesAddUp
<1>1. RateInv /\ [R!Next]_(R!vars) => RateInv'
  BY RateTypeStep, LowerStep, LoneStep DEF RateInv, R!vars, metrics
<1>2. RateInv => RatesAddUp
  <2> SUFFICES ASSUME RateInv, \A s \in Servers : R!Rests(s)
               PROVE  /\ reported + missed >= atLast
                      /\ R!AloneOfAll => reported + missed = atLast
    BY DEF RatesAddUp, R!RatesAddUp
  <2>1. \A s \in Servers : Due[s] = 0
    BY DEF Due, R!Rests
  <2>2. SumOver(Due, Servers) = 0
    BY <2>1, NamesAssumption, SumZero
  <2>3. reported + missed >= atLast
    BY <2>2 DEF RateInv, RateType, Lower
  <2> QED BY <2>3 DEF RateInv, Lone
<1> QED BY <1>1, <1>2, RateInit, PTL DEF R!Spec
-----------------------------------------------------------------------------
(* The health checker.  A probe that is running and has not overlapped     *)
(* with another is the only one that runs.  Of each component that it asks *)
(* and that has not changed meanwhile it has the check still to run, or    *)
(* the true answer in hand, or the true answer is held.                    *)

ProbeDomains ==
  /\ DOMAIN probe = Probes /\ DOMAIN steady = Probes
  /\ actual \in [Checked -> {"Up", "Down"}]

AloneInv ==
  \A p, q \in Probes : H!Running(p) /\ H!Running(q) /\ p \notin overlapped => p = q

HeldTruly(held, c) == c \in DOMAIN held /\ held[c] = actual[c]

ToldTruly(p, c) ==
  IF probe[p].pc = "write" /\ probe[p].name = c
    THEN probe[p].result = actual[c]
    ELSE c \in probe[p].left \/ HeldTruly(components, c)

RunningInv ==
  \A p \in Probes : H!Running(p) /\ p \notin overlapped =>
    \A c \in steady[p] \cap Checked : ToldTruly(p, c)

AnsweredInv ==
  \A p \in Probes : probe[p].pc = "answered" /\ p \notin overlapped =>
    \A c \in steady[p] \cap Checked : HeldTruly(probe[p].answer, c)

HealthInv == ProbeDomains /\ AloneInv /\ RunningInv /\ AnsweredInv

(* One component is down is enough not to be ready, and none may be up for *)
(* the answer to be that nothing works.                                    *)
LEMMA Answers ==
  ASSUME NEW held, NEW c \in DOMAIN held, held[c] \in {"Up", "Down"}
  PROVE  /\ held[c] = "Down" => ~H!IsReady(held)
         /\ H!ReadyCode(held) = 503 => held[c] = "Down"
<1>1. held[c] = "Down" => H!OverallHealth(held) \in {"Degraded", "Unhealthy"}
  BY DEF H!OverallHealth
<1>2. held[c] = "Up" => H!OverallHealth(held) \in {"Healthy", "Degraded"}
  BY DEF H!OverallHealth
<1> QED BY <1>1, <1>2 DEF H!IsReady, H!ReadyCode

LEMMA HealthTruth == HealthInv => LoneProbeTellsTruth
<1> SUFFICES ASSUME HealthInv, NEW p \in Probes, probe[p].pc = "answered", p \notin overlapped,
                    NEW c \in steady[p] \cap Checked
             PROVE  /\ probe[p].answer[c] = actual[c]
                    /\ actual[c] = "Down" => ~H!IsReady(probe[p].answer)
                    /\ H!ReadyCode(probe[p].answer) = 503 => actual[c] = "Down"
  BY DEF LoneProbeTellsTruth, H!LoneProbeTellsTruth
<1>1. HeldTruly(probe[p].answer, c)
  BY DEF HealthInv, AnsweredInv
<1>2. actual[c] \in {"Up", "Down"}
  BY DEF HealthInv, ProbeDomains
<1>3. /\ c \in DOMAIN probe[p].answer /\ probe[p].answer[c] = actual[c]
  BY <1>1 DEF HeldTruly
<1>4. /\ probe[p].answer[c] = "Down" => ~H!IsReady(probe[p].answer)
      /\ H!ReadyCode(probe[p].answer) = 503 => probe[p].answer[c] = "Down"
  BY <1>2, <1>3, Answers
<1> QED BY <1>3, <1>4

LEMMA HealthInit == H!Init => HealthInv
<1> SUFFICES ASSUME H!Init PROVE HealthInv
  OBVIOUS
<1>1. ProbeDomains
  BY DEF H!Init, ProbeDomains
<1>2. \A p \in Probes : probe[p].pc = "idle"
  BY DEF H!Init, H!Idle
<1> QED BY <1>1, <1>2 DEF HealthInv, AloneInv, RunningInv, AnsweredInv, H!Running

LEMMA HealthCheck ==
  ASSUME HealthInv, NEW p \in Probes, H!CheckHealth(p)
  PROVE  HealthInv'
<1> USE DEF HealthInv, ProbeDomains
<1> DEFINE others == {q \in Probes \ {p} : H!Running(q)}
<1>1. /\ overlapped' = IF others = {} THEN overlapped \ {p} ELSE overlapped \cup others \cup {p}
      /\ steady' = [steady EXCEPT ![p] = checks]
      /\ UNCHANGED <<components, actual>>
  BY DEF H!CheckHealth
<1>2. /\ DOMAIN probe' = Probes
      /\ \A q \in Probes \ {p} : probe'[q] = probe[q]
      /\ probe'[p].pc = "run" /\ probe'[p].left = checks
  BY DEF H!CheckHealth, H!Goto
<1>3. AloneInv'
  BY <1>1, <1>2 DEF AloneInv, H!Running
<1>4. RunningInv'
  <2> SUFFICES ASSUME NEW q \in Probes, H!Running(q)', (q \notin overlapped)',
                      NEW c \in (steady[q] \cap Checked)'
               PROVE  ToldTruly(q, c)'
    BY DEF RunningInv
  <2>1. CASE q = p
    BY <1>1, <1>2, <2>1 DEF ToldTruly
  <2>2. CASE q # p
    <3>1. q \in others
      BY <1>2, <2>2 DEF H!Running
    <3> QED BY <1>1, <3>1
  <2> QED BY <2>1, <2>2
<1>5. AnsweredInv'
  BY <1>1, <1>2 DEF AnsweredInv, HeldTruly
<1> QED BY <1>1, <1>2, <1>3, <1>4, <1>5

LEMMA HealthRun ==
  ASSUME NamesAssumption, HealthInv, NEW p \in Probes, H!RunCheck(p)
  PROVE  HealthInv'
<1> USE DEF HealthInv, ProbeDomains
<1>1. PICK c \in probe[p].left : H!Goto(p, "write", probe[p].left \ {c}, c, H!Measured(c))
  BY DEF H!RunCheck
<1>2. /\ UNCHANGED <<components, actual, overlapped, steady>>
      /\ probe[p].pc = "run"
      /\ DOMAIN probe' = Probes
      /\ \A q \in Probes \ {p} : probe'[q] = probe[q]
      /\ probe'[p].pc = "write" /\ probe'[p].left = probe[p].left \ {c}
      /\ probe'[p].name = c /\ probe'[p].result = H!Measured(c)
  BY <1>1 DEF H!RunCheck, H!Goto
<1>3. c \in Checked => H!Measured(c) = actual[c]
  BY DEF NamesAssumption, H!Measured
<1>4. AloneInv'
  BY <1>2 DEF AloneInv, H!Running
<1>5. RunningInv'
  BY <1>2, <1>3 DEF RunningInv, ToldTruly, HeldTruly, H!Running
<1>6. AnsweredInv'
  BY <1>2 DEF AnsweredInv, HeldTruly
<1> QED BY <1>2, <1>4, <1>5, <1>6

LEMMA HealthWrite ==
  ASSUME HealthInv, NEW p \in Probes, H!WriteResult(p)
  PROVE  HealthInv'
<1> USE DEF HealthInv, ProbeDomains
<1>1. /\ UNCHANGED <<actual, overlapped, steady>>
      /\ probe[p].pc = "write"
      /\ DOMAIN probe' = Probes
      /\ \A q \in Probes \ {p} : probe'[q] = probe[q]
      /\ probe'[p].pc = "run" /\ probe'[p].left = probe[p].left
      /\ H!Insert(probe[p].name, probe[p].result)
  BY DEF H!WriteResult, H!Goto
<1>2. AloneInv'
  BY <1>1 DEF AloneInv, H!Running
<1>3. RunningInv'
  <2> SUFFICES ASSUME NEW q \in Probes, H!Running(q)', (q \notin overlapped)',
                      NEW c \in (steady[q] \cap Checked)'
               PROVE  ToldTruly(q, c)'
    BY DEF RunningInv
  <2>1. q = p /\ H!Running(p)
    BY <1>1 DEF AloneInv, H!Running
  <2>2. ToldTruly(p, c)
    BY <1>1, <2>1 DEF RunningInv
  <2>3. CASE probe[p].name = c /\ probe[p].result = actual[c]
    BY <1>1, <2>1, <2>3 DEF ToldTruly, HeldTruly, H!Insert
  <2>4. CASE HeldTruly(components, c) /\ probe[p].name # c
    BY <1>1, <2>1, <2>4 DEF ToldTruly, HeldTruly, H!Insert
  <2>5. CASE c \in probe[p].left /\ probe[p].name # c
    BY <1>1, <2>1, <2>5 DEF ToldTruly
  <2> QED BY <1>1, <2>2, <2>3, <2>4, <2>5 DEF ToldTruly
<1>4. AnsweredInv'
  BY <1>1 DEF AnsweredInv, HeldTruly
<1> QED BY <1>1, <1>2, <1>3, <1>4

LEMMA HealthStep == NamesAssumption /\ HealthInv /\ [H!Next]_health => HealthInv'
<1> SUFFICES ASSUME NamesAssumption, HealthInv, [H!Next]_health PROVE HealthInv'
  OBVIOUS
<1>1. ASSUME NEW p \in Probes, H!ProbeStep(p)
      PROVE  HealthInv'
  <2>1. CASE H!CheckHealth(p)
    BY <2>1, HealthCheck
  <2>2. CASE H!RunCheck(p)
    BY <2>2, HealthRun
  <2>3. CASE H!WriteResult(p)
    BY <2>3, HealthWrite
  <2>4. CASE H!Collect(p)
    <3>1. /\ UNCHANGED <<components, actual, overlapped, steady>>
          /\ probe[p].pc = "run" /\ probe[p].left = {}
          /\ DOMAIN probe' = Probes
          /\ \A q \in Probes \ {p} : probe'[q] = probe[q]
          /\ probe'[p].pc = "answered" /\ probe'[p].answer = components
      BY <2>4 DEF H!Collect, H!Idle, HealthInv, ProbeDomains
    <3> QED BY <3>1 DEF HealthInv, ProbeDomains, AloneInv, RunningInv, AnsweredInv, ToldTruly,
                        HeldTruly, H!Running
  <2> QED BY <1>1, <2>1, <2>2, <2>3, <2>4 DEF H!ProbeStep
<1>2. ASSUME NEW d \in Pushed, H!UpdateComponent(d)
      PROVE  HealthInv'
  <2>1. /\ UNCHANGED <<actual, probe, overlapped, steady>>
        /\ \A c \in Checked : HeldTruly(components, c) => HeldTruly(components, c)'
    BY <1>2 DEF H!UpdateComponent, H!Insert, HeldTruly, NamesAssumption
  <2> QED BY <2>1 DEF HealthInv, ProbeDomains, AloneInv, RunningInv, AnsweredInv, ToldTruly,
                      HeldTruly, H!Running
<1>3. ASSUME NEW d \in Checked \cup Placeholders, H!RegisterCheck(d)
      PROVE  HealthInv'
  BY <1>3 DEF H!RegisterCheck, HealthInv, ProbeDomains, AloneInv, RunningInv, AnsweredInv,
              ToldTruly, HeldTruly, H!Running
<1>4. ASSUME NEW d \in Checked, H!Change(d)
      PROVE  HealthInv'
  <2>1. /\ UNCHANGED <<components, probe, overlapped>>
        /\ actual' \in [Checked -> {"Up", "Down"}]
        /\ \A c \in Checked \ {d} : actual'[c] = actual[c]
        /\ DOMAIN steady' = Probes
        /\ \A p \in Probes : steady'[p] = steady[p] \ {d}
    BY <1>4 DEF H!Change, HealthInv, ProbeDomains
  <2> QED BY <2>1 DEF HealthInv, ProbeDomains, AloneInv, RunningInv, AnsweredInv, ToldTruly,
                      HeldTruly, H!Running
<1>5. CASE UNCHANGED health
  BY <1>5 DEF health, HealthInv, ProbeDomains, AloneInv, RunningInv, AnsweredInv, ToldTruly,
              HeldTruly, H!Running
<1> QED BY <1>1, <1>2, <1>3, <1>4, <1>5 DEF H!Next

(* A probe that ran alone tells the truth of every component that its      *)
(* checks ask and that did not change meanwhile, and what /health/ready    *)
(* and is_ready() make of it is right: check_health().                     *)
THEOREM LoneProbesAreRight == H!Spec => []LoneProbeTellsTruth
<1>1. H!Spec => []HealthInv
  BY HealthInit, HealthStep, NamesAssumption, PTL DEF H!Spec, H!vars, health
<1> QED BY <1>1, HealthTruth, PTL

-----------------------------------------------------------------------------
(* The use cases.  A creation has its order to itself until it returns,    *)
(* and only what it made is filled or cancelled: that is why a row once    *)
(* stored stays, and why a creation that reaches its end stored and sent.  *)

PositionDraft == [side : {"Long", "Short"}, quantity : Nat, realized : Int]

Kinds == {"create", "fill", "cancel", "close"}

CallerOk(c) ==
  LET at == caller[c] IN
    /\ at.pc \in {"open", "submit"} => at.kind = "create"
    /\ at.pc = "find" => at.kind # "create"
    /\ at.pc = "withdraw" => at.kind = "cancel"
    /\ at.pc = "price" => at.kind = "close"
    /\ at.pc = "save" => at.kind \in Kinds
    /\ at.pc \in {"price", "save"} /\ at.kind = "close" => at.draft \in PositionDraft
    /\ at.pc \in {"withdraw", "save"} /\ at.kind # "close" => at.draft \in Order
    /\ at.pc = "open" => at.qty = OrderQty

UseCaseType == TypeOK /\ \A c \in Callers : CallerOk(c)

Pcs == {"idle", "find", "open", "save", "submit", "withdraw", "price", "notify"}

Drafts == Order \cup PositionDraft \cup {NoDraft}

LEMMA GotoFields ==
  ASSUME caller \in [Callers -> Call], NEW c \in Callers, NEW pc \in Pcs, NEW draft \in Drafts,
         Goto(c, pc, draft)
  PROVE  /\ caller' \in [Callers -> Call]
         /\ \A d \in Callers \ {c} : caller'[d] = caller[d]
         /\ caller'[c] = [pc |-> pc, kind |-> caller[c].kind, order |-> caller[c].order,
                          qty |-> caller[c].qty, draft |-> draft]
<1>1. [pc |-> pc, kind |-> caller[c].kind, order |-> caller[c].order,
       qty |-> caller[c].qty, draft |-> draft] \in Call
  BY DEF Call, Pcs, Drafts, PositionDraft
<1> QED BY <1>1 DEF Goto

LEMMA ReturnFields ==
  ASSUME TypeOK, NEW c \in Callers, NEW outcome \in {"ok", "failed"}, Return(c, outcome)
  PROVE  /\ caller' \in [Callers -> Call]
         /\ \A d \in Callers \ {c} : caller'[d] = caller[d]
         /\ caller'[c].pc = "idle" /\ CallerOk(c)'
         /\ created' \in [Orders -> {"no", "working", "ok", "failed"}]
         /\ ~Creating(c) => created' = created
         /\ Creating(c) => created' = [created EXCEPT ![caller[c].order] = outcome]
<1>1. "idle" \in Pcs /\ NoDraft \in Drafts /\ Goto(c, "idle", NoDraft)
  BY DEF Pcs, Drafts, Return
<1>2. /\ caller' \in [Callers -> Call]
      /\ \A d \in Callers \ {c} : caller'[d] = caller[d]
      /\ caller'[c].pc = "idle"
  <2>1. caller \in [Callers -> Call]
    BY DEF TypeOK
  <2>2. /\ caller' \in [Callers -> Call]
        /\ \A d \in Callers \ {c} : caller'[d] = caller[d]
        /\ caller'[c] = [pc |-> "idle", kind |-> caller[c].kind, order |-> caller[c].order,
                         qty |-> caller[c].qty, draft |-> NoDraft]
    BY <1>1, <2>1, GotoFields
  <2> QED BY <2>2
<1>3. CallerOk(c)'
  BY <1>2 DEF CallerOk
<1>4. created' \in [Orders -> {"no", "working", "ok", "failed"}]
  BY DEF Return, TypeOK, Call
<1> QED BY <1>2, <1>3, <1>4 DEF Return

(* What a new use case begins with.                                        *)
LEMMA BeginFields ==
  ASSUME TypeOK, NEW c \in Callers, NEW pc \in {"open", "find"}, NEW kind \in Kinds,
         NEW o \in Orders, NEW qty \in Nat, Begin(c, pc, kind, o, qty)
  PROVE  /\ caller[c].pc = "idle"
         /\ caller' \in [Callers -> Call]
         /\ \A d \in Callers \ {c} : caller'[d] = caller[d]
         /\ caller'[c] = [pc |-> pc, kind |-> kind, order |-> o, qty |-> qty, draft |-> NoDraft]
         /\ attempt' \in [Callers -> 1..MaxRetries + 1] /\ made' \in 0..MaxCalls
         /\ UNCHANGED <<orderRows, positionRow, sent, withdrawn, faults>>
<1>1. [pc |-> pc, kind |-> kind, order |-> o, qty |-> qty, draft |-> NoDraft] \in Call
  BY DEF Call, Kinds
<1>2. 1 \in 1..MaxRetries + 1
  BY UseCaseAssumption
<1>3. attempt' \in [Callers -> 1..MaxRetries + 1]
  BY <1>2 DEF Begin, TypeOK
<1>4. made' \in 0..MaxCalls
  BY UseCaseAssumption DEF Begin, TypeOK
<1> QED BY <1>1, <1>3, <1>4 DEF Begin, TypeOK, tables, market

(* What a write does to the tables.                                        *)
LEMMA WrittenRows ==
  ASSUME UseCaseType, NEW c \in Callers, caller[c].pc = "save", Written(c)
  PROVE  /\ orderRows' \in [Orders -> Order \cup {NoRow}] /\ positionRow' \in PositionRow
         /\ caller[c].kind = "close" => orderRows' = orderRows
         /\ caller[c].kind # "close" =>
              /\ orderRows'[caller[c].order] # NoRow
              /\ \A o \in Orders \ {caller[c].order} : orderRows'[o] = orderRows[o]
              /\ orderRows'[caller[c].order].status = caller[c].draft.status
<1>1. CASE caller[c].kind = "close"
  <2>1. caller[c].draft \in PositionDraft
    BY <1>1 DEF UseCaseType, CallerOk
  <2>2. UpsertPosition(caller[c].draft) \in PositionRow
    BY <2>1 DEF UpsertPosition, PositionDraft, PositionRow
  <2> QED BY <1>1, <2>2 DEF Written, UseCaseType, TypeOK
<1>2. CASE caller[c].kind # "close"
  <2>1. caller[c].draft \in Order /\ caller[c].order \in Orders
    BY <1>2 DEF UseCaseType, CallerOk, TypeOK, Call
  <2>2. /\ OrderRow(caller[c].draft) \in Order
        /\ OrderRow(caller[c].draft).status = caller[c].draft.status
    BY <2>1 DEF OrderRow, Order
  <2>3. OrderRow(caller[c].draft) # NoRow
    BY <2>2, RowAssumption DEF Order
  <2>4. /\ positionRow' = positionRow
        /\ orderRows' = [orderRows EXCEPT ![caller[c].order] = OrderRow(caller[c].draft)]
    BY <1>2 DEF Written, SaveOrder
  <2>5. orderRows \in [Orders -> Order \cup {NoRow}] /\ positionRow \in PositionRow
    BY DEF UseCaseType, TypeOK
  <2> QED BY <1>2, <2>1, <2>2, <2>3, <2>4, <2>5 DEF Found
<1> QED BY <1>1, <1>2

LEMMA UseCaseTypeInit == Init => UseCaseType
<1> SUFFICES ASSUME Init PROVE UseCaseType
  OBVIOUS
<1>1. (CHOOSE o \in Orders : TRUE) \in Orders
  BY UseCaseAssumption
<1>2. Idle(CHOOSE o \in Orders : TRUE) \in Call
  BY <1>1 DEF Idle, Call
<1>3. caller \in [Callers -> Call] /\ \A c \in Callers : caller[c].pc = "idle"
  <2> DEFINE idle == Idle(CHOOSE o \in Orders : TRUE)
  <2>1. caller \in [Callers -> {idle}]
    BY DEF Init
  <2>2. idle \in Call /\ idle.pc = "idle"
    BY <1>2 DEF Idle
  <2> HIDE DEF idle
  <2> QED BY <2>1, <2>2
<1>4. positionRow \in PositionRow
  <2>1. PICK side \in {"Long", "Short"} :
          positionRow = [side |-> side, quantity |-> PositionQty, realized |-> 0, open |-> TRUE]
    BY DEF Init
  <2> QED BY <2>1, UseCaseAssumption DEF PositionRow
<1>5. attempt \in [Callers -> 1..MaxRetries + 1] /\ made \in 0..MaxCalls /\ faults \in 0..MaxFaults
  BY UseCaseAssumption DEF Init
<1> QED BY <1>3, <1>4, <1>5 DEF Init, UseCaseType, TypeOK, CallerOk

LEMMA OthersOk ==
  ASSUME UseCaseType, NEW c \in Callers, \A d \in Callers \ {c} : caller'[d] = caller[d],
         CallerOk(c)'
  PROVE  \A d \in Callers : CallerOk(d)'
BY DEF UseCaseType, CallerOk

LEMMA MovesOk ==
  ASSUME UseCaseType, NEW c \in Callers, NEW pc \in Pcs, NEW draft \in Drafts,
         Goto(c, pc, draft),
         CallerOk(c)'
  PROVE  caller' \in [Callers -> Call] /\ \A d \in Callers : CallerOk(d)'
<1>1. caller \in [Callers -> Call]
  BY DEF UseCaseType, TypeOK
<1>2. /\ caller' \in [Callers -> Call]
      /\ \A d \in Callers \ {c} : caller'[d] = caller[d]
  BY <1>1, GotoFields
<1> QED BY <1>2, OthersOk

LEMMA FaultyOk == ASSUME TypeOK, Faulty PROVE faults' \in 0..MaxFaults
BY UseCaseAssumption DEF TypeOK, Faulty

(* What a use case has in hand when it goes on.                            *)
LEMMA DraftsOk ==
  ASSUME UseCaseType, NEW c \in Callers
  PROVE  /\ caller[c].draft \in Drafts
         /\ caller[c].pc = "open" => OrderNew(caller[c].qty) \in Order
         /\ Found(orderRows, caller[c].order) /\ caller[c].pc = "find" =>
              /\ OrderOf(orderRows[caller[c].order]) \in Order
              /\ CancelOrder(OrderOf(orderRows[caller[c].order])) \in Order
              /\ CanFill(OrderOf(orderRows[caller[c].order]), caller[c].qty) =>
                   FillOrder(OrderOf(orderRows[caller[c].order]), caller[c].qty) \in Order
         /\ PositionOf(positionRow) \in PositionDraft
         /\ caller[c].pc = "price" => \A gain \in {-1, 1} :
              Booked(caller[c].draft, caller[c].qty, gain) \in PositionDraft
<1>1. caller[c] \in Call /\ CallerOk(c)
  BY DEF UseCaseType, TypeOK
<1>2. caller[c].draft \in Drafts
  BY <1>1 DEF Call, Drafts, PositionDraft
<1>3. caller[c].pc = "open" => OrderNew(caller[c].qty) \in Order
  BY <1>1, UseCaseAssumption DEF CallerOk, OrderNew, Order, OrderStatus
<1>4. ASSUME Found(orderRows, caller[c].order)
      PROVE  /\ OrderOf(orderRows[caller[c].order]) \in Order
             /\ CancelOrder(OrderOf(orderRows[caller[c].order])) \in Order
             /\ CanFill(OrderOf(orderRows[caller[c].order]), caller[c].qty) =>
                  FillOrder(OrderOf(orderRows[caller[c].order]), caller[c].qty) \in Order
  <2> DEFINE row == orderRows[caller[c].order]
  <2>1. row \in Order
    BY <1>1, <1>4 DEF Call, Found, UseCaseType, TypeOK
  <2>2. caller[c].qty \in Nat
    BY <1>1 DEF Call
  <2> HIDE DEF row
  <2> QED BY <2>1, <2>2 DEF row, OrderOf, OrderNewWithId, CancelOrder, FillOrder, Order,
     OrderStatus
<1>5. PositionOf(positionRow) \in PositionDraft
  BY DEF UseCaseType, TypeOK, PositionOf, PositionRow, PositionDraft
<1>6. ASSUME caller[c].pc = "price", NEW gain \in {-1, 1}
      PROVE  Booked(caller[c].draft, caller[c].qty, gain) \in PositionDraft
  <2>1. caller[c].draft \in PositionDraft /\ caller[c].qty \in Nat
    BY <1>1, <1>6 DEF CallerOk, Call
  <2> QED BY <2>1 DEF Booked, PositionDraft
<1> QED BY <1>2, <1>3, <1>4, <1>5, <1>6

LEMMA UseCaseTypeCalls ==
  ASSUME UseCaseType, NEW c \in Callers, Create(c) \/ Fill(c) \/ Cancel(c) \/ Close(c)
  PROVE  UseCaseType'
<1> DEFINE Begun(pc, kind, o, qty) ==
      /\ Begin(c, pc, kind, o, qty) /\ created' \in [Orders -> {"no", "working", "ok", "failed"}]
      /\ pc = "open" => kind = "create" /\ qty = OrderQty
      /\ pc = "find" => kind # "create"
<1>1. \E pc \in {"open", "find"}, kind \in Kinds, o \in Orders, qty \in Nat : Begun(pc, kind, o, qty)
  <2>1. created \in [Orders -> {"no", "working", "ok", "failed"}]
    BY DEF UseCaseType, TypeOK
  <2>2. CASE Create(c)
    <3>1. PICK o \in Orders :
            created' = [created EXCEPT ![o] = "working"] /\ Begin(c, "open", "create", o, OrderQty)
      BY <2>2 DEF Create
    <3>2. created' \in [Orders -> {"no", "working", "ok", "failed"}]
      BY <2>1, <3>1
    <3>3. OrderQty \in Nat /\ "create" \in Kinds
      BY UseCaseAssumption DEF Kinds
    <3> QED BY <3>1, <3>2, <3>3
  <2>3. CASE Fill(c)
    <3>1. PICK o \in Orders, qty \in 1..OrderQty + 1 :
            Begin(c, "find", "fill", o, qty) /\ UNCHANGED created
      BY <2>3 DEF Fill
    <3>2. qty \in Nat /\ "fill" \in Kinds
      BY UseCaseAssumption DEF Kinds
    <3> QED BY <2>1, <3>1, <3>2
  <2>4. CASE Cancel(c)
    <3>1. PICK o \in Orders : Begin(c, "find", "cancel", o, OrderQty) /\ UNCHANGED created
      BY <2>4 DEF Cancel
    <3>2. OrderQty \in Nat /\ "cancel" \in Kinds
      BY UseCaseAssumption DEF Kinds
    <3> QED BY <2>1, <3>1, <3>2
  <2>5. CASE Close(c)
    <3>1. PICK qty \in 1..PositionQty :
            Begin(c, "find", "close", CHOOSE o \in Orders : TRUE, qty) /\ UNCHANGED created
      BY <2>5 DEF Close
    <3>2. qty \in Nat /\ "close" \in Kinds /\ (CHOOSE o \in Orders : TRUE) \in Orders
      BY UseCaseAssumption DEF Kinds
    <3> QED BY <2>1, <3>1, <3>2
  <2> QED BY <2>2, <2>3, <2>4, <2>5
<1>2. PICK pc \in {"open", "find"}, kind \in Kinds, o \in Orders, qty \in Nat : Begun(pc, kind, o, qty)
  BY <1>1
<1>3. TypeOK
  BY DEF UseCaseType
<1>4. /\ caller' \in [Callers -> Call]
      /\ \A d \in Callers \ {c} : caller'[d] = caller[d]
      /\ caller'[c] = [pc |-> pc, kind |-> kind, order |-> o, qty |-> qty, draft |-> NoDraft]
      /\ attempt' \in [Callers -> 1..MaxRetries + 1] /\ made' \in 0..MaxCalls
      /\ UNCHANGED <<orderRows, positionRow, sent, withdrawn, faults>>
  BY <1>2, <1>3, BeginFields
<1>5. CallerOk(c)'
  BY <1>2, <1>4 DEF CallerOk
<1>6. \A d \in Callers : CallerOk(d)'
  BY <1>4, <1>5, OthersOk
<1>7. TypeOK'
  BY <1>2, <1>3, <1>4 DEF TypeOK
<1> QED BY <1>6, <1>7 DEF UseCaseType

(* A step of a use case leaves the types: the caller's next step has in    *)
(* hand what it needs.                                                     *)
LEMMA UseCaseTypeMoves ==
  ASSUME UseCaseType, NEW c \in Callers,
         \/ MarketOpen(c) \/ FindToFill(c) \/ FindToCancel(c) \/ FindPosition(c)
         \/ PriceAndClose(c) \/ Withdraw(c) \/ Save(c) \/ Submit(c)
  PROVE  UseCaseType'
<1> DEFINE Moved(pc, draft) ==
      /\ Goto(c, pc, draft)
      /\ pc = "open" => FALSE
      /\ pc = "find" => FALSE
      /\ pc = "submit" => caller[c].kind = "create"
      /\ pc = "withdraw" => caller[c].kind = "cancel" /\ draft \in Order
      /\ pc = "price" => caller[c].kind = "close" /\ draft \in PositionDraft
      /\ pc = "save" => draft \in IF caller[c].kind = "close" THEN PositionDraft ELSE Order
<1> USE DEF UseCaseType
<1>1. TypeOK /\ caller[c] \in Call /\ CallerOk(c)
  BY DEF TypeOK
<1>2. \E pc \in Pcs, draft \in Drafts : Moved(pc, draft)
  <2> "idle" \in Pcs /\ "save" \in Pcs /\ "submit" \in Pcs /\ "withdraw" \in Pcs
      /\ "price" \in Pcs /\ "notify" \in Pcs
    BY DEF Pcs
  <2> NoDraft \in Drafts /\ Order \subseteq Drafts /\ PositionDraft \subseteq Drafts
      /\ caller[c].draft \in Drafts
    BY DraftsOk DEF Drafts
  <2>1. CASE MarketOpen(c)
    <3>1. OrderNew(caller[c].qty) \in Order
      BY <2>1, DraftsOk DEF MarketOpen
    <3>2. Moved("save", OrderNew(caller[c].qty))
      BY <1>1, <2>1, <3>1 DEF MarketOpen, CallerOk
    <3> QED BY <3>1, <3>2
  <2>2. CASE FindToFill(c)
    <3> DEFINE order == OrderOf(orderRows[caller[c].order])
               filled == FillOrder(order, caller[c].qty)
    <3>1. /\ caller[c].pc = "find" /\ caller[c].kind = "fill" /\ Found(orderRows, caller[c].order)
          /\ IF CanFill(order, caller[c].qty) THEN Goto(c, "save", filled) ELSE Goto(c, "idle", NoDraft)
      BY <2>2 DEF FindToFill
    <3>2. CanFill(order, caller[c].qty) => filled \in Order
      BY <3>1, DraftsOk
    <3> HIDE DEF order, filled
    <3>3. CanFill(order, caller[c].qty) => Moved("save", filled)
      BY <3>1, <3>2
    <3>4. ~CanFill(order, caller[c].qty) => Moved("idle", NoDraft)
      BY <3>1
    <3> QED BY <3>2, <3>3, <3>4
  <2>3. CASE FindToCancel(c)
    <3> DEFINE order == OrderOf(orderRows[caller[c].order])
    <3>1. /\ caller[c].pc = "find" /\ caller[c].kind = "cancel" /\ Found(orderRows, caller[c].order)
          /\ IF IsActive(order.status) THEN Goto(c, "withdraw", CancelOrder(order))
                                       ELSE Goto(c, "idle", NoDraft)
      BY <2>3 DEF FindToCancel
    <3>2. CancelOrder(order) \in Order
      BY <3>1, DraftsOk
    <3> HIDE DEF order
    <3>3. IsActive(order.status) => Moved("withdraw", CancelOrder(order))
      BY <3>1, <3>2
    <3>4. ~IsActive(order.status) => Moved("idle", NoDraft)
      BY <3>1
    <3> QED BY <3>2, <3>3, <3>4
  <2>4. CASE FindPosition(c)
    <3>1. PositionOf(positionRow) \in PositionDraft
      BY DraftsOk
    <3>2. Moved("price", PositionOf(positionRow))
      BY <2>4, <3>1 DEF FindPosition
    <3> QED BY <3>1, <3>2
  <2>5. CASE PriceAndClose(c)
    <3>1. caller[c].pc = "price" /\ caller[c].kind = "close"
      BY <1>1, <2>5 DEF PriceAndClose, CallerOk
    <3>2. CASE Goto(c, "idle", NoDraft)
      BY <3>2
    <3>3. ASSUME NEW gain \in {-1, 1}, Goto(c, "save", Booked(caller[c].draft, caller[c].qty,
                 gain))
          PROVE  \E pc \in Pcs, draft \in Drafts : Moved(pc, draft)
      <4>1. Booked(caller[c].draft, caller[c].qty, gain) \in PositionDraft
        BY <3>1, DraftsOk
      <4>2. Moved("save", Booked(caller[c].draft, caller[c].qty, gain))
        BY <3>1, <3>3, <4>1
      <4> QED BY <4>1, <4>2
    <3> QED BY <2>5, <3>2, <3>3 DEF PriceAndClose
  <2>6. CASE Withdraw(c)
    <3>1. Moved("save", caller[c].draft)
      BY <1>1, <2>6 DEF Withdraw, CallerOk
    <3> QED BY <3>1
  <2>7. CASE Save(c)
    <3>1. Moved(AfterSave(c), caller[c].draft) /\ AfterSave(c) \in Pcs
      BY <2>7 DEF Save, AfterSave, Creating
    <3> QED BY <3>1
  <2>8. CASE Submit(c)
    <3>1. Moved("notify", caller[c].draft)
      BY <2>8 DEF Submit
    <3> QED BY <3>1
  <2> QED BY <2>1, <2>2, <2>3, <2>4, <2>5, <2>6, <2>7, <2>8
<1>3. PICK pc \in Pcs, draft \in Drafts : Moved(pc, draft)
  BY <1>2
<1>4. caller[c].kind \in Kinds
  BY <1>1 DEF Call, Kinds
<1>5. /\ caller'[c].pc = pc /\ caller'[c].kind = caller[c].kind /\ caller'[c].draft = draft
  <2>1. caller \in [Callers -> Call]
    BY <1>1 DEF TypeOK
  <2>2. caller'[c] = [pc |-> pc, kind |-> caller[c].kind, order |-> caller[c].order,
                      qty |-> caller[c].qty, draft |-> draft]
    BY <1>3, <2>1, GotoFields
  <2> QED BY <2>2
<1>6. CallerOk(c)'
  BY <1>3, <1>4, <1>5 DEF CallerOk
<1>7. caller' \in [Callers -> Call] /\ \A d \in Callers : CallerOk(d)'
  BY <1>3, <1>6, MovesOk
<1>8. caller[c].order \in Orders
  BY <1>1 DEF Call
<1>9. /\ orderRows' \in [Orders -> Order \cup {NoRow}] /\ positionRow' \in PositionRow
      /\ sent' \subseteq Orders /\ withdrawn' \subseteq Orders
      /\ UNCHANGED <<created, attempt, made, faults>>
  <2>1. CASE Save(c)
    BY <1>1, <2>1, WrittenRows DEF Save, TypeOK, market
  <2>2. CASE ~Save(c)
    BY <1>1, <1>8, <2>2 DEF MarketOpen, FindToFill, FindToCancel, FindPosition, PriceAndClose,
       Withdraw, Submit, TypeOK, market, tables
  <2> QED BY <2>1, <2>2
<1> QED BY <1>1, <1>7, <1>9 DEF TypeOK

(* So does one that returns to its caller or tries again.                  *)
LEMMA UseCaseTypeReturns ==
  ASSUME UseCaseType, NEW c \in Callers,
         \/ PortFails(c) \/ NoSuchOrder(c) \/ MarketClosed(c) \/ WithdrawFails(c) \/ SaveFails(c)
         \/ SaveTransient(c) \/ PositionAnswerLost(c) \/ SubmitFails(c) \/ Notify(c)
  PROVE  UseCaseType'
<1> USE DEF UseCaseType
<1>1. TypeOK /\ caller[c] \in Call /\ caller[c].order \in Orders
  BY DEF TypeOK, Call
<1>2. \/ \E outcome \in {"ok", "failed"} : Return(c, outcome) /\ UNCHANGED attempt
      \/ UNCHANGED <<caller, created>> /\ attempt' \in [Callers -> 1..MaxRetries + 1]
  <2>1. CASE SaveTransient(c)
    <3>1. CASE attempt[c] < Attempts(c)
      BY <1>1, <2>1, <3>1, UseCaseAssumption DEF SaveTransient, Attempts, TypeOK
    <3>2. CASE ~(attempt[c] < Attempts(c))
      BY <2>1, <3>2 DEF SaveTransient
    <3> QED BY <3>1, <3>2
  <2>2. CASE ~SaveTransient(c)
    BY <2>2 DEF PortFails, NoSuchOrder, MarketClosed, WithdrawFails, SaveFails,
         PositionAnswerLost,
       SubmitFails,
       Notify
  <2> QED BY <2>1, <2>2
<1> DEFINE Typed ==
      /\ caller' \in [Callers -> Call] /\ \A d \in Callers : CallerOk(d)'
      /\ created' \in [Orders -> {"no", "working", "ok", "failed"}]
      /\ attempt' \in [Callers -> 1..MaxRetries + 1]
<1>3. Typed
  <2>1. ASSUME NEW outcome \in {"ok", "failed"}, Return(c, outcome), UNCHANGED attempt
        PROVE  Typed
    <3>1. /\ caller' \in [Callers -> Call]
          /\ \A d \in Callers \ {c} : caller'[d] = caller[d]
          /\ CallerOk(c)'
          /\ created' \in [Orders -> {"no", "working", "ok", "failed"}]
      BY <1>1, <2>1, ReturnFields
    <3>2. \A d \in Callers : CallerOk(d)'
      BY <3>1, OthersOk
    <3> QED BY <1>1, <2>1, <3>1, <3>2 DEF TypeOK
  <2>2. CASE UNCHANGED <<caller, created>> /\ attempt' \in [Callers -> 1..MaxRetries + 1]
    BY <1>1, <2>2 DEF TypeOK, CallerOk
  <2> QED BY <1>2, <2>1, <2>2
<1>4. faults' \in 0..MaxFaults /\ made' = made
  <2>1. Faulty \/ faults' = faults
    BY DEF PortFails, NoSuchOrder, MarketClosed, WithdrawFails, SaveFails, SaveTransient,
       PositionAnswerLost, SubmitFails, Notify
  <2>2. made' = made
    BY DEF PortFails, NoSuchOrder, MarketClosed, WithdrawFails, SaveFails, SaveTransient,
       PositionAnswerLost, SubmitFails, Notify
  <2> QED BY <1>1, <2>1, <2>2, FaultyOk DEF TypeOK
<1>5. orderRows' \in [Orders -> Order \cup {NoRow}] /\ positionRow' \in PositionRow
  <2>1. (Written(c) /\ caller[c].pc = "save") \/ UNCHANGED <<orderRows, positionRow>>
    BY DEF PortFails, NoSuchOrder, MarketClosed, WithdrawFails, SaveFails, SaveTransient,
       PositionAnswerLost, SubmitFails, Notify, tables
  <2> QED BY <1>1, <2>1, WrittenRows DEF TypeOK
<1>6. sent' \subseteq Orders /\ withdrawn' \subseteq Orders
  BY <1>1 DEF PortFails, NoSuchOrder, MarketClosed, WithdrawFails, SaveFails, SaveTransient,
     PositionAnswerLost, SubmitFails, Notify, market, TypeOK
<1> QED BY <1>1, <1>3, <1>4, <1>5, <1>6 DEF TypeOK

LEMMA UseCaseTypeStep == UseCaseType /\ [Next]_vars => UseCaseType'
<1> SUFFICES ASSUME UseCaseType, [Next]_vars PROVE UseCaseType'
  OBVIOUS
<1>1. ASSUME NEW c \in Callers, Create(c) \/ Fill(c) \/ Cancel(c) \/ Close(c) \/ Step(c)
      PROVE  UseCaseType'
  BY <1>1, UseCaseTypeCalls, UseCaseTypeMoves, UseCaseTypeReturns DEF Step
<1>2. CASE UNCHANGED vars
  BY <1>2 DEF vars, tables, market, UseCaseType, TypeOK, CallerOk
<1> QED BY <1>1, <1>2 DEF Next

LEMMA UseCaseTypeAlways == Spec => []UseCaseType
BY UseCaseTypeInit, UseCaseTypeStep, PTL DEF Spec

(* Each variable of the use cases holds what its type says, at every step  *)
(* and whatever fails: what is in hand when a row is written is an order,  *)
(* or a position if the use case closes one.                               *)
THEOREM UseCasesAreTyped == Spec => []TypeOK
<1>1. UseCaseType => TypeOK
  BY DEF UseCaseType
<1> QED BY <1>1, UseCaseTypeAlways, PTL

StoredInv ==
  \A o \in Orders :
    /\ o \in sent => Found(orderRows, o)
    /\ created[o] = "no" => ~Found(orderRows, o)
    /\ created[o] = "ok" => Found(orderRows, o) /\ o \in sent

Busy(c, kinds) == caller[c].pc # "idle" /\ caller[c].kind \in kinds

CreatingInv ==
  \A c \in Callers : Busy(c, {"create"}) =>
    /\ created[caller[c].order] = "working"
    /\ caller[c].pc \in {"submit", "notify"} => Found(orderRows, caller[c].order)
    /\ caller[c].pc = "notify" => caller[c].order \in sent

OneCreator ==
  \A c, d \in Callers :
    Busy(c, {"create"}) /\ Busy(d, {"create"}) /\ caller[c].order = caller[d].order => c = d

ChangingInv ==
  \A c \in Callers :
    Busy(c, {"fill", "cancel"}) /\ caller[c].pc # "find" => Found(orderRows, caller[c].order)

CancelInHand ==
  \A c \in Callers :
    /\ caller[c].pc = "save" /\ caller[c].kind # "close" /\ caller[c].draft.status = "Cancelled"
    => caller[c].order \in withdrawn

StoreInv ==
  UseCaseType /\ StoredInv /\ CreatingInv /\ OneCreator /\ ChangingInv

(* What a step of a use case may do, told from where its caller is.        *)
RowsEffect(c) ==
  \/ orderRows' = orderRows
  \/ /\ caller[c].pc = "save" /\ caller[c].kind # "close"
     /\ orderRows'[caller[c].order] # NoRow
     /\ orderRows'[caller[c].order].status = caller[c].draft.status
     /\ \A o \in Orders \ {caller[c].order} : orderRows'[o] = orderRows[o]

MarketEffect(c) ==
  /\ \/ sent' = sent
     \/ caller[c].pc = "submit" /\ sent' = sent \cup {caller[c].order}
  /\ withdrawn \subseteq withdrawn'

CreatedEffect(c) ==
  \/ created' = created
  \/ /\ caller[c].kind = "create" /\ caller'[c].pc = "idle"
     /\ \/ created' = [created EXCEPT ![caller[c].order] = "failed"]
        \/ created' = [created EXCEPT ![caller[c].order] = "ok"] /\ caller[c].pc = "notify"

CallerEffect(c) ==
  /\ caller[c].pc # "idle"
  /\ \A d \in Callers \ {c} : caller'[d] = caller[d]
  /\ caller'[c].kind = caller[c].kind /\ caller'[c].order = caller[c].order
  /\ caller[c].kind \in {"fill", "cancel"} /\ caller[c].pc = "find" /\ caller'[c].pc # "idle" =>
       Found(orderRows, caller[c].order)
  /\ caller'[c].pc = "submit" => caller[c].pc = "save" /\ orderRows'[caller[c].order] # NoRow
  /\ caller'[c].pc = "notify" /\ caller[c].kind = "create" =>
       caller[c].pc = "submit" /\ caller[c].order \in sent'
  /\ caller'[c].pc = "save" /\ caller[c].kind # "close" /\ caller'[c].draft.status = "Cancelled" =>
       \/ caller[c].pc = "save" /\ caller'[c].draft = caller[c].draft
       \/ caller[c].order \in withdrawn'

LEMMA GotoEffect ==
  ASSUME UseCaseType, NEW c \in Callers, NEW pc \in Pcs, NEW draft \in Drafts, Goto(c, pc,
         draft)
  PROVE  /\ \A d \in Callers \ {c} : caller'[d] = caller[d]
         /\ caller'[c].pc = pc /\ caller'[c].kind = caller[c].kind
         /\ caller'[c].order = caller[c].order /\ caller'[c].draft = draft
<1>1. caller \in [Callers -> Call]
  BY DEF UseCaseType, TypeOK
<1>2. /\ \A d \in Callers \ {c} : caller'[d] = caller[d]
      /\ caller'[c] = [pc |-> pc, kind |-> caller[c].kind, order |-> caller[c].order,
                       qty |-> caller[c].qty, draft |-> draft]
  BY <1>1, GotoFields
<1> QED BY <1>2

LEMMA RowsOfStep == ASSUME UseCaseType, NEW c \in Callers, Step(c) PROVE RowsEffect(c)
<1>1. (Written(c) /\ caller[c].pc = "save") \/ orderRows' = orderRows
  BY DEF Step, PortFails, NoSuchOrder, MarketOpen, MarketClosed, FindToFill, FindToCancel,
     FindPosition, PriceAndClose, Withdraw, WithdrawFails, Save, SaveFails, SaveTransient, PositionAnswerLost,
     Submit, SubmitFails, Notify, tables
<1>2. CASE Written(c) /\ caller[c].pc = "save"
  <2>1. /\ caller[c].kind = "close" => orderRows' = orderRows
        /\ caller[c].kind # "close" =>
             /\ orderRows'[caller[c].order] # NoRow
             /\ \A o \in Orders \ {caller[c].order} : orderRows'[o] = orderRows[o]
             /\ orderRows'[caller[c].order].status = caller[c].draft.status
    BY <1>2, WrittenRows
  <2> QED BY <1>2, <2>1 DEF RowsEffect
<1>3. CASE orderRows' = orderRows
  BY <1>3 DEF RowsEffect
<1> QED BY <1>1, <1>2, <1>3

LEMMA MarketOfStep == ASSUME UseCaseType, NEW c \in Callers, Step(c) PROVE MarketEffect(c)
<1>1. CASE Submit(c) \/ SubmitFails(c)
  BY <1>1 DEF Submit, SubmitFails, MarketEffect
<1>2. CASE Withdraw(c) \/ WithdrawFails(c)
  BY <1>2 DEF Withdraw, WithdrawFails, MarketEffect
<1>3. ASSUME ~(Submit(c) \/ SubmitFails(c) \/ Withdraw(c) \/ WithdrawFails(c))
      PROVE  MarketEffect(c)
  <2>1. UNCHANGED market
    BY <1>3 DEF Step, PortFails, NoSuchOrder, MarketOpen, MarketClosed, FindToFill, FindToCancel,
       FindPosition,
       PriceAndClose, Save, SaveFails, SaveTransient, PositionAnswerLost, Notify
  <2> QED BY <2>1 DEF market, MarketEffect
<1> QED BY <1>1, <1>2, <1>3

LEMMA CallerOfStep ==
  ASSUME UseCaseType, NEW c \in Callers, Step(c)
  PROVE  CallerEffect(c) /\ CreatedEffect(c)
<1> DEFINE Effect == CallerEffect(c) /\ CreatedEffect(c)
<1> "idle" \in Pcs /\ "save" \in Pcs /\ "submit" \in Pcs /\ "withdraw" \in Pcs
    /\ "price" \in Pcs /\ "notify" \in Pcs
  BY DEF Pcs
<1> NoDraft \in Drafts /\ Order \subseteq Drafts /\ PositionDraft \subseteq Drafts
    /\ caller[c].draft \in Drafts
  BY DraftsOk DEF Drafts
<1> CallerOk(c)
  BY DEF UseCaseType
<1>1. ASSUME NEW outcome \in {"ok", "failed"}, Return(c, outcome), caller[c].pc # "idle",
             outcome = "ok" => caller[c].pc = "notify"
      PROVE  Effect
  <2>1. Goto(c, "idle", NoDraft)
    BY <1>1 DEF Return
  <2>2. CallerEffect(c)
    BY <1>1, <2>1, GotoEffect DEF CallerEffect
  <2>3. CreatedEffect(c)
    BY <1>1, <2>1, GotoEffect DEF Return, Creating, CreatedEffect
  <2> QED BY <2>2, <2>3
<1>2. CASE PortFails(c) \/ NoSuchOrder(c) \/ MarketClosed(c) \/ WithdrawFails(c) \/ SaveFails(c)
           \/ PositionAnswerLost(c) \/ SubmitFails(c) \/ Notify(c)
  <2>1. CASE Notify(c)
    BY <1>1, <2>1 DEF Notify
  <2>2. CASE ~Notify(c)
    <3>1. Return(c, "failed") /\ caller[c].pc # "idle"
      BY <1>2, <2>2 DEF PortFails, NoSuchOrder, MarketClosed, WithdrawFails, SaveFails,
         PositionAnswerLost,
         SubmitFails
    <3> QED BY <1>1, <3>1
  <2> QED BY <2>1, <2>2
<1>3. CASE SaveTransient(c)
  <2>1. CASE attempt[c] < Attempts(c)
    BY <1>3, <2>1 DEF SaveTransient, CallerEffect, CreatedEffect
  <2>2. CASE ~(attempt[c] < Attempts(c))
    <3>1. Return(c, "failed") /\ caller[c].pc # "idle"
      BY <1>3, <2>2 DEF SaveTransient
    <3> QED BY <1>1, <3>1
  <2> QED BY <2>1, <2>2
<1>4. CASE MarketOpen(c)
  <2>1. OrderNew(caller[c].qty) \in Order /\ OrderNew(caller[c].qty).status = "Pending"
    BY <1>4, DraftsOk DEF MarketOpen, OrderNew
  <2>2. /\ caller[c].pc = "open" /\ Goto(c, "save", OrderNew(caller[c].qty)) /\ created' = created
    BY <1>4 DEF MarketOpen
  <2>3. CallerEffect(c)
    BY <2>1, <2>2, GotoEffect DEF CallerEffect
  <2> QED BY <2>2, <2>3 DEF CreatedEffect
<1>5. CASE FindToFill(c)
  <2> DEFINE order == OrderOf(orderRows[caller[c].order])
             filled == FillOrder(order, caller[c].qty)
  <2>1. /\ caller[c].pc = "find" /\ Found(orderRows, caller[c].order) /\ created' = created
        /\ IF CanFill(order, caller[c].qty) THEN Goto(c, "save", filled) ELSE Goto(c, "idle", NoDraft)
    BY <1>5 DEF FindToFill
  <2>2. CanFill(order, caller[c].qty) => filled \in Order
    BY <2>1, DraftsOk
  <2>3. filled.status # "Cancelled"
    BY DEF FillOrder
  <2> HIDE DEF order, filled
  <2>4. CASE CanFill(order, caller[c].qty)
    <3>1. CallerEffect(c)
      BY <2>1, <2>2, <2>3, <2>4, GotoEffect DEF CallerEffect
    <3> QED BY <2>1, <3>1 DEF CreatedEffect
  <2>5. CASE ~CanFill(order, caller[c].qty)
    <3>1. CallerEffect(c)
      BY <2>1, <2>5, GotoEffect DEF CallerEffect
    <3> QED BY <2>1, <3>1 DEF CreatedEffect
  <2> QED BY <2>4, <2>5
<1>6. CASE FindToCancel(c)
  <2> DEFINE order == OrderOf(orderRows[caller[c].order])
  <2>1. /\ caller[c].pc = "find" /\ Found(orderRows, caller[c].order) /\ created' = created
        /\ IF IsActive(order.status) THEN Goto(c, "withdraw", CancelOrder(order))
                                     ELSE Goto(c, "idle", NoDraft)
    BY <1>6 DEF FindToCancel
  <2>2. CancelOrder(order) \in Order
    BY <2>1, DraftsOk
  <2> HIDE DEF order
  <2>3. CallerEffect(c)
    BY <2>1, <2>2, GotoEffect DEF CallerEffect
  <2> QED BY <2>1, <2>3 DEF CreatedEffect
<1>7. CASE FindPosition(c)
  <2>1. PositionOf(positionRow) \in Drafts
    BY DraftsOk
  <2>2. /\ caller[c].pc = "find" /\ caller[c].kind = "close" /\ created' = created
        /\ Goto(c, "price", PositionOf(positionRow))
    BY <1>7 DEF FindPosition
  <2>3. CallerEffect(c)
    BY <2>1, <2>2, GotoEffect DEF CallerEffect
  <2> QED BY <2>2, <2>3 DEF CreatedEffect
<1>8. CASE PriceAndClose(c)
  <2>1. caller[c].pc = "price" /\ caller[c].kind = "close" /\ created' = created
    BY <1>8 DEF PriceAndClose, CallerOk
  <2>2. CASE Goto(c, "idle", NoDraft)
    <3>1. CallerEffect(c)
      BY <2>1, <2>2, GotoEffect DEF CallerEffect
    <3> QED BY <2>1, <3>1 DEF CreatedEffect
  <2>3. ASSUME NEW gain \in {-1, 1}, Goto(c, "save", Booked(caller[c].draft, caller[c].qty,
               gain))
        PROVE  Effect
    <3>1. Booked(caller[c].draft, caller[c].qty, gain) \in Drafts
      BY <2>1, DraftsOk
    <3>2. CallerEffect(c)
      BY <2>1, <2>3, <3>1, GotoEffect DEF CallerEffect
    <3> QED BY <2>1, <3>2 DEF CreatedEffect
  <2> QED BY <1>8, <2>2, <2>3 DEF PriceAndClose
<1>9. CASE Withdraw(c)
  <2>1. /\ caller[c].pc = "withdraw" /\ Goto(c, "save", caller[c].draft) /\ created' = created
        /\ caller[c].order \in withdrawn'
    BY <1>9 DEF Withdraw
  <2>2. CallerEffect(c)
    BY <2>1, GotoEffect DEF CallerEffect
  <2> QED BY <2>1, <2>2 DEF CreatedEffect
<1>10. CASE Save(c)
  <2>1. /\ caller[c].pc = "save" /\ Goto(c, AfterSave(c), caller[c].draft) /\ created' = created
        /\ Written(c)
    BY <1>10 DEF Save
  <2>2. AfterSave(c) = (IF caller[c].kind = "create" THEN "submit" ELSE "notify")
    BY DEF AfterSave, Creating
  <2>3. caller[c].kind = "create" => orderRows'[caller[c].order] # NoRow
    BY <2>1, WrittenRows
  <2>4. CallerEffect(c)
    BY <2>1, <2>2, <2>3, GotoEffect DEF CallerEffect
  <2> QED BY <2>1, <2>4 DEF CreatedEffect
<1>11. CASE Submit(c)
  <2>1. /\ caller[c].pc = "submit" /\ Goto(c, "notify", caller[c].draft) /\ created' = created
        /\ caller[c].order \in sent'
    BY <1>11 DEF Submit
  <2>2. CallerEffect(c)
    BY <2>1, GotoEffect DEF CallerEffect
  <2> QED BY <2>1, <2>2 DEF CreatedEffect
<1> QED BY <1>2, <1>3, <1>4, <1>5, <1>6, <1>7, <1>8, <1>9, <1>10, <1>11 DEF Step

LEMMA StoreInit == Init => StoreInv
<1> SUFFICES ASSUME Init PROVE StoreInv
  OBVIOUS
<1>1. UseCaseType
  BY UseCaseTypeInit
<1>2. \A c \in Callers : caller[c].pc = "idle"
  <2> DEFINE idle == Idle(CHOOSE o \in Orders : TRUE)
  <2>1. caller \in [Callers -> {idle}] /\ idle.pc = "idle"
    BY DEF Init, Idle
  <2> HIDE DEF idle
  <2> QED BY <2>1
<1>3. StoredInv
  BY DEF Init, StoredInv, Found
<1> QED BY <1>1, <1>2, <1>3 DEF StoreInv, CreatingInv, OneCreator, ChangingInv, Busy

(* A use case that begins: only a creation claims an order, and only one   *)
(* that nobody has claimed.                                                *)
LEMMA StoreBegins ==
  ASSUME StoreInv, NEW c \in Callers, Create(c) \/ Fill(c) \/ Cancel(c) \/ Close(c)
  PROVE  StoreInv'
<1> USE DEF StoreInv
<1> DEFINE Begun(pc, kind, o, qty) ==
      /\ Begin(c, pc, kind, o, qty)
      /\ \/ pc = "open" /\ kind = "create" /\ created[o] = "no"
            /\ created' = [created EXCEPT ![o] = "working"]
         \/ pc = "find" /\ kind # "create" /\ created' = created
<1>1. UseCaseType'
  BY UseCaseTypeCalls
<1>2. \E pc \in {"open", "find"}, kind \in Kinds, o \in Orders, qty \in Nat : Begun(pc, kind, o, qty)
  <2>1. OrderQty \in Nat /\ PositionQty \in Nat /\ (CHOOSE o \in Orders : TRUE) \in Orders
    BY UseCaseAssumption
  <2> QED BY <2>1 DEF Create, Fill, Cancel, Close, Kinds
<1>3. PICK pc \in {"open", "find"}, kind \in Kinds, o \in Orders, qty \in Nat : Begun(pc, kind, o, qty)
  BY <1>2
<1>4. TypeOK
  BY DEF UseCaseType
<1>5. /\ caller[c].pc = "idle"
      /\ \A d \in Callers \ {c} : caller'[d] = caller[d]
      /\ caller'[c] = [pc |-> pc, kind |-> kind, order |-> o, qty |-> qty, draft |-> NoDraft]
      /\ UNCHANGED <<orderRows, sent>>
  BY <1>3, <1>4, BeginFields
<1>6. /\ caller'[c].pc = pc /\ caller'[c].kind = kind /\ caller'[c].order = o
  BY <1>5
<1>7. created \in [Orders -> {"no", "working", "ok", "failed"}]
  BY <1>4 DEF TypeOK
<1>8. StoredInv'
  BY <1>3, <1>5, <1>7 DEF StoredInv, Found
<1>9. \A d \in Callers \ {c} : caller[d].order \in Orders
  BY <1>4 DEF TypeOK, Call
<1>10. CreatingInv'
  BY <1>3, <1>5, <1>6, <1>7, <1>9 DEF CreatingInv, Busy, Found
<1>11. OneCreator'
  BY <1>3, <1>5, <1>6, <1>7 DEF OneCreator, CreatingInv, Busy
<1>12. ChangingInv'
  BY <1>3, <1>5, <1>6 DEF ChangingInv, Busy, Found
<1> QED BY <1>1, <1>8, <1>10, <1>11, <1>12

LEMMA StoreMoves ==
  ASSUME StoreInv, NEW c \in Callers, Step(c)
  PROVE  StoreInv'
<1> USE DEF StoreInv
<1> DEFINE o == caller[c].order
<1>1. UseCaseType'
  BY UseCaseTypeMoves, UseCaseTypeReturns DEF Step
<1>2. /\ RowsEffect(c) /\ MarketEffect(c) /\ CallerEffect(c) /\ CreatedEffect(c)
  BY RowsOfStep, MarketOfStep, CallerOfStep
<1>3. /\ created \in [Orders -> {"no", "working", "ok", "failed"}]
      /\ \A d \in Callers : caller[d].order \in Orders /\ CallerOk(d) /\ caller[d].kind \in Kinds
  BY DEF UseCaseType, TypeOK, Call, Kinds
<1>4. \A p \in Orders : Found(orderRows, p) => orderRows'[p] # NoRow
  BY <1>2 DEF RowsEffect, Found
<1>5. sent \subseteq sent'
  BY <1>2 DEF MarketEffect
<1>6. caller[c].kind = "create" => created[o] = "working"
  BY <1>2 DEF CallerEffect, CreatingInv, Busy
<1>7. StoredInv'
  <2> SUFFICES ASSUME NEW p \in Orders
               PROVE  /\ p \in sent' => orderRows'[p] # NoRow
                      /\ created'[p] = "no" => orderRows'[p] = NoRow
                      /\ created'[p] = "ok" => orderRows'[p] # NoRow /\ p \in sent'
    BY DEF StoredInv, Found
  <2>1. p \in sent' => orderRows'[p] # NoRow
    <3>1. CASE p \in sent
      BY <1>4, <3>1 DEF StoredInv
    <3>2. CASE p \in sent' /\ p \notin sent
      <4>1. p = o /\ caller[c].pc = "submit" /\ caller[c].kind = "create"
        BY <1>2, <1>3, <3>2 DEF MarketEffect, CallerOk
      <4> QED BY <1>4, <4>1 DEF CreatingInv, Busy
    <3> QED BY <3>1, <3>2
  <2>2. ASSUME created'[p] = "no" PROVE orderRows'[p] = NoRow
    <3>1. created[p] = "no"
      BY <1>2, <1>3, <2>2 DEF CreatedEffect
    <3>2. orderRows[p] = NoRow
      BY <3>1 DEF StoredInv, Found
    <3>3. CASE p = o
      <4>1. caller[c].kind # "create"
        BY <1>6, <3>1, <3>3
      <4>2. ~(caller[c].pc = "save" /\ caller[c].kind # "close")
        BY <1>3, <3>2, <3>3, <4>1 DEF ChangingInv, Busy, Found, Kinds
      <4> QED BY <1>2, <3>2, <4>2 DEF RowsEffect
    <3>4. CASE p # o
      BY <1>2, <3>2, <3>4 DEF RowsEffect
    <3> QED BY <3>3, <3>4
  <2>3. ASSUME created'[p] = "ok" PROVE orderRows'[p] # NoRow /\ p \in sent'
    <3>1. CASE created[p] = "ok"
      BY <1>4, <1>5, <3>1 DEF StoredInv
    <3>2. CASE created[p] # "ok"
      <4>1. p = o /\ caller[c].kind = "create" /\ caller[c].pc = "notify"
        BY <1>2, <1>3, <2>3, <3>2 DEF CreatedEffect
      <4> QED BY <1>4, <1>5, <4>1 DEF CreatingInv, Busy
    <3> QED BY <3>1, <3>2
  <2> QED BY <2>1, <2>2, <2>3
<1>8. ASSUME NEW d \in Callers \ {c}, Busy(d, {"create"})
      PROVE  created'[caller[d].order] = created[caller[d].order]
  <2>1. caller[c].kind = "create" => caller[d].order # o
    BY <1>2, <1>8 DEF OneCreator, CallerEffect, Busy
  <2> QED BY <1>2, <1>3, <2>1 DEF CreatedEffect
<1>9. CreatingInv'
  <2> SUFFICES ASSUME NEW d \in Callers, Busy(d, {"create"})'
               PROVE  /\ created'[caller'[d].order] = "working"
                      /\ caller'[d].pc \in {"submit", "notify"} => orderRows'[caller'[d].order] # NoRow
                      /\ caller'[d].pc = "notify" => caller'[d].order \in sent'
    BY DEF CreatingInv, Found
  <2>1. CASE d = c
    <3>1. caller'[c].pc # "idle" /\ caller[c].kind = "create" /\ caller'[c].order = o
      BY <1>2, <2>1 DEF Busy, CallerEffect
    <3>2. created' = created
      BY <1>2, <3>1 DEF CreatedEffect
    <3>3. caller'[c].pc = "notify" => Found(orderRows, o) /\ o \in sent'
      BY <1>2, <3>1 DEF CallerEffect, CreatingInv, Busy
    <3> QED BY <1>2, <1>4, <1>6, <2>1, <3>1, <3>2, <3>3, <1>3 DEF CallerEffect
  <2>2. CASE d # c
    <3>1. caller'[d] = caller[d] /\ Busy(d, {"create"})
      BY <1>2, <2>2 DEF CallerEffect, Busy
    <3> QED BY <1>3, <1>4, <1>5, <1>8, <2>2, <3>1 DEF CreatingInv
  <2> QED BY <2>1, <2>2
<1>10. OneCreator'
  <2>1. \A d \in Callers : Busy(d, {"create"})' => Busy(d, {"create"}) /\ caller'[d].order = caller[d].order
    BY <1>2 DEF CallerEffect, Busy
  <2> QED BY <2>1 DEF OneCreator
<1>11. ChangingInv'
  <2> SUFFICES ASSUME NEW d \in Callers, Busy(d, {"fill", "cancel"})', caller'[d].pc # "find"
               PROVE  orderRows'[caller'[d].order] # NoRow
    BY DEF ChangingInv, Found
  <2>1. Busy(d, {"fill", "cancel"}) /\ caller'[d].order = caller[d].order
    BY <1>2 DEF CallerEffect, Busy
  <2>2. Found(orderRows, caller[d].order)
    <3>1. CASE caller[d].pc # "find"
      BY <2>1, <3>1 DEF ChangingInv
    <3>2. CASE caller[d].pc = "find"
      BY <1>2, <2>1, <3>2 DEF CallerEffect, Busy
    <3> QED BY <3>1, <3>2
  <2> QED BY <1>3, <1>4, <2>1, <2>2
<1> QED BY <1>1, <1>7, <1>9, <1>10, <1>11

LEMMA StoreStep == StoreInv /\ [Next]_vars => StoreInv'
<1> SUFFICES ASSUME StoreInv, [Next]_vars PROVE StoreInv'
  OBVIOUS
<1>1. ASSUME NEW c \in Callers, Create(c) \/ Fill(c) \/ Cancel(c) \/ Close(c) \/ Step(c)
      PROVE  StoreInv'
  BY <1>1, StoreBegins, StoreMoves
<1>2. CASE UNCHANGED vars
  <2>1. UseCaseType'
    BY <1>2, UseCaseTypeStep DEF StoreInv
  <2> QED BY <1>2, <2>1 DEF vars, tables, market, StoreInv, StoredInv, CreatingInv, OneCreator,
                            ChangingInv, Busy, Found
<1> QED BY <1>1, <1>2 DEF Next

LEMMA StoreAlways == Spec => []StoreInv
BY StoreInit, StoreStep, PTL DEF Spec

(* CreateOrderUseCase: an order that the market may work is stored, one    *)
(* that is stored and was not sent belongs to a creation that failed or is *)
(* under way, and a creation that succeeded has stored and sent it.        *)
THEOREM CreationsStoreFirst == Spec => []StoredThenSubmitted
<1>1. StoreInv => StoredThenSubmitted
  <2> SUFFICES ASSUME StoreInv, NEW o \in Orders
               PROVE  /\ o \in sent => Found(orderRows, o)
                      /\ Found(orderRows, o) /\ o \notin sent => created[o] \in {"working", "failed"}
                      /\ created[o] = "ok" => Found(orderRows, o) /\ o \in sent
    BY DEF StoredThenSubmitted
  <2>1. created[o] \in {"no", "working", "ok", "failed"}
    BY DEF StoreInv, UseCaseType, TypeOK
  <2> QED BY <2>1 DEF StoreInv, StoredInv
<1> QED BY <1>1, StoreAlways, PTL

(* A row that says Cancelled: the market was asked before the order that   *)
(* says so was in hand.                                                    *)
CancelInv == CancelledAtMarket /\ CancelInHand

LEMMA CancelInit == Init => CancelInv
<1> SUFFICES ASSUME Init PROVE CancelInv
  OBVIOUS
<1>1. \A c \in Callers : caller[c].pc = "idle"
  <2> DEFINE idle == Idle(CHOOSE o \in Orders : TRUE)
  <2>1. caller \in [Callers -> {idle}] /\ idle.pc = "idle"
    BY DEF Init, Idle
  <2> HIDE DEF idle
  <2> QED BY <2>1
<1>2. \A o \in Orders : ~Found(orderRows, o)
  BY DEF Init, Found
<1> QED BY <1>1, <1>2 DEF CancelInv, CancelledAtMarket, CancelInHand

LEMMA CancelStep == UseCaseType /\ CancelInv /\ [Next]_vars => CancelInv'
<1> SUFFICES ASSUME UseCaseType, CancelInv, [Next]_vars PROVE CancelInv'
  OBVIOUS
<1> USE DEF CancelInv
<1>1. ASSUME NEW c \in Callers, Create(c) \/ Fill(c) \/ Cancel(c) \/ Close(c)
      PROVE  CancelInv'
  <2>1. /\ UNCHANGED <<orderRows, withdrawn>>
        /\ \A d \in Callers \ {c} : caller'[d] = caller[d]
        /\ caller'[c].pc # "save"
    BY <1>1 DEF Create, Fill, Cancel, Close, Begin, tables, market, UseCaseType, TypeOK
  <2> QED BY <2>1 DEF CancelledAtMarket, CancelInHand, Found
<1>2. ASSUME NEW c \in Callers, Step(c)
      PROVE  CancelInv'
  <2>1. /\ RowsEffect(c) /\ MarketEffect(c) /\ CallerEffect(c)
    BY <1>2, RowsOfStep, MarketOfStep, CallerOfStep
  <2>2. CancelledAtMarket'
    BY <2>1 DEF CancelledAtMarket, CancelInHand, Found, RowsEffect, MarketEffect
  <2>3. CancelInHand'
    BY <2>1 DEF CancelInHand, MarketEffect, CallerEffect
  <2> QED BY <2>2, <2>3
<1>3. CASE UNCHANGED vars
  BY <1>3 DEF vars, tables, market, CancelledAtMarket, CancelInHand, Found
<1> QED BY <1>1, <1>2, <1>3 DEF Next

(* CancelOrderUseCase: however cancellations, fills and repeated writes    *)
(* overlap, a row says Cancelled only once the market was asked.           *)
THEOREM CancellationsReachMarket == Spec => []CancelledAtMarket
<1>1. CancelInv => CancelledAtMarket
  BY DEF CancelInv
<1> QED BY <1>1, CancelInit, CancelStep, UseCaseTypeAlways, PTL DEF Spec

-----------------------------------------------------------------------------
(* The cache of Redis.  A caller that brings a counter to its threshold is *)
(* the one that goes on to the transition; until some caller made it the   *)
(* counter does not fall again unless it is reset, and a stale transition  *)
(* only leads out of the state the threshold is about.                     *)

LEMMA CacheInit ==
  ASSUME C!CacheAssumption
  PROVE  C!Init => C!TypeOK /\ C!NoTransitionMissed
BY DEF C!CacheAssumption, C!Init, C!TypeOK, C!CircuitState, C!Places, C!NoTransitionMissed

(* Where a step of a call takes its caller, and only that one.             *)
LEMMA CacheMoves ==
  ASSUME C!TypeOK, NEW c \in CacheCallers, NEW from, NEW to \in C!Places, C!Moves(c, from, to)
  PROVE  /\ cacheAt' \in [CacheCallers -> C!Places] /\ cacheAt[c] = from /\ cacheAt'[c] = to
         /\ \A d \in CacheCallers : d # c => cacheAt'[d] = cacheAt[d]
BY DEF C!TypeOK, C!Moves

(* The steps that neither change the breaker nor leave a transition.       *)
LEMMA CachePlain ==
  ASSUME C!TypeOK, C!NoTransitionMissed, NEW c \in CacheCallers,
         NEW from \in C!Places \ {"toOpen", "toClosed"}, NEW to \in C!Places,
         C!Moves(c, from, to),
         circuit' = circuit /\ lastFailure' \in {lastFailure, "recent"},
         UNCHANGED alive,
         \/ UNCHANGED failureCount
         \/ failureCount' = 0
         \/ failureCount' = failureCount + 1
              /\ (failureCount' >= FailureThreshold => to = "toOpen"),
         \/ UNCHANGED successCount
         \/ successCount' = successCount + 1
              /\ (successCount' >= SuccessThreshold => to = "toClosed"),
         C!CacheAssumption
  PROVE  C!TypeOK' /\ C!NoTransitionMissed'
<1>1. /\ cacheAt' \in [CacheCallers -> C!Places] /\ cacheAt[c] = from /\ cacheAt'[c] = to
      /\ \A d \in CacheCallers : d # c => cacheAt'[d] = cacheAt[d]
  BY CacheMoves
<1>2. C!TypeOK'
  BY <1>1 DEF C!TypeOK
<1>3. \A p \in {"toOpen", "toClosed"} :
        to = p \/ (\E d \in CacheCallers : cacheAt[d] = p) => \E d \in CacheCallers : cacheAt'[d] = p
  BY <1>1
<1>4. circuit' = "Closed" /\ failureCount' >= FailureThreshold =>
        \E d \in CacheCallers : cacheAt'[d] = "toOpen"
  BY <1>3 DEF C!NoTransitionMissed, C!CacheAssumption
<1>5. circuit' = "HalfOpen" /\ successCount' >= SuccessThreshold =>
        \E d \in CacheCallers : cacheAt'[d] = "toClosed"
  BY <1>3 DEF C!NoTransitionMissed
<1> QED BY <1>2, <1>4, <1>5 DEF C!NoTransitionMissed

LEMMA CacheStep ==
  ASSUME C!CacheAssumption
  PROVE  C!TypeOK /\ C!NoTransitionMissed /\ [C!Next]_(C!vars)
           => C!TypeOK' /\ C!NoTransitionMissed'
<1> SUFFICES ASSUME C!TypeOK, C!NoTransitionMissed, [C!Next]_(C!vars)
             PROVE  C!TypeOK' /\ C!NoTransitionMissed'
  OBVIOUS
<1> USE DEF C!Places
<1>1. ASSUME NEW c \in CacheCallers,
             C!Call(c) \/ C!Admission(c) \/ C!Command(c) \/ C!Recording(c)
      PROVE  C!TypeOK' /\ C!NoTransitionMissed'
  <2>1. CASE C!ToHalfOpen(c) \/ C!ToClosed(c) \/ C!ToOpen(c)
    <3>1. PICK from \in C!Places, to \in C!Places : C!Moves(c, from, to)
      BY <2>1 DEF C!ToHalfOpen, C!ToClosed, C!ToOpen
    <3>2. cacheAt' \in [CacheCallers -> C!Places] /\ UNCHANGED alive
      BY <2>1, <3>1, CacheMoves DEF C!ToHalfOpen, C!ToClosed, C!ToOpen
    <3>3. CASE C!ToHalfOpen(c)
      BY <3>2, <3>3 DEF C!ToHalfOpen, C!TransitionToHalfOpen, C!TypeOK, C!CircuitState,
         C!NoTransitionMissed, C!CacheAssumption
    <3>4. CASE C!ToClosed(c)
      BY <3>2, <3>4 DEF C!ToClosed, C!TransitionToClosed, C!TypeOK, C!CircuitState,
         C!NoTransitionMissed, C!CacheAssumption
    <3>5. CASE C!ToOpen(c)
      BY <3>2, <3>5 DEF C!ToOpen, C!TransitionToOpen, C!TypeOK, C!CircuitState,
         C!NoTransitionMissed, C!CacheAssumption
    <3> QED BY <2>1, <3>3, <3>4, <3>5
  <2>2. CASE C!Call(c) \/ C!CanExecute(c) \/ C!CheckTimeout(c) \/ C!Command(c)
             \/ C!RecordSuccess(c) \/ C!RecordFailure(c)
    <3>1. PICK from \in C!Places \ {"toOpen", "toClosed"}, to \in C!Places : C!Moves(c, from, to)
      BY <2>2 DEF C!Call, C!CanExecute, C!CheckTimeout, C!Command, C!Executed,
         C!CommandFails, C!ReturnsUnrecorded, C!RecordSuccess, C!RecordFailure, C!TypeOK,
         C!CircuitState
    <3>2. UNCHANGED <<circuit, failureCount, successCount, lastFailure, alive>>
      BY <2>2 DEF C!Call, C!CanExecute, C!CheckTimeout, C!Command, C!Executed,
         C!CommandFails, C!ReturnsUnrecorded, C!RecordSuccess, C!RecordFailure, C!breaker
    <3> QED BY <3>1, <3>2, CachePlain
  <2>3. CASE C!AddSuccess(c)
    <3> DEFINE to == IF successCount + 1 >= SuccessThreshold THEN "toClosed" ELSE "idle"
    <3>1. to \in C!Places /\ (successCount + 1 >= SuccessThreshold => to = "toClosed")
      OBVIOUS
    <3>2. /\ C!Moves(c, "addSuccess", to) /\ successCount' = successCount + 1
          /\ UNCHANGED <<circuit, failureCount, lastFailure, alive>>
      BY <2>3 DEF C!AddSuccess
    <3> HIDE DEF to
    <3> QED BY <3>1, <3>2, CachePlain
  <2>4. CASE C!AddFailure(c)
    <3> DEFINE to == IF failureCount + 1 >= FailureThreshold THEN "toOpen" ELSE "idle"
    <3>1. to \in C!Places /\ (failureCount + 1 >= FailureThreshold => to = "toOpen")
      OBVIOUS
    <3>2. /\ C!Moves(c, "addFailure", to) /\ failureCount' = failureCount + 1
          /\ UNCHANGED <<circuit, successCount, lastFailure, alive>>
      BY <2>4 DEF C!AddFailure
    <3> HIDE DEF to
    <3> QED BY <3>1, <3>2, CachePlain
  <2>5. CASE C!ResetFailures(c)
    <3>1. /\ C!Moves(c, "resetFailures", "idle") /\ failureCount' = 0
          /\ UNCHANGED <<circuit, successCount, lastFailure, alive>>
      BY <2>5 DEF C!ResetFailures
    <3> QED BY <3>1, CachePlain
  <2>6. CASE C!StampFailure(c)
    <3>1. /\ C!Moves(c, "stampFailure", "idle") /\ lastFailure' = "recent"
          /\ UNCHANGED <<circuit, failureCount, successCount, alive>>
      BY <2>6 DEF C!StampFailure
    <3> QED BY <3>1, CachePlain
  <2> QED BY <1>1, <2>1, <2>2, <2>3, <2>4, <2>5, <2>6 DEF C!Admission, C!Recording
<1>2. CASE C!TimeoutPasses \/ C!ConnectionLost
  BY <1>2 DEF C!TimeoutPasses, C!ConnectionLost, C!breaker, C!TypeOK, C!NoTransitionMissed
<1>3. CASE UNCHANGED C!vars
  BY <1>3 DEF C!vars, C!breaker, C!TypeOK, C!NoTransitionMissed
<1> QED BY <1>1, <1>2, <1>3 DEF C!Next

(* However callers of the cache interleave, no threshold of its circuit    *)
(* breaker is passed without a caller that makes the transition.           *)
THEOREM NoThresholdIsMissed == C!Spec => []NoTransitionMissed
<1> USE InstancesAssumption
<1>1. C!Init => C!TypeOK /\ C!NoTransitionMissed
  BY CacheInit
<1>2. /\ C!TypeOK /\ C!NoTransitionMissed
      /\ [C!Next]_(C!vars)
      => C!TypeOK' /\ C!NoTransitionMissed'
  BY CacheStep
<1> QED BY <1>1, <1>2, PTL DEF C!Spec, NoTransitionMissed
-----------------------------------------------------------------------------
(* The ingest command, with any batches, channels and limits.              *)

(* q holds the n numbers that follow a.                                    *)
IsRun(q, a, n) ==
  q \in Seq(Nat) /\ Len(q) = n /\ \A i \in 1..n : q[i] = a + i

LEMMA RunRange ==
  ASSUME NEW a \in Nat, NEW n \in Nat, NEW q, IsRun(q, a, n)
  PROVE  I!Range(q) = (a + 1)..(a + n)
<1>1. q \in Seq(Nat) /\ DOMAIN q = 1..n /\ \A i \in 1..n : q[i] = a + i
  BY DEF IsRun
<1>2. \A x : x \in I!Range(q) <=> \E i \in 1..n : x = a + i
  BY <1>1 DEF I!Range
<1>3. ASSUME NEW x \in (a + 1)..(a + n) PROVE \E i \in 1..n : x = a + i
  <2>1. x - a \in 1..n /\ x = a + (x - a)
    OBVIOUS
  <2> QED BY <2>1
<1>4. ASSUME NEW i \in 1..n PROVE a + i \in (a + 1)..(a + n)
  OBVIOUS
<1> QED BY <1>2, <1>3, <1>4

LEMMA RunGrows ==
  ASSUME NEW a \in Nat, NEW n \in Nat, NEW q, IsRun(q, a, n)
  PROVE  IsRun(Append(q, a + n + 1), a, n + 1)
<1> DEFINE r == Append(q, a + n + 1)
<1>1. q \in Seq(Nat) /\ Len(q) = n /\ \A i \in 1..n : q[i] = a + i
  BY DEF IsRun
<1>2. a + n + 1 \in Nat
  OBVIOUS
<1>3. r \in Seq(Nat) /\ Len(r) = n + 1
  BY <1>1, <1>2
<1>4. \A i \in 1..n : r[i] = q[i]
  BY <1>1
<1>5. r[n + 1] = a + n + 1
  BY <1>1
<1>6. \A i \in 1..(n + 1) : i \in 1..n \/ i = n + 1
  OBVIOUS
<1> HIDE DEF r
<1>7. \A i \in 1..(n + 1) : r[i] = a + i
  BY <1>1, <1>4, <1>5, <1>6
<1>8. IsRun(r, a, n + 1)
  BY <1>3, <1>7 DEF IsRun
<1> QED BY <1>8 DEF r

LEMMA RunShrinks ==
  ASSUME NEW a \in Nat, NEW n \in Nat, NEW q, IsRun(q, a, n), q # << >>
  PROVE  n > 0 /\ Head(q) = a + 1 /\ IsRun(Tail(q), a + 1, n - 1)
BY DEF IsRun

(* What the command has taken lies right behind the bars whose save is     *)
(* settled, and what is in its channel right behind that.                  *)
Settled == received - Len(buffer)

CommandInv ==
  /\ fed \in 0..MaxFed /\ received \in 0..fed
  /\ IsRun(chan, received, fed - received) /\ Len(chan) <= ChanSize
  /\ Len(buffer) \in 0..received /\ IsRun(buffer, Settled, Len(buffer))
  /\ Len(buffer) <= BatchSize /\ (saving = 0 => Len(buffer) < BatchSize)
  /\ saving \in 0..MaxRetries /\ (saving > 0 => buffer # << >>)
  /\ phase \in {"connect", "subscribe", "loop", "final", "ended", "failed"}
  /\ phase = "final" /\ saving = 0 => buffer = << >>
  /\ phase = "ended" => buffer = << >> /\ saving = 0

(* A bar beyond the settled ones was added to its row by saves only whose  *)
(* answer was lost; the save that settles it adds it at most once more.    *)
TableInv ==
  /\ stored \in [I!Bars -> Nat] /\ unheard \in [I!Bars -> Nat]
  /\ givenUp \subseteq 1..Settled
  /\ \A b \in I!Bars :
       IF b <= Settled THEN stored[b] <= 1 + unheard[b] /\ (stored[b] > 0 \/ b \in givenUp)
                       ELSE stored[b] = unheard[b]
  /\ savedCount = Cardinality((1..Settled) \ givenUp)

(* Who recorded a subscription since s looked was noted by s.              *)
ProviderInv ==
  /\ linked \in BOOLEAN /\ owner \in I!Subscribers \cup {NoOwner}
  /\ subscriberAt \in [I!Subscribers -> {"idle", "record", "subscribed"}]
  /\ since \in [I!Subscribers -> SUBSET I!Subscribers]
  /\ uses \in 0..MaxUses /\ failed \in 0..MaxFaults
  /\ \A s \in I!Subscribers : subscriberAt[s] = "record" => owner = NoOwner \/ owner \in since[s]

LEMMA IngestInit ==
  ASSUME I!IngestAssumption, I!Init
  PROVE  CommandInv /\ TableInv /\ ProviderInv
<1>1. Len(<< >>) = 0 /\ \A a \in Nat : IsRun(<< >>, a, 0)
  BY DEF IsRun
<1>2. /\ received = 0 /\ fed = 0 /\ chan = << >> /\ buffer = << >> /\ saving = 0
      /\ savedCount = 0 /\ phase = "connect" /\ givenUp = {}
      /\ stored = [b \in I!Bars |-> 0] /\ unheard = [b \in I!Bars |-> 0]
  BY DEF I!Init
<1>3. /\ linked = FALSE /\ owner = NoOwner /\ uses = 0 /\ failed = 0
      /\ subscriberAt = [s \in I!Subscribers |-> "idle"] /\ since = [s \in I!Subscribers |-> {}]
  BY DEF I!Init
<1>4. /\ MaxFed \in Nat /\ ChanSize \in Nat /\ BatchSize \in Nat \ {0} /\ MaxRetries \in Nat
      /\ MaxUses \in Nat /\ MaxFaults \in Nat
  BY DEF I!IngestAssumption
<1>5. Settled = 0
  <2>1. Len(buffer) = 0 /\ received = 0
    BY <1>2
  <2> QED BY <2>1 DEF Settled
<1>6. CommandInv
  BY <1>1, <1>2, <1>4, <1>5 DEF CommandInv
<1>7. Cardinality((1..0) \ {}) = 0
  <2>1. (1..0) \ {} = {}
    OBVIOUS
  <2> QED BY <2>1, FS_EmptySet
<1>8. TableInv
  BY <1>2, <1>5, <1>7 DEF TableInv, I!Bars
<1>9. ProviderInv
  <2>1. linked \in BOOLEAN
    BY <1>3
  <2>2. /\ subscriberAt \in [I!Subscribers -> {"idle", "record", "subscribed"}]
        /\ since \in [I!Subscribers -> SUBSET I!Subscribers]
        /\ \A s \in I!Subscribers : subscriberAt[s] # "record"
    BY <1>3
  <2>3. uses \in 0..MaxUses /\ failed \in 0..MaxFaults
    BY <1>3, <1>4
  <2> QED BY <1>3, <2>1, <2>2, <2>3 DEF ProviderInv
<1> QED BY <1>6, <1>8, <1>9

LEMMA IngestFaulty ==
  ASSUME ProviderInv, I!IngestAssumption, I!Faulty
  PROVE  failed' \in 0..MaxFaults
BY DEF ProviderInv, I!IngestAssumption, I!Faulty

(* The provider: whoever looks finds no owner, whoever records tells those *)
(* that looked before.                                                     *)
ProviderKept == ProviderInv' /\ [owner # NoOwner /\ owner' \notin {owner, NoOwner}
                                   => owner \in since[owner']]_(I!vars)

LEMMA Checking ==
  ASSUME ProviderInv, NEW s \in I!Subscribers, I!Check(s),
         UNCHANGED <<linked, owner, failed>>, uses' \in 0..MaxUses
  PROVE  ProviderKept
BY DEF ProviderInv, I!Check, ProviderKept

LEMMA Recording ==
  ASSUME ProviderInv, NEW s \in I!Subscribers, I!Record(s), UNCHANGED <<linked, uses, failed>>
  PROVE  ProviderKept
BY DEF ProviderInv, I!Record, ProviderKept

LEMMA ProviderStep ==
  ASSUME I!IngestAssumption, ProviderInv, [I!Next]_(I!vars)
  PROVE  ProviderKept
<1> USE DEF I!provider
<1>1. ASSUME NEW u \in Users, I!UserSubscribes(u) \/ I!UserRecorded(u) \/ I!UserUnsubscribes(u)
      PROVE  ProviderKept
  <2>1. u \in I!Subscribers
    BY DEF I!Subscribers
  <2>2. CASE I!UserSubscribes(u)
    <3>1. uses' \in 0..MaxUses
      BY <2>2 DEF I!UserSubscribes, ProviderInv, I!IngestAssumption
    <3> QED BY <2>1, <2>2, <3>1, Checking DEF I!UserSubscribes
  <2>3. CASE I!UserRecorded(u)
    BY <2>1, <2>3, Recording DEF I!UserRecorded
  <2>4. CASE I!UserUnsubscribes(u)
    BY <2>1, <2>4 DEF I!UserUnsubscribes, ProviderInv, ProviderKept
  <2> QED BY <1>1, <2>2, <2>3, <2>4
<1>2. Ingester \in I!Subscribers
  BY DEF I!Subscribers
<1>3. CASE I!Subscribe
  <2>1. uses' \in 0..MaxUses
    BY <1>3 DEF I!Subscribe, ProviderInv
  <2> QED BY <1>2, <1>3, <2>1, Checking DEF I!Subscribe
<1>4. CASE I!Subscribed
  BY <1>2, <1>4, Recording DEF I!Subscribed
<1>5. CASE I!Finish
  BY <1>2, <1>5 DEF I!Finish, ProviderInv, ProviderKept
<1>6. CASE I!LinkLost
  BY <1>6, IngestFaulty DEF I!LinkLost, ProviderInv, ProviderKept
<1>7. CASE I!LinkBack \/ I!Connect
  BY <1>7 DEF I!LinkBack, I!Connect, ProviderInv, ProviderKept
<1>8. CASE I!Feed \/ I!Fails \/ I!TakeBar \/ I!FlushTick \/ I!Closed \/ I!Stop \/ I!Save
           \/ UNCHANGED I!vars
  <2>1. UNCHANGED <<linked, owner, subscriberAt, since, uses>>
    BY <1>8 DEF I!Feed, I!Fails, I!TakeBar, I!FlushTick, I!Closed, I!Stop, I!Save,
       I!SaveSucceeds, I!SaveFails, I!SaveTransient, I!vars
  <2>2. UNCHANGED failed \/ I!Faulty
    BY <1>8 DEF I!Feed, I!Fails, I!TakeBar, I!FlushTick, I!Closed, I!Stop, I!Save,
       I!SaveSucceeds, I!SaveFails, I!SaveTransient, I!vars
  <2>3. failed' \in 0..MaxFaults
    BY <2>2, IngestFaulty DEF ProviderInv
  <2> QED BY <2>1, <2>3 DEF ProviderInv, ProviderKept
<1> QED BY <1>1, <1>3, <1>4, <1>5, <1>6, <1>7, <1>8 DEF I!Next
-----------------------------------------------------------------------------
(* The steps that move no bar.                                             *)
LEMMA BarsStay ==
  ASSUME CommandInv, TableInv,
         UNCHANGED <<fed, received, chan, buffer, stored, unheard, givenUp, savedCount>>
  PROVE  /\ TableInv' /\ Settled' = Settled
         /\ \/ UNCHANGED <<phase, saving>>
            \/ /\ saving' \in 0..MaxRetries /\ (saving' > 0 => buffer # << >>)
               /\ saving' = 0 => Len(buffer) < BatchSize
               /\ phase' \in {"connect", "subscribe", "loop", "final", "ended", "failed"}
               /\ phase' = "final" /\ saving' = 0 => buffer = << >>
               /\ phase' = "ended" => buffer = << >> /\ saving' = 0
            => CommandInv'
<1>1. Settled' = Settled
  BY DEF Settled
<1>2. TableInv'
  BY <1>1 DEF TableInv
<1> QED BY <1>1, <1>2 DEF CommandInv

LEMMA BarFed ==
  ASSUME I!IngestAssumption, CommandInv, TableInv, I!Feed
  PROVE  CommandInv' /\ TableInv'
<1>1. /\ fed < MaxFed /\ Len(chan) < ChanSize /\ chan' = Append(chan, fed + 1) /\ fed' = fed + 1
      /\ UNCHANGED <<phase, buffer, saving, received, savedCount, givenUp, stored, unheard>>
  BY DEF I!Feed, I!counters, I!table
<1>2. fed \in 0..MaxFed /\ received \in 0..fed /\ MaxFed \in Nat /\ ChanSize \in Nat
      /\ IsRun(chan, received, fed - received)
  BY DEF CommandInv, I!IngestAssumption
<1>3. fed - received \in Nat /\ received + (fed - received) + 1 = fed + 1
      /\ fed' - received = (fed - received) + 1
  BY <1>1, <1>2
<1>4. IsRun(chan', received, fed' - received)
  BY <1>1, <1>2, <1>3, RunGrows
<1>5. Len(chan') <= ChanSize
  BY <1>1, <1>2 DEF IsRun
<1>6. Settled' = Settled
  BY <1>1 DEF Settled
<1>7. TableInv'
  BY <1>1, <1>6 DEF TableInv
<1>8. fed' \in 0..MaxFed /\ received' \in 0..fed'
  BY <1>1, <1>2
<1> QED BY <1>1, <1>4, <1>5, <1>6, <1>7, <1>8 DEF CommandInv

LEMMA BarTaken ==
  ASSUME I!IngestAssumption, CommandInv, TableInv, I!TakeBar
  PROVE  CommandInv' /\ TableInv'
<1>1. /\ phase = "loop" /\ saving = 0 /\ chan # << >>
      /\ chan' = Tail(chan) /\ buffer' = Append(buffer, Head(chan)) /\ received' = received + 1
      /\ saving' = IF Len(buffer') >= BatchSize THEN 1 ELSE 0
      /\ UNCHANGED <<phase, savedCount, givenUp, fed, stored, unheard>>
  BY DEF I!TakeBar, I!table
<1>2. /\ fed \in 0..MaxFed /\ received \in 0..fed /\ MaxFed \in Nat
      /\ BatchSize \in Nat /\ ChanSize \in Nat /\ MaxRetries \in Nat \ {0}
      /\ IsRun(chan, received, fed - received) /\ Len(chan) <= ChanSize
      /\ Len(buffer) \in 0..received /\ IsRun(buffer, Settled, Len(buffer))
      /\ Len(buffer) < BatchSize
  BY <1>1 DEF CommandInv, I!IngestAssumption
<1>3. /\ fed - received > 0 /\ Head(chan) = received + 1
      /\ IsRun(chan', received', fed - received')
  <2>1. /\ fed - received > 0 /\ Head(chan) = received + 1
        /\ IsRun(Tail(chan), received + 1, fed - received - 1)
    BY <1>1, <1>2, RunShrinks
  <2>2. fed - received - 1 = fed - (received + 1)
    BY <1>2
  <2> QED BY <1>1, <2>1, <2>2
<1>4. Settled \in Nat /\ Settled + Len(buffer) + 1 = received + 1
  BY <1>2 DEF Settled
<1>5. IsRun(buffer', Settled, Len(buffer) + 1)
  BY <1>1, <1>2, <1>3, <1>4, RunGrows
<1>6. Len(buffer') = Len(buffer) + 1 /\ buffer' # << >>
  BY <1>2, <1>5 DEF IsRun
<1>7. Settled' = Settled
  BY <1>1, <1>2, <1>6 DEF Settled
<1>8. TableInv'
  BY <1>1, <1>7 DEF TableInv
<1>9. Len(chan') <= ChanSize
  BY <1>2, <1>3, <1>1 DEF IsRun
<1>10. /\ fed' \in 0..MaxFed /\ received' \in 0..fed'
       /\ Len(buffer') \in 0..received' /\ Len(buffer') <= BatchSize
       /\ saving' \in 0..MaxRetries /\ (saving' = 0 => Len(buffer') < BatchSize)
  BY <1>1, <1>2, <1>3, <1>6
<1> QED BY <1>1, <1>3, <1>5, <1>6, <1>7, <1>8, <1>9, <1>10 DEF CommandInv
-----------------------------------------------------------------------------
(* The saves.                                                              *)
LEMMA BatchIs ==
  ASSUME CommandInv
  PROVE  /\ I!Range(buffer) = (Settled + 1)..received
         /\ received \in Nat /\ Settled \in Nat /\ Len(buffer) \in Nat
         /\ Settled + Len(buffer) = received
<1>1. received \in Nat /\ Len(buffer) \in 0..received /\ IsRun(buffer, Settled, Len(buffer))
  BY DEF CommandInv
<1>2. Settled \in Nat /\ Settled + Len(buffer) = received /\ Len(buffer) \in Nat
  BY <1>1 DEF Settled
<1>3. I!Range(buffer) = (Settled + 1)..(Settled + Len(buffer))
  BY <1>1, <1>2, RunRange
<1> QED BY <1>1, <1>2, <1>3

LEMMA MoreSaved ==
  ASSUME NEW k \in Nat, NEW n \in Nat, NEW G, G \subseteq 1..k
  PROVE  Cardinality((1..(k + n)) \ G) = Cardinality((1..k) \ G) + n
<1> DEFINE A == (1..k) \ G
           B == (k + 1)..(k + n)
<1>1. (1..(k + n)) \ G = A \cup B /\ A \cap B = {}
  OBVIOUS
<1>2. IsFiniteSet(1..k) /\ A \in SUBSET (1..k)
  BY FS_Interval
<1>3. IsFiniteSet(A) /\ Cardinality(A) \in Nat
  BY <1>2, FS_Subset, FS_CardinalityType
<1>4. IsFiniteSet(B) /\ Cardinality(B) = n
  <2>1. k + 1 \in Int /\ k + n \in Int
    OBVIOUS
  <2>2. IsFiniteSet(B) /\ Cardinality(B) = IF k + 1 > k + n THEN 0 ELSE (k + n) - (k + 1) + 1
    BY <2>1, FS_Interval
  <2> QED BY <2>2
<1>5. Cardinality(A \cup B) = Cardinality(A) + Cardinality(B) - Cardinality(A \cap B)
  BY <1>3, <1>4, FS_Union
<1>6. Cardinality(A \cap B) = 0
  BY <1>1, FS_EmptySet
<1> HIDE DEF A, B
<1>7. Cardinality(A \cup B) = Cardinality(A) + n
  BY <1>3, <1>4, <1>5, <1>6
<1> QED BY <1>1, <1>7 DEF A

LEMMA BatchEnds ==
  ASSUME I!IngestAssumption, CommandInv, saving' = 0, buffer' = << >>,
         UNCHANGED <<phase, chan, received, fed>>
  PROVE  CommandInv' /\ Settled' = received
<1>1. received \in Nat /\ received \in 0..fed
  BY DEF CommandInv
<1>2. Len(buffer') = 0
  OBVIOUS
<1>3. Settled' = received
  BY <1>1, <1>2 DEF Settled
<1>4. IsRun(buffer', received, 0)
  BY DEF IsRun
<1>5. BatchSize \in Nat \ {0} /\ MaxRetries \in Nat
  BY DEF I!IngestAssumption
<1> QED BY <1>1, <1>2, <1>3, <1>4, <1>5 DEF CommandInv

(* A save that has ended well, or that was given up.                       *)
LEMMA BatchSaved ==
  ASSUME I!IngestAssumption, CommandInv, TableInv, I!SaveSucceeds
  PROVE  CommandInv' /\ TableInv'
<1>1. /\ I!Added /\ savedCount' = savedCount + Len(buffer)
      /\ saving' = 0 /\ buffer' = << >>
      /\ UNCHANGED <<unheard, phase, chan, received, givenUp, fed>>
  BY DEF I!SaveSucceeds, I!AfterSave
<1>2. CommandInv' /\ Settled' = received
  BY <1>1, BatchEnds
<1>3. /\ I!Range(buffer) = (Settled + 1)..received
      /\ received \in Nat /\ Settled \in Nat /\ Len(buffer) \in Nat
      /\ Settled + Len(buffer) = received
  BY BatchIs
<1>4. /\ stored' \in [I!Bars -> Nat]
      /\ \A b \in I!Bars :
           stored'[b] = IF b \in (Settled + 1)..received THEN stored[b] + 1 ELSE stored[b]
  BY <1>1, <1>3 DEF I!Added, TableInv
<1>5. /\ stored \in [I!Bars -> Nat] /\ unheard \in [I!Bars -> Nat] /\ givenUp \subseteq 1..Settled
      /\ \A b \in I!Bars :
           IF b <= Settled THEN stored[b] <= 1 + unheard[b] /\ (stored[b] > 0 \/ b \in givenUp)
                           ELSE stored[b] = unheard[b]
      /\ savedCount = Cardinality((1..Settled) \ givenUp)
  BY DEF TableInv
<1>6. \A b \in I!Bars :
        IF b <= received THEN stored'[b] <= 1 + unheard[b] /\ (stored'[b] > 0 \/ b \in givenUp)
                         ELSE stored'[b] = unheard[b]
  <2> SUFFICES ASSUME NEW b \in I!Bars
               PROVE  IF b <= received
                        THEN stored'[b] <= 1 + unheard[b] /\ (stored'[b] > 0 \/ b \in givenUp)
                        ELSE stored'[b] = unheard[b]
    OBVIOUS
  <2>1. b \in Nat /\ stored[b] \in Nat /\ unheard[b] \in Nat
    BY <1>5 DEF I!Bars
  <2>2. CASE b <= Settled
    <3>1. b \notin (Settled + 1)..received /\ b <= received
      BY <1>3, <2>1, <2>2
    <3> QED BY <1>4, <1>5, <2>2, <3>1
  <2>3. CASE ~(b <= Settled) /\ b <= received
    <3>1. b \in (Settled + 1)..received
      BY <1>3, <2>1, <2>3
    <3> QED BY <1>4, <1>5, <2>1, <2>3, <3>1
  <2>4. CASE ~(b <= received)
    <3>1. b \notin (Settled + 1)..received /\ ~(b <= Settled)
      BY <1>3, <2>1, <2>4
    <3> QED BY <1>4, <1>5, <2>4, <3>1
  <2> QED BY <2>2, <2>3, <2>4
<1>7. Cardinality((1..received) \ givenUp) = Cardinality((1..Settled) \ givenUp) + Len(buffer)
  BY <1>3, <1>5, MoreSaved
<1>8. givenUp \subseteq 1..received
  BY <1>3, <1>5
<1> QED BY <1>1, <1>2, <1>4, <1>5, <1>6, <1>7, <1>8 DEF TableInv

(* The table after an attempt that failed: as it was, or with the batch    *)
(* added and the answer lost.                                              *)
Missed ==
  \/ UNCHANGED <<stored, unheard>>
  \/ /\ I!Added
     /\ unheard' = [b \in I!Bars |-> IF b \in I!Range(buffer) THEN unheard[b] + 1 ELSE unheard[b]]

LEMMA MissedAgrees ==
  ASSUME CommandInv, TableInv, Missed
  PROVE  /\ stored' \in [I!Bars -> Nat] /\ unheard' \in [I!Bars -> Nat]
         /\ \A b \in I!Bars :
              IF b <= Settled
                THEN stored'[b] <= 1 + unheard'[b] /\ (stored'[b] > 0 \/ b \in givenUp)
                ELSE stored'[b] = unheard'[b]
<1>1. /\ I!Range(buffer) = (Settled + 1)..received /\ received \in Nat /\ Settled \in Nat
  BY BatchIs
<1>2. CASE UNCHANGED <<stored, unheard>>
  BY <1>2 DEF TableInv
<1>3. CASE /\ I!Added
           /\ unheard' = [b \in I!Bars |-> IF b \in I!Range(buffer) THEN unheard[b] + 1
                                                                   ELSE unheard[b]]
  <2>1. stored \in [I!Bars -> Nat] /\ unheard \in [I!Bars -> Nat]
    BY DEF TableInv
  <2>2. /\ stored' \in [I!Bars -> Nat] /\ unheard' \in [I!Bars -> Nat]
        /\ \A b \in I!Bars :
             IF b \in (Settled + 1)..received
               THEN stored'[b] = stored[b] + 1 /\ unheard'[b] = unheard[b] + 1
               ELSE stored'[b] = stored[b] /\ unheard'[b] = unheard[b]
    BY <1>1, <1>3, <2>1 DEF I!Added
  <2> QED BY <1>1, <2>1, <2>2 DEF TableInv, I!Bars
<1> QED BY <1>2, <1>3 DEF Missed

LEMMA BatchGivenUp ==
  ASSUME I!IngestAssumption, CommandInv, TableInv, Missed, I!GiveUp,
         UNCHANGED <<phase, chan, fed>>
  PROVE  CommandInv' /\ TableInv'
<1>1. /\ givenUp' = givenUp \cup I!Range(buffer) /\ saving' = 0 /\ buffer' = << >>
      /\ UNCHANGED <<received, savedCount>>
  BY DEF I!GiveUp, I!AfterSave, I!counters
<1>2. CommandInv' /\ Settled' = received
  BY <1>1, BatchEnds
<1>3. /\ I!Range(buffer) = (Settled + 1)..received
      /\ received \in Nat /\ Settled \in Nat /\ Settled <= received
  BY BatchIs
<1>4. givenUp \subseteq 1..Settled /\ savedCount = Cardinality((1..Settled) \ givenUp)
  BY DEF TableInv
<1>5. (1..received) \ givenUp' = (1..Settled) \ givenUp /\ givenUp' \subseteq 1..received
  BY <1>1, <1>3, <1>4
<1>6. /\ stored' \in [I!Bars -> Nat] /\ unheard' \in [I!Bars -> Nat]
      /\ \A b \in I!Bars :
           IF b <= Settled THEN stored'[b] <= 1 + unheard'[b] /\ (stored'[b] > 0 \/ b \in givenUp)
                           ELSE stored'[b] = unheard'[b]
  BY MissedAgrees
<1>7. \A b \in I!Bars :
        IF b <= received THEN stored'[b] <= 1 + unheard'[b] /\ (stored'[b] > 0 \/ b \in givenUp')
                         ELSE stored'[b] = unheard'[b]
  BY <1>1, <1>3, <1>6 DEF I!Bars
<1> QED BY <1>1, <1>2, <1>4, <1>5, <1>6, <1>7 DEF TableInv

LEMMA BatchAgain ==
  ASSUME I!IngestAssumption, CommandInv, TableInv, Missed, saving > 0, I!Again,
         UNCHANGED <<phase, chan, fed>>
  PROVE  CommandInv' /\ TableInv'
<1>1. /\ saving < MaxRetries /\ saving' = saving + 1
      /\ UNCHANGED <<buffer, received, savedCount, givenUp>>
  BY DEF I!Again, I!counters
<1>2. Settled' = Settled
  BY <1>1 DEF Settled
<1>3. saving' \in 0..MaxRetries /\ saving' > 0
  BY <1>1 DEF CommandInv, I!IngestAssumption
<1>4. CommandInv'
  BY <1>1, <1>2, <1>3 DEF CommandInv
<1>5. /\ stored' \in [I!Bars -> Nat] /\ unheard' \in [I!Bars -> Nat]
      /\ \A b \in I!Bars :
           IF b <= Settled THEN stored'[b] <= 1 + unheard'[b] /\ (stored'[b] > 0 \/ b \in givenUp)
                           ELSE stored'[b] = unheard'[b]
  BY MissedAgrees
<1> QED BY <1>1, <1>2, <1>4, <1>5 DEF TableInv

LEMMA CommandStep ==
  ASSUME I!IngestAssumption, CommandInv, TableInv, [I!Next]_(I!vars)
  PROVE  CommandInv' /\ TableInv'
<1> USE DEF I!table, I!counters, I!provider, I!command
<1>0. MaxRetries \in Nat \ {0} /\ BatchSize \in Nat \ {0}
  BY DEF I!IngestAssumption
<1>1. CASE \/ \E u \in Users : I!UserSubscribes(u) \/ I!UserRecorded(u) \/ I!UserUnsubscribes(u)
           \/ I!LinkLost \/ I!LinkBack \/ I!Subscribe \/ UNCHANGED I!vars
  <2>1. UNCHANGED <<fed, received, chan, buffer, stored, unheard, givenUp, savedCount, phase, saving>>
    BY <1>1 DEF I!UserSubscribes, I!UserRecorded, I!UserUnsubscribes, I!LinkLost, I!LinkBack,
       I!Subscribe, I!vars
  <2> QED BY <2>1, BarsStay
<1>2. CASE I!Connect \/ I!Fails \/ I!Subscribed \/ I!FlushTick \/ I!Closed \/ I!Stop \/ I!Finish
  <2>1. UNCHANGED <<fed, received, chan, buffer, stored, unheard, givenUp, savedCount>>
    BY <1>2 DEF I!Connect, I!Fails, I!Subscribed, I!FlushTick, I!Closed, I!Stop, I!Finish
  <2>2. /\ saving \in 0..MaxRetries /\ (saving > 0 => buffer # << >>)
        /\ saving = 0 => Len(buffer) < BatchSize
        /\ phase = "final" /\ saving = 0 => buffer = << >>
    BY DEF CommandInv
  <2>3. /\ saving' \in 0..MaxRetries /\ (saving' > 0 => buffer # << >>)
        /\ saving' = 0 => Len(buffer) < BatchSize
        /\ phase' \in {"connect", "subscribe", "loop", "final", "ended", "failed"}
        /\ phase' = "final" /\ saving' = 0 => buffer = << >>
        /\ phase' = "ended" => buffer = << >> /\ saving' = 0
    <3>1. CASE I!Connect \/ I!Fails \/ I!Subscribed
      <4>1. phase' \in {"subscribe", "failed", "loop"} /\ saving' = saving
        BY <3>1 DEF I!Connect, I!Fails, I!Subscribed
      <4> QED BY <2>2, <4>1
    <3>2. CASE I!FlushTick
      <4>1. phase' = "loop" /\ saving' = 1 /\ buffer # << >>
        BY <3>2 DEF I!FlushTick
      <4> QED BY <1>0, <4>1
    <3>3. CASE I!Closed \/ I!Stop
      <4>1. phase' = "final" /\ saving = 0 /\ saving' = IF buffer = << >> THEN 0 ELSE 1
        BY <3>3 DEF I!Closed, I!Stop, I!LeaveLoop
      <4> QED BY <1>0, <2>2, <4>1
    <3>4. CASE I!Finish
      <4>1. phase = "final" /\ saving = 0 /\ phase' = "ended" /\ saving' = saving
        BY <3>4 DEF I!Finish
      <4> QED BY <2>2, <4>1
    <3> QED BY <1>2, <3>1, <3>2, <3>3, <3>4
  <2> QED BY <2>1, <2>3, BarsStay
<1>3. CASE I!SaveFails
  <2>1. Missed /\ I!GiveUp /\ UNCHANGED <<phase, chan, fed>>
    BY <1>3 DEF I!SaveFails, Missed
  <2> QED BY <2>1, BatchGivenUp
<1>4. CASE I!SaveTransient
  <2>1. Missed /\ saving > 0 /\ UNCHANGED <<phase, chan, fed>> /\ (I!Again \/ I!GiveUp)
    BY <1>4 DEF I!SaveTransient, Missed
  <2> QED BY <2>1, BatchGivenUp, BatchAgain
<1> QED BY <1>1, <1>2, <1>3, <1>4, BarFed, BarTaken, BatchSaved DEF I!Next, I!Save

LEMMA IngestAlways ==
  ASSUME I!IngestAssumption
  PROVE  I!Spec => [](CommandInv /\ TableInv /\ ProviderInv)
<1>1. I!Init => CommandInv /\ TableInv /\ ProviderInv
  BY IngestInit
<1>2. CommandInv /\ TableInv /\ ProviderInv /\ [I!Next]_(I!vars)
        => CommandInv' /\ TableInv' /\ ProviderInv'
  BY CommandStep, ProviderStep DEF ProviderKept
<1> QED BY <1>1, <1>2, PTL DEF I!Spec

LEMMA RunInBars ==
  ASSUME NEW a \in Nat, NEW n \in Nat, a + n <= MaxFed, MaxFed \in Nat, NEW q, IsRun(q, a, n)
  PROVE  q \in Seq(I!Bars)
<1>1. q \in Seq(Nat) /\ Len(q) = n /\ \A i \in 1..n : q[i] = a + i
  BY DEF IsRun
<1>2. \A i \in 1..n : a + i \in 1..MaxFed
  OBVIOUS
<1>3. \A i \in 1..Len(q) : q[i] \in 1..MaxFed
  BY <1>1, <1>2
<1>4. q \in Seq(1..MaxFed)
  BY <1>1, <1>3
<1> QED BY <1>4 DEF I!Bars

(* The ingest command keeps its types: its channel and its buffer their    *)
(* limits, and the attempts at a save theirs.                              *)
THEOREM IngestIsTyped == I!Spec => []I!TypeOK
<1> USE InstancesAssumption
<1>1. CommandInv /\ TableInv /\ ProviderInv => I!TypeOK
  <2> SUFFICES ASSUME CommandInv, TableInv, ProviderInv PROVE I!TypeOK
    OBVIOUS
  <2>1. /\ received \in Nat /\ Settled \in Nat /\ Len(buffer) \in Nat
        /\ Settled + Len(buffer) = received
    BY BatchIs
  <2>2. fed \in 0..MaxFed /\ received \in 0..fed /\ MaxFed \in Nat
    BY DEF CommandInv, I!IngestAssumption
  <2>3. /\ IsRun(chan, received, fed - received) /\ Len(chan) <= ChanSize
        /\ IsRun(buffer, Settled, Len(buffer)) /\ Len(buffer) <= BatchSize
    BY DEF CommandInv
  <2>4. chan \in Seq(I!Bars)
    <3>1. fed - received \in Nat /\ received + (fed - received) <= MaxFed
      BY <2>2
    <3> QED BY <2>1, <2>2, <2>3, <3>1, RunInBars
  <2>5. buffer \in Seq(I!Bars)
    <3>1. Settled + Len(buffer) <= MaxFed
      BY <2>1, <2>2
    <3> QED BY <2>1, <2>2, <2>3, <3>1, RunInBars
  <2>6. savedCount \in Nat /\ givenUp \subseteq I!Bars
    <3>1. IsFiniteSet(1..Settled)
      BY <2>1, FS_Interval
    <3>2. IsFiniteSet((1..Settled) \ givenUp)
      BY <3>1, FS_Subset
    <3>3. Cardinality((1..Settled) \ givenUp) \in Nat
      BY <3>2, FS_CardinalityType
    <3>4. 1..Settled \subseteq I!Bars
      BY <2>1, <2>2 DEF I!Bars
    <3> QED BY <3>3, <3>4 DEF TableInv
  <2>7. received \in 0..MaxFed
    BY <2>2
  <2>8. /\ stored \in [I!Bars -> Nat] /\ unheard \in [I!Bars -> Nat]
        /\ saving \in 0..MaxRetries /\ (saving > 0 => buffer # << >>)
        /\ phase \in {"connect", "subscribe", "loop", "final", "ended", "failed"}
    BY DEF CommandInv, TableInv
  <2>9. /\ linked \in BOOLEAN /\ owner \in I!Subscribers \cup {NoOwner}
        /\ subscriberAt \in [I!Subscribers -> {"idle", "record", "subscribed"}]
        /\ since \in [I!Subscribers -> SUBSET I!Subscribers]
        /\ uses \in 0..MaxUses /\ failed \in 0..MaxFaults
    BY DEF ProviderInv
  <2> QED BY <2>2, <2>3, <2>4, <2>5, <2>6, <2>7, <2>8, <2>9 DEF I!TypeOK
<1> QED BY <1>1, IngestAlways, PTL

(* Every bar the ingest command received is in its buffer, stored, or part *)
(* of a batch whose save failed for good; at the end the buffer is empty.  *)
THEOREM ReceivedBarsAreKept == I!Spec => []ReceivedIsAccountedFor
<1> USE InstancesAssumption
<1>1. CommandInv /\ TableInv => I!ReceivedIsAccountedFor
  <2> SUFFICES ASSUME CommandInv, TableInv PROVE I!ReceivedIsAccountedFor
    OBVIOUS
  <2>1. /\ I!Range(buffer) = (Settled + 1)..received /\ received \in Nat /\ Settled \in Nat
    BY BatchIs
  <2>2. received <= MaxFed
    BY DEF CommandInv, I!IngestAssumption
  <2>3. ASSUME NEW b \in 1..received
        PROVE  b \in I!Range(buffer) \/ stored[b] > 0 \/ b \in givenUp
    <3>1. b \in I!Bars
      BY <2>1, <2>2 DEF I!Bars, I!IngestAssumption
    <3>2. b <= Settled \/ b \in (Settled + 1)..received
      BY <2>1
    <3> QED BY <2>1, <3>1, <3>2 DEF TableInv
  <2> QED BY <2>3 DEF I!ReceivedIsAccountedFor, CommandInv
<1> QED BY <1>1, IngestAlways, PTL DEF ReceivedIsAccountedFor

(* The number of saved bars that the command reports counts each bar once, *)
(* and only bars that are stored.                                          *)
THEOREM SavedBarsAreStored == I!Spec => []SavedCountIsStored
<1> USE InstancesAssumption
<1>1. CommandInv /\ TableInv => I!SavedCountIsStored
  <2> SUFFICES ASSUME CommandInv, TableInv PROVE I!SavedCountIsStored
    OBVIOUS
  <2>1. /\ I!Range(buffer) = (Settled + 1)..received
        /\ received \in Nat /\ Settled \in Nat /\ Settled <= received
    BY BatchIs
  <2>2. received <= MaxFed /\ MaxFed \in Nat
    BY DEF CommandInv, I!IngestAssumption
  <2>3. {b \in 1..received : b \notin I!Range(buffer) \cup givenUp} = (1..Settled) \ givenUp
    BY <2>1
  <2>4. \A b \in (1..Settled) \ givenUp : stored[b] > 0
    <3>1. \A b \in (1..Settled) \ givenUp : b \in I!Bars /\ b <= Settled
      BY <2>1, <2>2 DEF I!Bars
    <3> QED BY <3>1 DEF TableInv
  <2>5. savedCount = Cardinality((1..Settled) \ givenUp)
    BY DEF TableInv
  <2>6. \A b \in 1..received : b \notin I!Range(buffer) \cup givenUp => stored[b] > 0
    BY <2>3, <2>4
  <2>7. savedCount = Cardinality({b \in 1..received : b \notin I!Range(buffer) \cup givenUp})
    BY <2>3, <2>5
  <2>8. \A S : I!Cardinality(S) = Cardinality(S)
    BY DEF I!Cardinality, Cardinality
  <2> QED BY <2>6, <2>7, <2>8 DEF I!SavedCountIsStored
<1> QED BY <1>1, IngestAlways, PTL DEF SavedCountIsStored

(* The volume of a bar is added to its row at most once more often than an *)
(* answer to its save was lost.                                            *)
THEOREM BarsAreAddedOnce == I!Spec => []AddedOncePerAnswer
<1> USE InstancesAssumption
<1>1. CommandInv /\ TableInv => I!AddedOncePerAnswer
  BY DEF TableInv, I!AddedOncePerAnswer
<1> QED BY <1>1, IngestAlways, PTL DEF AddedOncePerAnswer

(* A subscription takes the place of another only if that one was recorded *)
(* after the check of the first, between its two locks.                    *)
THEOREM OnlyOverlapsReplace == I!Spec => ReplacedOnlyByOverlap
<1> USE InstancesAssumption
<1>1. ProviderInv /\ [I!Next]_(I!vars) => ProviderKept
  BY ProviderStep
<1> QED BY <1>1, IngestAlways, PTL
        DEF I!Spec, ReplacedOnlyByOverlap, I!ReplacedOnlyByOverlap, ProviderKept
-----------------------------------------------------------------------------
(* The client of Interactive Brokers, with any capacity of the channel of  *)
(* events and limit of attempts, whether the events are read or not.       *)
LEMMA CallerMoves ==
  ASSUME K!ClientAssumption, K!TypeOK, NEW c \in Callers, NEW from, NEW to \in K!CallerPcs,
         K!Moves(c, from, to)
  PROVE  /\ clientAt' \in [Callers -> K!CallerPcs] /\ clientAt[c] = from /\ clientAt'[c] = to
         /\ \A d \in Callers : d # c => clientAt'[d] = clientAt[d]
         /\ UNCHANGED <<tries, clientCalls>>
  BY DEF K!TypeOK, K!Moves

(* What the places of a caller that matter are followed by.                *)
Connecting == {"touch", "setConnected", "tellState", "tellConnected", "startManager"}

(* The rest of a caller's step: it names the fields that only StartManager *)
(* and AbortManager change.                                                *)
Quiet == UNCHANGED <<handle, K!tasks>>

ClientPlain(c) ==
  /\ clientAt' \in [Callers -> K!CallerPcs] /\ clientAt'[c] # "abort"
  /\ \A d \in Callers : d # c => clientAt'[d] = clientAt[d]
  /\ UNCHANGED <<shutdown, clientCalls>>
  /\ tries' \in [Callers -> Nat]
  /\ MaxAttempts > 0 => \A d \in Callers : tries'[d] <= MaxAttempts
  /\ state' \in K!ConnectionStates /\ connected' \in BOOLEAN /\ stale' \in BOOLEAN
  /\ idKnown' \in BOOLEAN /\ queued' \in 0..EventCap

LEMMA SettingState ==
  ASSUME K!ClientAssumption, K!TypeOK, NEW c \in Callers, NEW from,
         NEW new \in K!ConnectionStates,
         NEW report \in K!CallerPcs \ {"abort"}, NEW next \in K!CallerPcs \ {"abort"},
         K!SetState(c, from, new, report, next)
  PROVE  /\ ClientPlain(c) /\ Quiet /\ clientAt[c] = from /\ clientAt'[c] \in {report, next}
         /\ connected' = connected
<1>1. PICK to \in {report, next} : K!Moves(c, from, to)
  BY DEF K!SetState
<1>2. to \in K!CallerPcs /\ to # "abort"
  OBVIOUS
<1>3. /\ clientAt' \in [Callers -> K!CallerPcs] /\ clientAt[c] = from /\ clientAt'[c] = to
      /\ \A d \in Callers : d # c => clientAt'[d] = clientAt[d]
      /\ UNCHANGED <<tries, clientCalls>>
  BY <1>1, <1>2, CallerMoves
<1>4. state' = new /\ UNCHANGED <<connected, stale, shutdown, idKnown, handle, queued, K!tasks>>
  BY DEF K!SetState
<1> QED BY <1>2, <1>3, <1>4 DEF ClientPlain, Quiet, K!TypeOK

LEMMA Sending ==
  ASSUME K!ClientAssumption, K!TypeOK, NEW c \in Callers, NEW from,
         NEW to \in K!CallerPcs \ {"abort"},
         K!Sends(c, from, to)
  PROVE  ClientPlain(c) /\ Quiet /\ clientAt[c] = from /\ clientAt'[c] = to /\ connected' = connected
<1>1. /\ clientAt' \in [Callers -> K!CallerPcs] /\ clientAt[c] = from /\ clientAt'[c] = to
      /\ \A d \in Callers : d # c => clientAt'[d] = clientAt[d]
      /\ UNCHANGED <<tries, clientCalls>>
  BY CallerMoves DEF K!Sends
<1>2. queued' \in 0..EventCap
  BY DEF K!Sends, K!Room, K!TypeOK, K!ClientAssumption
<1>3. UNCHANGED <<state, connected, stale, shutdown, idKnown, handle, K!tasks>>
  BY DEF K!Sends, K!link
<1> QED BY <1>1, <1>2, <1>3 DEF ClientPlain, Quiet, K!TypeOK

LEMMA Moving ==
  ASSUME K!ClientAssumption, K!TypeOK, NEW c \in Callers, NEW from,
         NEW to \in K!CallerPcs \ {"abort"},
         K!Moves(c, from, to), UNCHANGED <<shutdown, queued, handle, K!tasks>>,
         state' \in K!ConnectionStates, connected' \in BOOLEAN, stale' \in BOOLEAN,
         idKnown' \in BOOLEAN
  PROVE  ClientPlain(c) /\ Quiet /\ clientAt[c] = from /\ clientAt'[c] = to
<1>1. /\ clientAt' \in [Callers -> K!CallerPcs] /\ clientAt[c] = from /\ clientAt'[c] = to
      /\ \A d \in Callers : d # c => clientAt'[d] = clientAt[d]
      /\ UNCHANGED <<tries, clientCalls>>
  BY CallerMoves
<1> QED BY <1>1 DEF ClientPlain, Quiet, K!TypeOK

(* Every step of a caller but the two that concern the manager: it keeps   *)
(* the types, connects only on the way to starting a manager, and leaves   *)
(* that way only there.                                                    *)
Goes(c) ==
  /\ ClientPlain(c) /\ Quiet
  /\ clientAt[c] # "abort" /\ clientAt[c] # "startManager"
  /\ connected' => connected \/ clientAt'[c] \in Connecting
  /\ clientAt[c] \in Connecting => clientAt'[c] \in Connecting

LEMMA CallerGoes ==
  ASSUME K!ClientAssumption, K!TypeOK, NEW c \in Callers, K!CallerStep(c), ~K!StartManager(c),
         ~K!AbortManager(c)
  PROVE  Goes(c)
<1> USE DEF K!CallerPcs, K!ConnectionStates
<1>0. /\ state \in K!ConnectionStates /\ connected \in BOOLEAN /\ stale \in BOOLEAN
      /\ idKnown \in BOOLEAN
  BY DEF K!TypeOK
<1>1. CASE K!CallerSends(c)
  <2>1. PICK from \in K!CallerPcs \ {"abort", "startManager"}, to \in K!CallerPcs \ {"abort"} :
          /\ K!Sends(c, from, to)
          /\ from \in Connecting => to \in Connecting
    BY <1>1 DEF K!CallerSends, K!TellConnecting, K!TellState, K!TellConnected, K!TellFailed,
       K!TellGivenUp,
       K!TellId, K!TellDown, K!TellDisconnected, Connecting
  <2>2. ClientPlain(c) /\ Quiet /\ clientAt[c] = from /\ clientAt'[c] = to /\ connected' = connected
    BY <2>1, Sending
  <2> QED BY <2>1, <2>2 DEF Goes
<1>2. CASE K!SetConnecting(c) \/ K!SetConnected(c) \/ K!SetFailed(c) \/ K!OutOfAttempts(c)
           \/ K!SetDisconnected(c)
  <2>1. PICK from \in K!CallerPcs \ {"abort", "startManager"}, new \in K!ConnectionStates,
             report \in K!CallerPcs \ {"abort"}, next \in K!CallerPcs \ {"abort"} :
          /\ K!SetState(c, from, new, report, next)
          /\ from \in Connecting => report \in Connecting /\ next \in Connecting
    BY <1>2 DEF K!SetConnecting, K!SetConnected, K!SetFailed, K!OutOfAttempts,
       K!SetDisconnected, Connecting
  <2>2. /\ ClientPlain(c) /\ Quiet /\ clientAt[c] = from /\ clientAt'[c] \in {report, next}
        /\ connected' = connected
    <3> HIDE DEF K!CallerPcs, K!ConnectionStates
    <3> QED BY <2>1, SettingState
  <2> QED BY <2>1, <2>2 DEF Goes
<1>3. CASE K!CheckFlag(c) \/ K!CheckState(c) \/ K!AttemptFails(c) \/ K!LoadId(c) \/ K!StoreId(c)
           \/ K!ClearFlag(c)
  <2>1. PICK from \in K!CallerPcs \ ({"abort"} \cup Connecting), to \in K!CallerPcs \ {"abort"} :
          K!Moves(c, from, to)
    BY <1>3 DEF K!CheckFlag, K!CheckState, K!AttemptFails, K!LoadId, K!StoreId, K!ClearFlag,
       K!Established,
       Connecting
  <2>2. /\ UNCHANGED <<shutdown, queued, handle, K!tasks>>
        /\ UNCHANGED <<state, stale>> /\ connected' \in {connected, FALSE}
        /\ idKnown' \in {idKnown, TRUE}
    BY <1>3 DEF K!CheckFlag, K!CheckState, K!AttemptFails, K!LoadId, K!StoreId, K!ClearFlag,
       K!link
  <2>3. ClientPlain(c) /\ Quiet /\ clientAt[c] = from /\ clientAt'[c] = to
    BY <1>0, <2>1, <2>2, Moving
  <2>4. connected' => connected
    BY <1>0, <2>2
  <2> QED BY <2>1, <2>3, <2>4 DEF Goes, Connecting
<1>4. CASE K!AttemptSucceeds(c)
  <2>1. ClientPlain(c) /\ Quiet /\ clientAt[c] = "attempt" /\ clientAt'[c] = "touch"
    BY <1>0, <1>4, Moving DEF K!AttemptSucceeds
  <2> QED BY <2>1 DEF Goes, Connecting
<1>5. CASE K!Touch(c)
  <2>1. /\ ClientPlain(c) /\ Quiet /\ clientAt[c] = "touch" /\ clientAt'[c] = "setConnected"
        /\ connected' = connected
    BY <1>0, <1>5, Moving DEF K!Touch
  <2> QED BY <2>1 DEF Goes, Connecting
<1>6. CASE K!Retry(c)
  <2>1. /\ clientAt[c] = "retry" /\ clientAt' = [clientAt EXCEPT ![c] = "attempt"]
        /\ tries' = [tries EXCEPT ![c] = @ + 1] /\ (MaxAttempts = 0 \/ tries[c] < MaxAttempts)
        /\ UNCHANGED <<state, connected, stale, shutdown, idKnown, handle, queued, clientCalls, K!tasks>>
    BY <1>6 DEF K!Retry, K!link
  <2>2. tries' \in [Callers -> Nat]
    BY <2>1 DEF K!TypeOK
  <2>3. MaxAttempts > 0 => \A d \in Callers : tries'[d] <= MaxAttempts
    BY <2>1 DEF K!TypeOK, K!ClientAssumption
  <2>4. clientAt' \in [Callers -> K!CallerPcs] /\ clientAt'[c] = "attempt" /\ \A d \in Callers : d # c => clientAt'[d] = clientAt[d]
    BY <2>1 DEF K!TypeOK
  <2> QED BY <2>1, <2>2, <2>3, <2>4 DEF Goes, ClientPlain, Quiet, K!TypeOK, Connecting
<1> QED BY <1>1, <1>2, <1>3, <1>4, <1>5, <1>6 DEF K!CallerStep

(* A call begins.                                                          *)
LEMMA CallBegins ==
  ASSUME K!ClientAssumption, K!TypeOK, NEW c \in Callers, K!Call(c) \/ K!Disconnect(c)
  PROVE  /\ K!TypeOK' /\ Quiet /\ clientAt[c] = "idle" /\ connected' = connected
         /\ \A d \in Callers : d # c => clientAt'[d] = clientAt[d]
         /\ \/ clientAt'[c] = "checkFlag" /\ shutdown' = shutdown
            \/ clientAt'[c] = "abort" /\ shutdown'
<1>1. /\ clientAt[c] = "idle" /\ clientCalls < MaxClientCalls /\ clientCalls' = clientCalls + 1
      /\ tries' \in {tries, [tries EXCEPT ![c] = 0]}
      /\ UNCHANGED <<state, connected, stale, idKnown, handle, queued, manager, aborted, backoff>>
      /\ \/ clientAt' = [clientAt EXCEPT ![c] = "checkFlag"] /\ shutdown' = shutdown
         \/ clientAt' = [clientAt EXCEPT ![c] = "abort"] /\ shutdown' = TRUE
  BY DEF K!Call, K!Disconnect, K!link, K!tasks
<1>2. clientCalls' \in 0..MaxClientCalls
  BY <1>1 DEF K!TypeOK, K!ClientAssumption
<1>3. tries' \in [Callers -> Nat] /\ (MaxAttempts > 0 => \A d \in Callers : tries'[d] <= MaxAttempts)
  BY <1>1 DEF K!TypeOK, K!ClientAssumption
<1>4. clientAt' \in [Callers -> K!CallerPcs]
  BY <1>1 DEF K!TypeOK, K!CallerPcs
<1>5. \A d \in Callers : d # c => clientAt'[d] = clientAt[d]
  BY <1>1 DEF K!TypeOK
<1>6. \/ clientAt'[c] = "checkFlag" /\ shutdown' = shutdown
      \/ clientAt'[c] = "abort" /\ shutdown' = TRUE
  BY <1>1 DEF K!TypeOK
<1>7. K!TypeOK'
  BY <1>1, <1>2, <1>3, <1>4 DEF K!TypeOK, K!Live
<1> QED BY <1>1, <1>5, <1>6, <1>7 DEF Quiet, K!tasks
-----------------------------------------------------------------------------
(* A step of a manager that takes it from one point to the next.           *)
LEMMA ManagerMoves ==
  ASSUME K!ClientAssumption, K!TypeOK, NEW m \in Managers, NEW from, from # "ended",
         NEW to \in K!ManagerPcs,
         K!Step(m, from, to)
  PROVE  /\ manager[m] = from /\ manager'[m] \in {to, "ended"}
         /\ m \notin aborted => manager'[m] = to
         /\ \A n \in Managers : n # m => manager'[n] = manager[n]
         /\ manager' \in [Managers -> K!ManagerPcs]
         /\ aborted' = IF manager'[m] = "ended" THEN aborted \ {m} ELSE aborted
<1> DEFINE next == IF m \in aborted /\ to \in {"sleep", "linking"} THEN "ended" ELSE to
<1>1. /\ manager[m] = from /\ manager' = [manager EXCEPT ![m] = next]
      /\ aborted' = IF next = "ended" THEN aborted \ {m} ELSE aborted
  BY DEF K!Step
<1>2. next \in K!ManagerPcs /\ next \in {to, "ended"} /\ (m \notin aborted => next = to)
  BY DEF K!ManagerPcs
<1> HIDE DEF next
<1>3. manager'[m] = next /\ \A n \in Managers : n # m => manager'[n] = manager[n]
  BY <1>1 DEF K!TypeOK
<1> QED BY <1>1, <1>2, <1>3 DEF K!TypeOK

(* A manager ends only aborted or shut down, and once shut down it does    *)
(* not get past its tick.                                                  *)
Runs(m) ==
  /\ K!Live(m) /\ \A n \in Managers : n # m => manager'[n] = manager[n]
  /\ manager' \in [Managers -> K!ManagerPcs]
  /\ aborted' = IF manager'[m] = "ended" THEN aborted \ {m} ELSE aborted
  /\ manager'[m] = "ended" => m \in aborted \/ shutdown
  /\ manager[m] = "tick" /\ m \notin aborted /\ shutdown => manager'[m] = "ended"
  /\ UNCHANGED <<shutdown, idKnown, handle, K!calls>>
  /\ state' \in K!ConnectionStates /\ connected' \in BOOLEAN /\ stale' \in BOOLEAN
  /\ queued' \in 0..EventCap /\ backoff' \in [Managers -> Nat]
  /\ MaxAttempts > 0 => \A n \in Managers : backoff'[n] <= MaxAttempts

LEMMA ManagerRuns ==
  ASSUME K!ClientAssumption, K!TypeOK, NEW m \in Managers, K!ManagerStep(m)
  PROVE  Runs(m)
<1> USE DEF K!ManagerPcs
<1>0. /\ state \in K!ConnectionStates /\ connected \in BOOLEAN /\ stale \in BOOLEAN
      /\ queued \in 0..EventCap /\ backoff \in [Managers -> Nat]
      /\ MaxAttempts > 0 => \A n \in Managers : backoff[n] <= MaxAttempts
      /\ manager \in [Managers -> K!ManagerPcs]
  BY DEF K!TypeOK
<1>1. ASSUME NEW from \in K!ManagerPcs \ {"ended", "tick"}, NEW to \in K!ManagerPcs \ {"ended"},
             K!Step(m, from, to), UNCHANGED <<shutdown, idKnown, handle, K!calls>>,
             state' \in K!ConnectionStates, connected' \in BOOLEAN, stale' \in BOOLEAN,
             queued' \in 0..EventCap, backoff' \in [Managers -> Nat],
             MaxAttempts > 0 => \A n \in Managers : backoff'[n] <= MaxAttempts
      PROVE  Runs(m)
  <2>1. /\ manager[m] = from /\ manager'[m] \in {to, "ended"}
        /\ m \notin aborted => manager'[m] = to
        /\ \A n \in Managers : n # m => manager'[n] = manager[n]
        /\ manager' \in [Managers -> K!ManagerPcs]
        /\ aborted' = IF manager'[m] = "ended" THEN aborted \ {m} ELSE aborted
    BY <1>1, ManagerMoves
  <2> QED BY <1>1, <2>1 DEF Runs, K!Live
<1>2. CASE K!AbortTakes(m)
  <2>1. /\ m \in aborted /\ manager' = [manager EXCEPT ![m] = "ended"]
        /\ aborted' = aborted \ {m}
        /\ UNCHANGED <<state, connected, stale, shutdown, idKnown, handle, queued, K!calls, backoff>>
    BY <1>2 DEF K!AbortTakes, K!link
  <2> QED BY <1>0, <2>1 DEF Runs, K!Live, K!TypeOK
<1>3. CASE K!Tick(m)
  <2>1. /\ K!Step(m, "tick", IF shutdown THEN "ended" ELSE "health")
        /\ UNCHANGED <<state, connected, stale, shutdown, idKnown, handle, queued, K!calls, backoff>>
    BY <1>3 DEF K!Tick, K!link
  <2> DEFINE to == IF shutdown THEN "ended" ELSE "health"
  <2>2. to \in K!ManagerPcs /\ (to = "ended" => shutdown) /\ (shutdown => to = "ended")
    OBVIOUS
  <2> HIDE DEF to
  <2>3. K!Step(m, "tick", to)
    BY <2>1 DEF to
  <2>4. /\ manager[m] = "tick" /\ manager'[m] \in {to, "ended"}
        /\ m \notin aborted => manager'[m] = to
        /\ \A n \in Managers : n # m => manager'[n] = manager[n]
        /\ manager' \in [Managers -> K!ManagerPcs]
        /\ aborted' = IF manager'[m] = "ended" THEN aborted \ {m} ELSE aborted
    BY <2>2, <2>3, ManagerMoves
  <2> QED BY <1>0, <2>1, <2>2, <2>4 DEF Runs, K!Live
<1>4. CASE K!Beat(m) \/ K!TellDead(m) \/ K!TellReconnecting(m) \/ K!TellRelinked(m)
  <2>1. PICK from \in K!ManagerPcs \ {"ended", "tick"}, to \in K!ManagerPcs \ {"ended"} :
          K!ManagerSends(m, from, to)
    BY <1>4 DEF K!Beat, K!TellDead, K!TellReconnecting, K!TellRelinked, K!Unhealthy
  <2>2. queued' \in 0..EventCap
    BY <2>1 DEF K!ManagerSends, K!Room, K!TypeOK, K!ClientAssumption
  <2>3. K!Step(m, from, to) /\ UNCHANGED <<state, connected, stale, shutdown, idKnown, handle, K!calls, backoff>>
    BY <2>1 DEF K!ManagerSends, K!link
  <2> QED BY <1>0, <1>1, <2>2, <2>3
<1>5. CASE K!CheckHealth(m) \/ K!CheckActivity(m) \/ K!ReconnectBegin(m) \/ K!SetReconnecting(m)
           \/ K!ReconnectGivesUp(m) \/ K!Slept(m) \/ K!RelinkFails(m) \/ K!RelinkTouch(m) \/ K!RelinkState(m)
  <2>1. PICK from \in K!ManagerPcs \ {"ended", "tick"}, to \in K!ManagerPcs \ {"ended"} :
          K!Step(m, from, to)
    BY <1>5 DEF K!CheckHealth, K!CheckActivity, K!ReconnectBegin, K!SetReconnecting,
       K!ReconnectGivesUp,
       K!Slept, K!RelinkFails, K!RelinkTouch, K!RelinkState, K!Unhealthy
  <2>2. /\ UNCHANGED <<connected, shutdown, idKnown, handle, queued, K!calls, backoff>>
        /\ state' \in K!ConnectionStates /\ stale' \in BOOLEAN
    BY <1>0, <1>5 DEF K!CheckHealth, K!CheckActivity, K!ReconnectBegin, K!SetReconnecting,
       K!ReconnectGivesUp, K!Slept, K!RelinkFails, K!RelinkTouch, K!RelinkState, K!link,
       K!ConnectionStates
  <2> QED BY <1>0, <1>1, <2>1, <2>2
<1>6. CASE K!BackOff(m)
  <2>1. /\ ~K!Exhausted(m) /\ K!Step(m, "backoff", "sleep") /\ backoff' = [backoff EXCEPT ![m] = @ + 1]
        /\ UNCHANGED <<state, connected, stale, shutdown, idKnown, handle, queued, K!calls>>
    BY <1>6 DEF K!BackOff, K!link
  <2>2. /\ backoff' \in [Managers -> Nat]
        /\ MaxAttempts > 0 => \A n \in Managers : backoff'[n] <= MaxAttempts
    BY <1>0, <2>1 DEF K!Exhausted, K!ClientAssumption
  <2> QED BY <1>0, <1>1, <2>1, <2>2
<1>7. CASE K!Relinked(m)
  <2>1. /\ K!Step(m, "linking", "relinked") /\ backoff' = [backoff EXCEPT ![m] = 0]
        /\ connected' = TRUE
        /\ UNCHANGED <<state, stale, shutdown, idKnown, handle, queued, K!calls>>
    BY <1>7 DEF K!Relinked
  <2>2. /\ backoff' \in [Managers -> Nat]
        /\ MaxAttempts > 0 => \A n \in Managers : backoff'[n] <= MaxAttempts
    <3>1. backoff' \in [Managers -> Nat]
      BY <1>0, <2>1
    <3>2. \A n \in Managers : backoff'[n] = 0 \/ backoff'[n] = backoff[n]
      BY <1>0, <2>1
    <3> QED BY <1>0, <3>1, <3>2 DEF K!ClientAssumption
  <2> QED BY <1>0, <1>1, <2>1, <2>2
<1> QED BY <1>2, <1>3, <1>4, <1>5, <1>6, <1>7 DEF K!ManagerStep
-----------------------------------------------------------------------------
(* A manager that has not been aborted is the one of the handle, and that  *)
(* one has not been: an identity is used again only once its task ended,   *)
(* and a task that ended is no longer among the aborted.                   *)
CoreInv == K!TypeOK /\ K!OneManager /\ handle \notin aborted

(* Of the managers that aborting the one of the handle leaves alive, each  *)
(* has been aborted.                                                       *)
LEMMA Aborting ==
  ASSUME K!ClientAssumption, CoreInv, NEW all, all = aborted \cup K!RunsOn(handle),
         NEW left, left = K!Without(handle)
  PROVE  /\ left \in [Managers -> K!ManagerPcs]
         /\ all \subseteq Managers
         /\ \A m \in Managers : m \in all <=> left[m] # "ended"
         /\ \A m \in Managers : left[m] # "ended" => left[m] = manager[m]
<1>1. /\ manager \in [Managers -> K!ManagerPcs] /\ handle \notin aborted
      /\ aborted \subseteq Managers /\ \A m \in aborted : K!Live(m)
      /\ \A m \in Managers : K!Live(m) /\ m \notin aborted => handle = m
  BY DEF CoreInv, K!TypeOK, K!OneManager
<1>2. left = [n \in Managers |-> IF n = handle /\ K!Suspended(n) THEN "ended" ELSE manager[n]]
  BY DEF K!Without
<1>3. all \subseteq Managers
  BY <1>1 DEF K!RunsOn
<1>4. left \in [Managers -> K!ManagerPcs]
  BY <1>1, <1>2 DEF K!ManagerPcs
<1>5. ASSUME NEW m \in Managers
      PROVE  /\ m \in all <=> left[m] # "ended"
             /\ left[m] # "ended" => left[m] = manager[m]
  <2>1. left[m] = IF m = handle /\ K!Suspended(m) THEN "ended" ELSE manager[m]
    BY <1>2
  <2>2. m \in all <=> m \in aborted \/ (m = handle /\ K!Live(m) /\ ~K!Suspended(m))
    BY DEF K!RunsOn
  <2>3. K!Live(m) <=> manager[m] # "ended"
    BY DEF K!Live
  <2>4. CASE m = handle
    BY <1>1, <2>1, <2>2, <2>3, <2>4
  <2>5. CASE m # handle
    BY <1>1, <2>1, <2>2, <2>3, <2>5
  <2> QED BY <2>4, <2>5
<1> QED BY <1>3, <1>4, <1>5

LEMMA InitCore == ASSUME K!ClientAssumption PROVE K!Init => CoreInv
<1> SUFFICES ASSUME K!Init PROVE CoreInv
  OBVIOUS
<1> USE DEF K!Init
<1>1. /\ state \in K!ConnectionStates /\ clientAt \in [Callers -> K!CallerPcs]
      /\ manager \in [Managers -> K!ManagerPcs]
  BY DEF K!ConnectionStates, K!CallerPcs, K!ManagerPcs
<1>2. /\ tries \in [Callers -> Nat] /\ backoff \in [Managers -> Nat]
      /\ queued \in 0..EventCap /\ clientCalls \in 0..MaxClientCalls
  BY DEF K!ClientAssumption
<1>3. MaxAttempts > 0 => /\ \A c \in Callers : tries[c] <= MaxAttempts
                         /\ \A m \in Managers : backoff[m] <= MaxAttempts
  BY DEF K!ClientAssumption
<1>4. /\ connected \in BOOLEAN /\ stale \in BOOLEAN /\ shutdown \in BOOLEAN
      /\ idKnown \in BOOLEAN /\ handle \in Managers \cup {NoManager}
      /\ aborted \subseteq {m \in Managers : K!Live(m)} /\ handle \notin aborted
  OBVIOUS
<1>5. K!OneManager
  BY DEF K!OneManager, K!Live
<1>6. K!TypeOK
  BY <1>1, <1>2, <1>3, <1>4 DEF K!TypeOK
<1> QED BY <1>4, <1>5, <1>6 DEF CoreInv

(* After a manager was started it alone runs unaborted, from its tick on.  *)
LEMMA Starting ==
  ASSUME K!ClientAssumption, CoreInv, NEW c \in Callers, K!StartManager(c)
  PROVE  /\ CoreInv' /\ clientAt[c] = "startManager" /\ clientAt'[c] \in K!Established
         /\ \A d \in Callers : d # c => clientAt'[d] = clientAt[d]
         /\ handle' \in Managers /\ K!Live(handle)' /\ manager'[handle'] = "tick"
         /\ UNCHANGED <<shutdown, state, connected>>
<1>1. PICK m \in Managers, next \in K!Established :
        /\ ~K!Live(m) /\ m # handle /\ K!Moves(c, "startManager", next)
        /\ aborted' = aborted \cup K!RunsOn(handle)
        /\ manager' = [K!Without(handle) EXCEPT ![m] = "tick"]
        /\ backoff' = [backoff EXCEPT ![m] = 0] /\ handle' = m
        /\ UNCHANGED <<state, connected, stale, shutdown, idKnown, queued>>
  BY DEF K!StartManager, K!link
<1> DEFINE left == K!Without(handle)
<1>2. /\ left \in [Managers -> K!ManagerPcs] /\ aborted' \subseteq Managers
      /\ \A n \in Managers : n \in aborted' <=> left[n] # "ended"
      /\ \A n \in Managers : left[n] # "ended" => left[n] = manager[n]
  BY <1>1, Aborting
<1>3. manager' = [left EXCEPT ![m] = "tick"]
  BY <1>1
<1> HIDE DEF left
<1>4. K!TypeOK
  BY DEF CoreInv
<1>5. next \in K!CallerPcs
  BY DEF K!Established, K!CallerPcs
<1>6. /\ clientAt' \in [Callers -> K!CallerPcs] /\ clientAt[c] = "startManager" /\ clientAt'[c] = next
      /\ \A d \in Callers : d # c => clientAt'[d] = clientAt[d]
      /\ UNCHANGED <<tries, clientCalls>>
  BY <1>1, <1>4, <1>5, CallerMoves
<1>7. m \notin aborted'
  BY <1>1, <1>2 DEF K!Live
<1>8. /\ manager' \in [Managers -> K!ManagerPcs] /\ manager'[m] = "tick"
      /\ \A n \in Managers : n # m => manager'[n] = left[n]
  BY <1>2, <1>3 DEF K!ManagerPcs
<1>9. aborted' \subseteq {n \in Managers : manager'[n] # "ended"}
  BY <1>2, <1>7, <1>8
<1>10. /\ backoff' \in [Managers -> Nat]
       /\ MaxAttempts > 0 => \A n \in Managers : backoff'[n] <= MaxAttempts
  BY <1>1, <1>4 DEF K!TypeOK, K!ClientAssumption
<1>11. K!TypeOK'
  BY <1>1, <1>4, <1>6, <1>8, <1>9, <1>10 DEF K!TypeOK, K!Live
<1>12. K!OneManager'
  BY <1>1, <1>2, <1>8 DEF K!OneManager, K!Live
<1> QED BY <1>1, <1>6, <1>7, <1>8, <1>11, <1>12 DEF CoreInv, K!Live

(* After disconnect() aborted the manager none runs unaborted.             *)
LEMMA Stopping ==
  ASSUME K!ClientAssumption, CoreInv, NEW c \in Callers, K!AbortManager(c)
  PROVE  /\ CoreInv' /\ clientAt[c] = "abort" /\ clientAt'[c] = "closing"
         /\ \A d \in Callers : d # c => clientAt'[d] = clientAt[d]
         /\ handle' = NoManager /\ \A m \in Managers : K!Live(m)' => m \in aborted'
         /\ UNCHANGED <<shutdown, state, connected>>
<1>1. /\ K!Moves(c, "abort", "closing")
      /\ aborted' = aborted \cup K!RunsOn(handle) /\ manager' = K!Without(handle)
      /\ handle' = NoManager
      /\ UNCHANGED <<state, connected, stale, shutdown, idKnown, queued, backoff>>
  BY DEF K!AbortManager, K!link
<1>2. /\ manager' \in [Managers -> K!ManagerPcs] /\ aborted' \subseteq Managers
      /\ \A n \in Managers : n \in aborted' <=> manager'[n] # "ended"
  BY <1>1, Aborting
<1>3. K!TypeOK
  BY DEF CoreInv
<1>4. "closing" \in K!CallerPcs
  BY DEF K!CallerPcs
<1>5. /\ clientAt' \in [Callers -> K!CallerPcs] /\ clientAt[c] = "abort" /\ clientAt'[c] = "closing"
      /\ \A d \in Callers : d # c => clientAt'[d] = clientAt[d]
      /\ UNCHANGED <<tries, clientCalls>>
  BY <1>1, <1>3, <1>4, CallerMoves
<1>6. K!TypeOK'
  BY <1>1, <1>2, <1>3, <1>5 DEF K!TypeOK, K!Live
<1>7. K!OneManager'
  BY <1>2 DEF K!OneManager, K!Live
<1>8. handle' \notin aborted'
  BY <1>1, <1>2 DEF K!ClientAssumption
<1> QED BY <1>1, <1>2, <1>5, <1>6, <1>7, <1>8 DEF CoreInv, K!Live

(* The other steps of a caller.                                            *)
LEMMA Going ==
  ASSUME K!ClientAssumption, CoreInv, NEW c \in Callers, Goes(c)
  PROVE  CoreInv'
<1>1. K!TypeOK'
  BY DEF CoreInv, Goes, ClientPlain, Quiet, K!TypeOK, K!tasks, K!Live
<1> QED BY <1>1 DEF CoreInv, K!OneManager, Goes, Quiet, K!tasks, K!Live

(* The steps of a manager, which starts none and aborts none.              *)
LEMMA Running ==
  ASSUME K!ClientAssumption, CoreInv, NEW m \in Managers, Runs(m)
  PROVE  CoreInv'
<1>1. /\ manager \in [Managers -> K!ManagerPcs] /\ handle \notin aborted /\ K!Live(m)
      /\ aborted \subseteq Managers /\ \A n \in aborted : K!Live(n)
      /\ \A n \in Managers : K!Live(n) /\ n \notin aborted => handle = n
  BY DEF CoreInv, K!TypeOK, K!OneManager, Runs
<1>2. /\ \A n \in Managers : n # m => manager'[n] = manager[n]
      /\ aborted' = IF manager'[m] = "ended" THEN aborted \ {m} ELSE aborted
      /\ handle' = handle
  BY DEF Runs
<1>3. aborted' \subseteq {n \in Managers : manager'[n] # "ended"}
  BY <1>1, <1>2 DEF K!Live
<1>4. K!TypeOK'
  BY <1>3 DEF CoreInv, K!TypeOK, Runs, K!Live, K!calls
<1>5. K!OneManager'
  BY <1>1, <1>2 DEF K!OneManager, K!Live
<1> QED BY <1>1, <1>2, <1>4, <1>5 DEF CoreInv

(* The channel and the clock.                                              *)
Aside ==
  /\ K!TypeOK' /\ UNCHANGED <<shutdown, state, connected, clientAt, handle, manager, aborted>>

LEMMA Elsewhere ==
  ASSUME K!ClientAssumption, K!TypeOK, K!Receive \/ K!GrowStale \/ UNCHANGED K!vars
  PROVE  Aside
<1>1. CASE K!Receive
  <2>1. queued' \in 0..EventCap
    BY <1>1 DEF K!Receive, K!TypeOK, K!ClientAssumption
  <2> QED BY <1>1, <2>1 DEF K!Receive, Aside, K!TypeOK, K!link, K!calls, K!tasks, K!Live
<1>2. CASE K!GrowStale
  BY <1>2 DEF K!GrowStale, Aside, K!TypeOK, K!calls, K!tasks, K!Live
<1>3. CASE UNCHANGED K!vars
  BY <1>3 DEF K!vars, Aside, K!TypeOK, K!link, K!calls, K!tasks, K!Live
<1> QED BY <1>1, <1>2, <1>3

LEMMA Cases ==
  ASSUME K!ClientAssumption, K!TypeOK, [K!Next]_(K!vars)
  PROVE  \/ \E c \in Callers : K!Call(c) \/ K!Disconnect(c) \/ K!StartManager(c) \/ K!AbortManager(c)
         \/ \E c \in Callers : Goes(c)
         \/ \E m \in Managers : Runs(m)
         \/ Aside
<1>1. CASE \E c \in Callers : K!CallerStep(c)
  <2>1. PICK c \in Callers : K!CallerStep(c)
    BY <1>1
  <2>2. CASE K!StartManager(c) \/ K!AbortManager(c)
    BY <2>2
  <2>3. CASE ~K!StartManager(c) /\ ~K!AbortManager(c)
    BY <2>1, <2>3, CallerGoes
  <2> QED BY <2>2, <2>3
<1>2. CASE \E m \in Managers : K!ManagerStep(m)
  BY <1>2, ManagerRuns
<1>3. CASE K!Receive \/ K!GrowStale \/ UNCHANGED K!vars
  BY <1>3, Elsewhere
<1> QED BY <1>1, <1>2, <1>3 DEF K!Next

LEMMA CoreStep == ASSUME K!ClientAssumption PROVE CoreInv /\ [K!Next]_(K!vars) => CoreInv'
<1> SUFFICES ASSUME CoreInv, [K!Next]_(K!vars) PROVE CoreInv'
  OBVIOUS
<1>1. K!TypeOK
  BY DEF CoreInv
<1>2. ASSUME NEW c \in Callers, K!Call(c) \/ K!Disconnect(c) PROVE CoreInv'
  BY <1>1, <1>2, CallBegins DEF CoreInv, K!OneManager, Quiet, K!tasks, K!Live
<1>3. CASE Aside
  BY <1>3 DEF Aside, CoreInv, K!OneManager, K!Live
<1> QED BY <1>1, <1>2, <1>3, Cases, Starting, Stopping, Going, Running

(* The client keeps its types: its channel its capacity and its backoff    *)
(* counters their limit.                                                   *)
THEOREM ClientIsTyped == K!Spec => []K!TypeOK
<1> USE InstancesAssumption
<1>1. CoreInv => K!TypeOK
  BY DEF CoreInv
<1> QED BY <1>1, InitCore, CoreStep, PTL DEF K!Spec

(* However connect() and disconnect() overlap, a manager that has not been *)
(* aborted is the one of the handle.                                       *)
THEOREM OneManagerAlone == K!Spec => []OneManager
<1> USE InstancesAssumption
<1>1. CoreInv => K!OneManager
  BY DEF CoreInv
<1> QED BY <1>1, InitCore, CoreStep, PTL DEF K!Spec, OneManager
-----------------------------------------------------------------------------
(* Until disconnect() is called, the manager of the handle lives, and a    *)
(* connection is watched or its maker is on the way to start the manager.  *)
OnTheWay == \E c \in Callers : clientAt[c] \in Connecting

WatchInv ==
  ~shutdown =>
    /\ \A c \in Callers : clientAt[c] # "abort"
    /\ handle # NoManager => K!Live(handle)
    /\ \A m \in Managers : K!Live(m) => handle # NoManager
    /\ connected => handle # NoManager \/ OnTheWay

LEMMA WatchStep ==
  ASSUME K!ClientAssumption, CoreInv, CoreInv', WatchInv, [K!Next]_(K!vars)
  PROVE  WatchInv'
<1>1. K!TypeOK
  BY DEF CoreInv
<1>2. CASE \E c \in Callers : K!Call(c) \/ K!Disconnect(c)
  <2>1. PICK c \in Callers : K!Call(c) \/ K!Disconnect(c)
    BY <1>2
  <2>2. /\ Quiet /\ clientAt[c] = "idle" /\ \A d \in Callers : d # c => clientAt'[d] = clientAt[d]
        /\ connected' = connected
        /\ \/ clientAt'[c] = "checkFlag" /\ shutdown' = shutdown
           \/ clientAt'[c] = "abort" /\ shutdown'
    BY <1>1, <2>1, CallBegins
  <2>3. OnTheWay => OnTheWay'
    BY <2>2 DEF OnTheWay, Connecting
  <2> QED BY <2>2, <2>3 DEF WatchInv, Quiet, K!tasks, K!Live
<1>3. CASE \E c \in Callers : K!StartManager(c)
  <2>1. PICK c \in Callers : K!StartManager(c)
    BY <1>3
  <2>2. /\ clientAt'[c] \in K!Established /\ \A d \in Callers : d # c => clientAt'[d] = clientAt[d]
        /\ handle' \in Managers /\ K!Live(handle)' /\ shutdown' = shutdown
    BY <2>1, Starting
  <2>3. handle' # NoManager
    BY <2>2 DEF K!ClientAssumption
  <2>4. ~shutdown' => \A d \in Callers : clientAt'[d] # "abort"
    BY <2>2 DEF WatchInv, K!Established
  <2> QED BY <2>2, <2>3, <2>4 DEF WatchInv
<1>4. CASE \E c \in Callers : K!AbortManager(c)
  <2>1. PICK c \in Callers : K!AbortManager(c)
    BY <1>4
  <2>2. clientAt[c] = "abort" /\ shutdown' = shutdown
    BY <2>1, Stopping
  <2> QED BY <2>2 DEF WatchInv
<1>5. CASE \E c \in Callers : Goes(c)
  <2>1. PICK c \in Callers : Goes(c)
    BY <1>5
  <2>2. /\ UNCHANGED <<shutdown, handle, manager, aborted>> /\ clientAt'[c] # "abort"
        /\ \A d \in Callers : d # c => clientAt'[d] = clientAt[d]
    BY <2>1 DEF Goes, ClientPlain, Quiet, K!tasks
  <2>3. /\ connected' => connected \/ clientAt'[c] \in Connecting
        /\ clientAt[c] \in Connecting => clientAt'[c] \in Connecting
    BY <2>1 DEF Goes
  <2>4. OnTheWay => OnTheWay'
    BY <2>2, <2>3 DEF OnTheWay
  <2>5. clientAt'[c] \in Connecting => OnTheWay'
    BY DEF OnTheWay
  <2>6. WatchInv /\ ~shutdown' /\ connected' => handle' # NoManager \/ OnTheWay'
    BY <2>2, <2>3, <2>4, <2>5 DEF WatchInv
  <2> QED BY <2>2, <2>6 DEF WatchInv, K!Live
<1>6. CASE \E m \in Managers : Runs(m)
  <2>1. PICK m \in Managers : Runs(m)
    BY <1>6
  <2>2. /\ UNCHANGED <<shutdown, handle, clientAt>> /\ K!Live(m)
        /\ \A n \in Managers : n # m => manager'[n] = manager[n]
        /\ manager'[m] = "ended" => m \in aborted \/ shutdown
    BY <2>1 DEF Runs, K!calls
  <2>3. handle \in Managers \cup {NoManager} /\ handle \notin aborted
    BY DEF CoreInv, K!TypeOK
  <2>4. ~shutdown => handle # NoManager
    BY <2>2 DEF WatchInv
  <2> QED BY <2>2, <2>3, <2>4 DEF WatchInv, K!Live
<1>7. CASE Aside
  BY <1>7 DEF Aside, WatchInv, OnTheWay, K!Live
<1> QED BY <1>1, <1>2, <1>3, <1>4, <1>5, <1>6, <1>7, Cases

(* A connection that the client reports while nobody is connecting is      *)
(* watched by a manager, whatever reconnections failed, until disconnect().*)
THEOREM ConnectionsAreWatched == K!Spec => []ConnectedIsWatched
<1> USE InstancesAssumption
<1>1. K!Init => WatchInv
  BY DEF K!Init, WatchInv, K!Live
<1>2. CoreInv /\ CoreInv' /\ WatchInv /\ [K!Next]_(K!vars) => WatchInv'
  BY WatchStep
<1>3. CoreInv /\ WatchInv => K!ConnectedIsWatched
  BY DEF CoreInv, WatchInv, K!ConnectedIsWatched, K!IsConnected, OnTheWay, Connecting
<1> QED BY <1>1, <1>2, <1>3, InitCore, CoreStep, PTL DEF K!Spec, ConnectedIsWatched
-----------------------------------------------------------------------------
(* What the run checks are behaviours of the six services: the theorems    *)
(* above are about all of them and more.                                   *)
THEOREM ServicesBehave ==
  ServicesSpec => Spec /\ H!Spec /\ R!Spec /\ C!Spec /\ I!Spec /\ K!Spec
<1> DEFINE all == <<service, vars, health, metrics, cache, ingest, client>>
<1>1. ServicesInit => Init /\ H!Init /\ R!Init /\ C!Init /\ I!Init /\ K!Init
  BY DEF ServicesInit
<1>2. [ServicesNext]_all => [Next]_vars
  BY DEF ServicesNext
<1>3. [ServicesNext]_all => [H!Next]_(H!vars)
  BY DEF ServicesNext, health, H!vars
<1>4. [ServicesNext]_all => [R!Next]_(R!vars)
  BY DEF ServicesNext, metrics, R!vars
<1>5. [ServicesNext]_all => [C!Next]_(C!vars)
  BY DEF ServicesNext, cache, C!vars, C!breaker
<1>6. [ServicesNext]_all => [I!Next]_(I!vars)
  BY DEF ServicesNext, ingest, I!vars, I!provider, I!table, I!command, I!counters
<1>7. [ServicesNext]_all => [K!Next]_(K!vars)
  BY DEF ServicesNext, client, K!vars, K!link, K!calls, K!tasks
<1> QED BY <1>1, <1>2, <1>3, <1>4, <1>5, <1>6, <1>7, PTL
        DEF ServicesSpec, Spec, H!Spec, R!Spec, C!Spec, I!Spec, K!Spec
=============================================================================
