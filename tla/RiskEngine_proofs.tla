-------------------------- MODULE RiskEngine_proofs --------------------------
(***************************************************************************)
(* Theorems about RiskEngine: its types, that a check is never allowed by  *)
(* a kill switch, an open breaker or a drawdown that it lived through, and *)
(* by how much a position may exceed its limit.                            *)
(***************************************************************************)
EXTENDS RiskEngine, FiniteSums

Pass == {"kill", "open"}

(* What a caller knows: a condition it is blocked by holds now, and those  *)
(* of the gate are behind it once it has passed the gate.                  *)
CallInv(c) ==
  /\ calls[c].blocked \subseteq Blocking
  /\ calls[c].pc \in {"loss", "drawdown"} => calls[c].blocked \cap Pass = {}
  /\ calls[c].decision = "Allow" => calls[c].blocked \subseteq {"loss"}

CallsInv == \A c \in Checks : CallInv(c)

(* The conditions as facts about each variable they are read from.         *)
LEMMA BlockingMeans ==
  /\ "kill" \in Blocking <=> killed
  /\ "open" \in Blocking <=> breaker = "Open"
  /\ "drawdown" \in Blocking <=> OverDrawn(currentEquity)
  /\ "loss" \in Blocking <=> earned < -DailyLossLimit
  /\ Blocking \subseteq {"kill", "open", "drawdown", "loss"}
BY DEF Blocking

(* A decision on the position size is one of the decisions.                *)
LEMMA PositionSizeType ==
  ASSUME NEW c, NEW copy
  PROVE PositionSize(c, copy) \in {"none", "Reject", "Reduce"}
BY DEF PositionSize

(* The quantity of the callers in S.                                       *)
LEMMA Quantities ==
  ASSUME NEW S, S \subseteq Checks
  PROVE  /\ IsFiniteSet(S) /\ \A c \in S : CheckedQty[c] \in Nat
         /\ SumOver(CheckedQty, S) \in Nat
<1>1. IsFiniteSet(S) /\ \A c \in S : CheckedQty[c] \in Nat
  BY FS_Subset, RiskAssumption
<1> QED BY <1>1, SumType

LEMMA QuantityIsSum ==
  ASSUME NEW S
  PROVE  Quantity(S) = SumOver(CheckedQty, S)
BY Zenon DEF Quantity, SumOver

LEMMA WayIsSum ==
  ASSUME NEW s
  PROVE  /\ OnTheWay(s) = working[s] + SumOver(CheckedQty, Claims(s))
         /\ OnTheWay(s)' = working'[s] + SumOver(CheckedQty, Claims(s)')
BY QuantityIsSum, Zenon DEF OnTheWay

LEMMA ClaimsAreCallers ==
  ASSUME NEW s
  PROVE  Claims(s) \subseteq Checks
BY DEF Claims

LEMMA WayType ==
  ASSUME TypeOK, NEW s \in Symbols
  PROVE  /\ working[s] \in Nat /\ SumOver(CheckedQty, Claims(s)) \in Nat
         /\ OnTheWay(s) \in Nat
<1>1. working[s] \in Nat
  BY DEF TypeOK
<1>2. SumOver(CheckedQty, Claims(s)) \in Nat
  BY Quantities, ClaimsAreCallers
<1> QED BY <1>1, <1>2, WayIsSum

LEMMA OverlapType ==
  ASSUME TypeOK, NEW c \in Checks, NoteOverlap(c)
  PROVE  overlap' \in [Symbols -> Nat]
<1> DEFINE s == CheckedSymbol[c]
<1>1. s \in Symbols
  BY RiskAssumption
<1>2. OnTheWay(s) \in Nat
  BY <1>1, WayType
<1>3. overlap' = overlap \/ overlap' = [overlap EXCEPT ![s] = OnTheWay(s)]
  BY DEF NoteOverlap
<1>4. overlap \in [Symbols -> Nat]
  BY DEF TypeOK
<1> HIDE DEF s
<1> QED BY <1>1, <1>2, <1>3, <1>4
-----------------------------------------------------------------------------
(* The initial state *)
LEMMA InitTypes == Init => TypeOK
<1> SUFFICES ASSUME Init PROVE TypeOK
  OBVIOUS
<1>1. NoPositions \in [Symbols -> Nat]
  BY DEF NoPositions
<1>2. Call("idle", NoPositions, "none", {}) \in CallRecord
  BY <1>1 DEF Call, CallRecord, CallPcs, Decisions
<1>3. calls \in [Checks -> CallRecord]
  BY <1>2 DEF Init
<1>4. history \in Seq(Decisions) /\ Len(history) <= HistoryCap
  BY RiskAssumption DEF Init
<1>5. openFor \in -1..BreakerTimeout /\ failures \in Nat
  BY RiskAssumption DEF Init
<1>6. equityPeak \in Nat /\ currentEquity \in Nat /\ realizedPnl \in Nat /\ earned \in Int
  BY RiskAssumption DEF Init
<1>7. positions \in [Symbols -> Nat] /\ killed \in BOOLEAN
  BY <1>1 DEF Init
<1>9. working \in [Symbols -> Nat] /\ overlap \in [Symbols -> Nat]
  BY <1>1 DEF Init
<1>8. breaker \in {"Closed", "Open", "HalfOpen"}
  BY DEF Init
<1> QED BY <1>3, <1>4, <1>5, <1>6, <1>7, <1>8, <1>9 DEF TypeOK

(* What the three forms of a step of a caller do to its record.            *)
LEMMA GotoType ==
  ASSUME TypeOK, NEW c \in Checks, NEW pc \in CallPcs, Goto(c, pc)
  PROVE calls' \in [Checks -> CallRecord]
<1>1. Call(pc, calls[c].copy, "none", calls[c].blocked) \in CallRecord
  BY DEF TypeOK, Call, CallRecord, Decisions
<1> QED BY <1>1 DEF Goto, TypeOK

LEMMA DecideType ==
  ASSUME TypeOK, NEW c \in Checks, NEW d \in Decisions, Decide(c, d)
  PROVE calls' \in [Checks -> CallRecord]
<1>1. Call("record", NoPositions, d, calls[c].blocked) \in CallRecord
  BY DEF TypeOK, Call, CallRecord, CallPcs, NoPositions
<1> QED BY <1>1 DEF Decide, TypeOK

LEMMA ReturnType ==
  ASSUME TypeOK, NEW c \in Checks, NEW pc \in CallPcs, Return(c, pc)
  PROVE calls' \in [Checks -> CallRecord]
<1>1. Call(pc, NoPositions, "none", {}) \in CallRecord
  BY DEF Call, CallRecord, Decisions, NoPositions
<1> QED BY <1>1 DEF Return, TypeOK

LEMMA StillBlockedType ==
  ASSUME TypeOK, StillBlocked
  PROVE calls' \in [Checks -> CallRecord]
<1> SUFFICES ASSUME NEW c \in Checks
             PROVE [calls[c] EXCEPT !.blocked = @ \cap Blocking'] \in CallRecord
  BY DEF StillBlocked
<1> QED BY DEF TypeOK, CallRecord
-----------------------------------------------------------------------------
(* The types are preserved *)
LEMMA CheckTypes ==
  ASSUME TypeOK, NEW c \in Checks, CheckStep(c)
  PROVE TypeOK'
<1>1. CASE CheckBegin(c)
  <2>1. Call("gate", positions, "none", Blocking) \in CallRecord
    BY BlockingMeans DEF TypeOK, Call, CallRecord, CallPcs, Decisions
  <2>2. calls' \in [Checks -> CallRecord]
    BY <1>1, <2>1 DEF CheckBegin, TypeOK
  <2>3. overlap' \in [Symbols -> Nat]
    BY <1>1, OverlapType DEF CheckBegin
  <2> QED BY <1>1, <2>2, <2>3 DEF CheckBegin, TypeOK, circuit, account
<1>2. CASE CheckGate(c)
  <2>1. calls' \in [Checks -> CallRecord]
    <3>1. CASE Goto(c, "loss")
      BY <3>1, GotoType DEF CallPcs
    <3>2. CASE Decide(c, "Reject")
      BY <3>2, DecideType DEF Decisions
    <3>3. CASE Decide(c, PositionSize(c, calls[c].copy))
      BY <3>3, DecideType, PositionSizeType DEF Decisions
    <3> QED BY <1>2, <3>1, <3>2, <3>3 DEF CheckGate
  <2> QED BY <1>2, <2>1 DEF CheckGate, TypeOK, circuit, account, market
<1>3. CASE CheckLoss(c)
  <2>1. calls' \in [Checks -> CallRecord]
    <3>1. CASE Goto(c, "drawdown")
      BY <3>1, GotoType DEF CallPcs
    <3>2. CASE Decide(c, "Reject")
      BY <3>2, DecideType DEF Decisions
    <3> QED BY <1>3, <3>1, <3>2 DEF CheckLoss
  <2> QED BY <1>3, <2>1 DEF CheckLoss, TypeOK, circuit, account, market
<1>4. CASE CheckDrawdown(c)
  <2>1. calls' \in [Checks -> CallRecord]
    <3>1. CASE Decide(c, "Allow")
      BY <3>1, DecideType DEF Decisions
    <3>2. CASE Decide(c, "Reject")
      BY <3>2, DecideType DEF Decisions
    <3> QED BY <1>4, <3>1, <3>2 DEF CheckDrawdown
  <2> QED BY <1>4, <2>1 DEF CheckDrawdown, TypeOK, circuit, account, market
<1>5. CASE CheckRecord(c)
  <2> DEFINE kept == IF Len(history) >= HistoryCap THEN Tail(history) ELSE history
  <2>1. kept \in Seq(Decisions) /\ Len(kept) <= HistoryCap - 1
    <3>1. CASE Len(history) >= HistoryCap
      <4>1. history # << >>
        BY <3>1, RiskAssumption
      <4> QED BY <3>1, <4>1, RiskAssumption DEF TypeOK
    <3>2. CASE ~(Len(history) >= HistoryCap)
      BY <3>2, RiskAssumption DEF TypeOK
    <3> QED BY <3>1, <3>2
  <2>2. calls[c].decision \in Decisions
    BY DEF TypeOK, CallRecord
  <2>3. history' = Append(kept, calls[c].decision)
    BY <1>5 DEF CheckRecord
  <2> HIDE DEF kept
  <2>4. history' \in Seq(Decisions) /\ Len(history') <= HistoryCap
    BY <2>1, <2>2, <2>3, RiskAssumption
  <2>5. calls' \in [Checks -> CallRecord]
    BY <1>5, ReturnType DEF CheckRecord, CallPcs
  <2> QED BY <1>5, <2>4, <2>5 DEF CheckRecord, TypeOK, circuit, account, market
<1>6. CASE OrderAccepted(c)
  <2>1. calls' \in [Checks -> CallRecord]
    BY <1>6, ReturnType DEF OrderAccepted, CallPcs
  <2>2. working' \in [Symbols -> Nat]
    BY <1>6, RiskAssumption DEF OrderAccepted, TypeOK
  <2> QED BY <1>6, <2>1, <2>2 DEF OrderAccepted, TypeOK, circuit, account
<1>7. CASE OrderRefused(c)
  <2>1. calls' \in [Checks -> CallRecord]
    BY <1>7, ReturnType DEF OrderRefused, CallPcs
  <2> QED BY <1>7, <2>1 DEF OrderRefused, TypeOK, circuit, account, market
<1> QED BY <1>1, <1>2, <1>3, <1>4, <1>5, <1>6, <1>7 DEF CheckStep

LEMMA MarketTypes ==
  ASSUME TypeOK, NEW s \in Symbols, MarketStep(s)
  PROVE TypeOK'
<1>1. CASE OrderFilled(s)
  <2>1. PICK q \in 1..working[s] :
          /\ working' = [working EXCEPT ![s] = @ - q]
          /\ \/ positions' = [positions EXCEPT ![s] = @ + q]
             \/ positions' = [positions EXCEPT ![s] = IF q > @ THEN q - @ ELSE @ - q]
    BY <1>1 DEF OrderFilled
  <2>2. working[s] \in Nat /\ positions[s] \in Nat /\ q \in Nat /\ q <= working[s]
    BY DEF TypeOK
  <2>3. working' \in [Symbols -> Nat]
    BY <2>1, <2>2 DEF TypeOK
  <2>4. positions' \in [Symbols -> Nat]
    BY <2>1, <2>2 DEF TypeOK
  <2> QED BY <1>1, <2>3, <2>4 DEF OrderFilled, TypeOK, circuit, account
<1>2. CASE OrderCancelled(s)
  <2>1. PICK q \in 1..working[s] : working' = [working EXCEPT ![s] = @ - q]
    BY <1>2 DEF OrderCancelled
  <2>2. working' \in [Symbols -> Nat]
    BY <2>1 DEF TypeOK
  <2> QED BY <1>2, <2>2 DEF OrderCancelled, TypeOK, circuit, account
<1>3. CASE PositionClosed(s)
  BY <1>3 DEF PositionClosed, TypeOK, circuit, account
<1> QED BY <1>1, <1>2, <1>3 DEF MarketStep

LEMMA EngineTypes ==
  ASSUME TypeOK, EngineStep
  PROVE TypeOK'
<1>1. CASE TriggerKillSwitch
  BY <1>1, RiskAssumption DEF TriggerKillSwitch, TypeOK, circuit, account, market
<1>2. CASE ResetKillSwitch
  BY <1>2, StillBlockedType DEF ResetKillSwitch, TypeOK, circuit, account, market
<1>3. CASE RecordFailure
  BY <1>3, RiskAssumption DEF RecordFailure, TypeOK, account, market
<1>4. CASE Tick
  BY <1>4, RiskAssumption DEF Tick, TypeOK, account, market
<1>5. CASE CheckBreakerRecovery
  BY <1>5, StillBlockedType DEF CheckBreakerRecovery, TypeOK, account, market
<1>6. CASE ConfirmRecovery
  BY <1>6, RiskAssumption DEF ConfirmRecovery, TypeOK, account, market
<1>7. CASE DailyReset
  BY <1>7, StillBlockedType DEF DailyReset, TypeOK, market
<1>8. ASSUME NEW e \in Equities, UpdateEquity(e)
      PROVE TypeOK'
  BY <1>8, StillBlockedType, RiskAssumption DEF UpdateEquity, TypeOK, circuit, market
<1>9. ASSUME NEW p \in Pnls, UpdateOnFill(p)
      PROVE TypeOK'
  BY <1>9, StillBlockedType, RiskAssumption DEF UpdateOnFill, TypeOK, market
<1> QED BY <1>1, <1>2, <1>3, <1>4, <1>5, <1>6, <1>7, <1>8, <1>9 DEF EngineStep

LEMMA NextTypes == TypeOK /\ [Next]_vars => TypeOK'
<1> SUFFICES ASSUME TypeOK, [Next]_vars PROVE TypeOK'
  OBVIOUS
<1>1. ASSUME NEW c \in Checks, CheckStep(c) PROVE TypeOK'
  BY <1>1, CheckTypes
<1>2. ASSUME NEW s \in Symbols, MarketStep(s) PROVE TypeOK'
  BY <1>2, MarketTypes
<1>3. CASE EngineStep
  BY <1>3, EngineTypes
<1>4. CASE UNCHANGED vars
  BY <1>4 DEF vars, circuit, account, market, TypeOK
<1> QED BY <1>1, <1>2, <1>3, <1>4 DEF Next

(* Every variable keeps its type, and the history of decisions its bound.  *)
THEOREM TypeCorrect == Spec => []TypeOK
BY InitTypes, NextTypes, PTL DEF Spec
-----------------------------------------------------------------------------
(* Blocked calls: a step that lifts a condition takes it from every call,  *)
(* the other steps of the engine can only add conditions.                  *)
LEMMA LiftedCalls ==
  ASSUME CallsInv, TypeOK, StillBlocked
  PROVE CallsInv'
<1> SUFFICES ASSUME NEW c \in Checks PROVE CallInv(c)'
  BY DEF CallsInv
<1>1. calls'[c] = [calls[c] EXCEPT !.blocked = @ \cap Blocking']
  BY DEF StillBlocked
<1>2. calls[c] \in CallRecord
  BY DEF TypeOK
<1>3. /\ calls'[c].blocked = calls[c].blocked \cap Blocking'
      /\ calls'[c].pc = calls[c].pc
      /\ calls'[c].decision = calls[c].decision
  BY <1>1, <1>2 DEF CallRecord
<1>4. CallInv(c)
  BY DEF CallsInv
<1> QED BY <1>3, <1>4 DEF CallInv

LEMMA GrowingCalls ==
  ASSUME CallsInv, calls' = calls, Blocking \subseteq Blocking'
  PROVE CallsInv'
BY DEF CallsInv, CallInv

(* In a step of one caller the conditions and the other callers' records   *)
(* stay as they are.                                                       *)
LEMMA OwnCall ==
  ASSUME CallsInv, TypeOK, NEW c \in Checks, NEW r,
         calls' = [calls EXCEPT ![c] = r], Blocking' = Blocking,
         r.blocked \subseteq Blocking,
         r.pc \in {"loss", "drawdown"} => r.blocked \cap Pass = {},
         r.decision = "Allow" => r.blocked \subseteq {"loss"}
  PROVE CallsInv'
<1> SUFFICES ASSUME NEW d \in Checks PROVE CallInv(d)'
  BY DEF CallsInv
<1>1. CASE d = c
  <2>1. calls'[d] = r
    BY <1>1 DEF TypeOK
  <2> QED BY <2>1 DEF CallInv
<1>2. CASE d # c
  <2>1. calls'[d] = calls[d]
    BY <1>2 DEF TypeOK
  <2>2. CallInv(d)
    BY DEF CallsInv
  <2> QED BY <2>1, <2>2 DEF CallInv
<1> QED BY <1>1, <1>2

LEMMA GotoCall ==
  ASSUME CallsInv, TypeOK, NEW c \in Checks, NEW pc, Goto(c, pc), Blocking' = Blocking,
         pc \in {"loss", "drawdown"} => calls[c].blocked \cap Pass = {}
  PROVE CallsInv'
<1> DEFINE r == Call(pc, calls[c].copy, "none", calls[c].blocked)
<1>1. r.pc = pc /\ r.decision = "none" /\ r.blocked = calls[c].blocked
  BY DEF Call
<1>2. calls' = [calls EXCEPT ![c] = r]
  BY DEF Goto
<1> HIDE DEF r
<1>3. CallInv(c)
  BY DEF CallsInv
<1> QED BY <1>1, <1>2, <1>3, OwnCall DEF CallInv

LEMMA DecideCall ==
  ASSUME CallsInv, TypeOK, NEW c \in Checks, NEW d, Decide(c, d), Blocking' = Blocking,
         d = "Allow" => calls[c].blocked \subseteq {"loss"}
  PROVE CallsInv'
<1> DEFINE r == Call("record", NoPositions, d, calls[c].blocked)
<1>1. r.pc = "record" /\ r.decision = d /\ r.blocked = calls[c].blocked
  BY DEF Call
<1>2. calls' = [calls EXCEPT ![c] = r]
  BY DEF Decide
<1> HIDE DEF r
<1>3. CallInv(c)
  BY DEF CallsInv
<1> QED BY <1>1, <1>2, <1>3, OwnCall DEF CallInv

LEMMA ReturnCall ==
  ASSUME CallsInv, TypeOK, NEW c \in Checks, NEW pc, Return(c, pc), Blocking' = Blocking,
         pc \in {"ordered", "idle"}
  PROVE CallsInv'
<1> DEFINE r == Call(pc, NoPositions, "none", {})
<1>1. r.pc = pc /\ r.decision = "none" /\ r.blocked = {}
  BY DEF Call
<1>2. calls' = [calls EXCEPT ![c] = r]
  BY DEF Return
<1> HIDE DEF r
<1> QED BY <1>1, <1>2, OwnCall
-----------------------------------------------------------------------------
LEMMA CheckKeepsCalls ==
  ASSUME CallsInv, TypeOK, NEW c \in Checks, CheckStep(c)
  PROVE CallsInv'
<1>1. Blocking' = Blocking
  BY DEF CheckStep, CheckBegin, CheckGate, CheckLoss, CheckDrawdown, CheckRecord,
         OrderAccepted, OrderRefused, circuit, account, Blocking, OverDrawn
<1>2. CallInv(c)
  BY DEF CallsInv
<1>3. CASE CheckBegin(c)
  <2> DEFINE r == Call("gate", positions, "none", Blocking)
  <2>1. r.pc = "gate" /\ r.decision = "none" /\ r.blocked = Blocking
    BY DEF Call
  <2>2. calls' = [calls EXCEPT ![c] = r]
    BY <1>3 DEF CheckBegin
  <2> HIDE DEF r
  <2> QED BY <2>1, <2>2, <1>1, OwnCall
<1>4. CASE CheckGate(c)
  <2>1. CASE Goto(c, "loss") /\ ~killed /\ breaker # "Open"
    <3>1. calls[c].blocked \cap Pass = {}
      BY <2>1, <1>2, BlockingMeans DEF CallInv, Pass
    <3> QED BY <2>1, <3>1, <1>1, GotoCall
  <2>2. CASE Decide(c, "Reject")
    BY <2>2, <1>1, DecideCall
  <2>3. CASE Decide(c, PositionSize(c, calls[c].copy))
    <3>1. PositionSize(c, calls[c].copy) # "Allow"
      BY PositionSizeType
    <3> QED BY <2>3, <3>1, <1>1, DecideCall
  <2> QED BY <1>4, <2>1, <2>2, <2>3 DEF CheckGate
<1>5. CASE CheckLoss(c)
  <2>1. calls[c].blocked \cap Pass = {}
    BY <1>5, <1>2 DEF CheckLoss, CallInv
  <2>2. CASE Goto(c, "drawdown")
    BY <2>2, <2>1, <1>1, GotoCall
  <2>3. CASE Decide(c, "Reject")
    BY <2>3, <1>1, DecideCall
  <2> QED BY <1>5, <2>2, <2>3 DEF CheckLoss
<1>6. CASE CheckDrawdown(c)
  <2>1. CASE Decide(c, "Reject")
    BY <2>1, <1>1, DecideCall
  <2>2. CASE Decide(c, "Allow") /\ ~OverDrawn(currentEquity)
    <3>1. calls[c].blocked \cap Pass = {}
      BY <1>6, <1>2 DEF CheckDrawdown, CallInv
    <3>2. "drawdown" \notin Blocking
      BY <2>2, BlockingMeans
    <3>3. calls[c].blocked \subseteq {"loss"}
      BY <3>1, <3>2, <1>2, BlockingMeans DEF CallInv, Pass
    <3> QED BY <2>2, <3>3, <1>1, DecideCall
  <2> QED BY <1>6, <2>1, <2>2 DEF CheckDrawdown
<1>7. CASE CheckRecord(c)
  BY <1>7, <1>1, ReturnCall DEF CheckRecord
<1>8. CASE OrderAccepted(c)
  BY <1>8, <1>1, ReturnCall DEF OrderAccepted
<1>9. CASE OrderRefused(c)
  BY <1>9, <1>1, ReturnCall DEF OrderRefused
<1> QED BY <1>3, <1>4, <1>5, <1>6, <1>7, <1>8, <1>9 DEF CheckStep

LEMMA EngineKeepsCalls ==
  ASSUME CallsInv, TypeOK, EngineStep
  PROVE CallsInv'
<1>1. CASE StillBlocked
  BY <1>1, LiftedCalls
<1>2. CASE TriggerKillSwitch
  <2>1. Blocking \subseteq Blocking'
    BY <1>2 DEF TriggerKillSwitch, circuit, account, Blocking, OverDrawn
  <2> QED BY <1>2, <2>1, GrowingCalls DEF TriggerKillSwitch
<1>3. CASE RecordFailure
  <2>1. Blocking \subseteq Blocking'
    BY <1>3 DEF RecordFailure, account, Blocking, OverDrawn
  <2> QED BY <1>3, <2>1, GrowingCalls DEF RecordFailure
<1>4. CASE Tick
  <2>1. Blocking \subseteq Blocking'
    BY <1>4 DEF Tick, account, Blocking, OverDrawn
  <2> QED BY <1>4, <2>1, GrowingCalls DEF Tick
<1>5. CASE ConfirmRecovery
  <2>1. Blocking \subseteq Blocking'
    BY <1>5 DEF ConfirmRecovery, account, Blocking, OverDrawn
  <2> QED BY <1>5, <2>1, GrowingCalls DEF ConfirmRecovery
<1> QED BY <1>1, <1>2, <1>3, <1>4, <1>5
       DEF EngineStep, ResetKillSwitch, CheckBreakerRecovery, DailyReset,
           UpdateEquity, UpdateOnFill

LEMMA InitCalls == Init => CallsInv
<1> SUFFICES ASSUME Init, NEW c \in Checks PROVE CallInv(c)
  BY DEF CallsInv
<1>1. calls[c] = Call("idle", NoPositions, "none", {})
  BY DEF Init
<1> QED BY <1>1 DEF Call, CallInv

LEMMA NextCalls == CallsInv /\ TypeOK /\ [Next]_vars => CallsInv'
<1> SUFFICES ASSUME CallsInv, TypeOK, [Next]_vars PROVE CallsInv'
  OBVIOUS
<1>1. ASSUME NEW c \in Checks, CheckStep(c) PROVE CallsInv'
  BY <1>1, CheckKeepsCalls
<1>2. ASSUME NEW s \in Symbols, MarketStep(s) PROVE CallsInv'
  <2>1. UNCHANGED <<calls, killed, circuit, account>>
    BY <1>2 DEF MarketStep, OrderFilled, OrderCancelled, PositionClosed
  <2>2. Blocking \subseteq Blocking'
    BY <2>1 DEF circuit, account, Blocking, OverDrawn
  <2> QED BY <2>1, <2>2, GrowingCalls
<1>3. CASE EngineStep
  BY <1>3, EngineKeepsCalls
<1>4. CASE UNCHANGED vars
  <2>1. Blocking \subseteq Blocking'
    BY <1>4 DEF vars, circuit, account, Blocking, OverDrawn
  <2> QED BY <1>4, <2>1, GrowingCalls DEF vars
<1> QED BY <1>1, <1>2, <1>3, <1>4 DEF Next

(* An order is never allowed by a check during all of which the kill       *)
(* switch was on, the breaker open or the drawdown beyond its limit.       *)
THEOREM BlockedChecksReject == Spec => []BlockedNeverAllowed
<1>1. CallsInv => BlockedNeverAllowed
  BY DEF CallsInv, CallInv, BlockedNeverAllowed
<1> QED BY <1>1, InitCalls, NextCalls, TypeCorrect, PTL DEF Spec
-----------------------------------------------------------------------------
(* The breaker is closed only below its threshold, and open only with the  *)
(* time stamp that lets it recover: no failure, fill, daily reset or       *)
(* recovery in between leads it into a state that it cannot leave.         *)
THEOREM BreakerNeverStuck == Spec => []BreakerAgrees
<1>1. Init => BreakerAgrees
  BY RiskAssumption DEF Init, BreakerAgrees
<1>2. BreakerAgrees /\ TypeOK /\ [Next]_vars => BreakerAgrees'
  <2> SUFFICES ASSUME BreakerAgrees, TypeOK, [Next]_vars PROVE BreakerAgrees'
    OBVIOUS
  <2>1. ASSUME NEW c \in Checks, CheckStep(c) PROVE UNCHANGED circuit
    BY <2>1 DEF CheckStep, CheckBegin, CheckGate, CheckLoss, CheckDrawdown, CheckRecord,
                OrderAccepted, OrderRefused
  <2>2. CASE UNCHANGED circuit
    BY <2>2 DEF BreakerAgrees, circuit
  <2>3. CASE RecordFailure
    BY <2>3, RiskAssumption DEF RecordFailure, BreakerAgrees, TypeOK
  <2>4. CASE Tick
    BY <2>4 DEF Tick, BreakerAgrees, TypeOK
  <2>5. CASE CheckBreakerRecovery
    BY <2>5 DEF CheckBreakerRecovery, BreakerAgrees
  <2>6. CASE ConfirmRecovery
    BY <2>6, RiskAssumption DEF ConfirmRecovery, BreakerAgrees
  <2>7. CASE DailyReset
    BY <2>7, RiskAssumption DEF DailyReset, BreakerAgrees
  <2>8. ASSUME NEW p \in Pnls, UpdateOnFill(p) PROVE BreakerAgrees'
    BY <2>8, RiskAssumption DEF UpdateOnFill, BreakerAgrees
  <2> QED BY <2>1, <2>2, <2>3, <2>4, <2>5, <2>6, <2>7, <2>8
          DEF Next, EngineStep, TriggerKillSwitch, ResetKillSwitch, UpdateEquity,
              MarketStep, OrderFilled, OrderCancelled, PositionClosed, vars
<1> QED BY <1>1, <1>2, TypeCorrect, PTL DEF Spec

(* Peak equity is never below the current one, so that the drawdown the    *)
(* limit is compared with is never negative.                               *)
THEOREM PeakIsNeverBelow == Spec => []PeakIsPeak
<1>1. Init => PeakIsPeak
  BY RiskAssumption DEF Init, PeakIsPeak
<1>2. PeakIsPeak /\ TypeOK /\ [Next]_vars => PeakIsPeak'
  <2> SUFFICES ASSUME PeakIsPeak, TypeOK, [Next]_vars PROVE PeakIsPeak'
    OBVIOUS
  <2>1. ASSUME NEW c \in Checks, CheckStep(c) PROVE UNCHANGED <<equityPeak, currentEquity>>
    BY <2>1 DEF CheckStep, CheckBegin, CheckGate, CheckLoss, CheckDrawdown, CheckRecord,
                OrderAccepted, OrderRefused, account
  <2>2. ASSUME NEW e \in Equities, UpdateEquity(e) PROVE PeakIsPeak'
    BY <2>2, RiskAssumption DEF UpdateEquity, PeakIsPeak, TypeOK
  <2>3. CASE UNCHANGED <<equityPeak, currentEquity>>
    BY <2>3 DEF PeakIsPeak
  <2> QED BY <2>1, <2>2, <2>3
          DEF Next, EngineStep, TriggerKillSwitch, ResetKillSwitch, RecordFailure, Tick,
              CheckBreakerRecovery, ConfirmRecovery, DailyReset, UpdateOnFill,
              MarketStep, OrderFilled, OrderCancelled, PositionClosed, account, vars
<1> QED BY <1>1, <1>2, TypeCorrect, PTL DEF Spec
-----------------------------------------------------------------------------
(* A position and all that is on the way to it exceed the limit by no more *)
(* than was on the way when some check found room: that check's own order  *)
(* fits in beside the position alone.                                      *)
RoomInv(s) == positions[s] + OnTheWay(s) <= MaxPositionSize[s] + overlap[s]

RoomsInv == \A s \in DOMAIN MaxPositionSize : RoomInv(s)

LEMMA Limits ==
  ASSUME TypeOK, NEW s \in DOMAIN MaxPositionSize
  PROVE  /\ s \in Symbols /\ MaxPositionSize[s] \in Nat /\ positions[s] \in Nat
         /\ working[s] \in Nat /\ overlap[s] \in Nat
         /\ SumOver(CheckedQty, Claims(s)) \in Nat /\ OnTheWay(s) \in Nat
<1>1. s \in Symbols /\ MaxPositionSize[s] \in Nat
  BY RiskAssumption
<1>2. positions[s] \in Nat /\ overlap[s] \in Nat
  BY <1>1 DEF TypeOK
<1> QED BY <1>1, <1>2, WayType

(* What is executed, cancelled, refused or rejected makes no position and  *)
(* nothing that is on the way to it greater.                               *)
LEMMA NoneAdded ==
  ASSUME TypeOK, TypeOK', NEW s \in DOMAIN MaxPositionSize, RoomInv(s),
         overlap'[s] >= overlap[s],
         positions'[s] + working'[s] <= positions[s] + working[s],
         Claims(s)' \subseteq Claims(s)
  PROVE  RoomInv(s)'
<1>1. PICK old, new : old = Claims(s) /\ new = Claims(s)'
  OBVIOUS
<1>2. old \subseteq Checks /\ new \subseteq old
  BY <1>1, ClaimsAreCallers
<1>3. SumOver(CheckedQty, new) <= SumOver(CheckedQty, old)
  BY <1>2, Quantities, SumSubset
<1>4. SumOver(CheckedQty, new) \in Nat /\ SumOver(CheckedQty, old) \in Nat
  BY <1>2, Quantities
<1>5. /\ OnTheWay(s) = working[s] + SumOver(CheckedQty, old)
      /\ OnTheWay(s)' = working'[s] + SumOver(CheckedQty, new)
  BY <1>1, WayIsSum
<1>6. s \in Symbols /\ MaxPositionSize[s] \in Nat
  BY RiskAssumption
<1>7. /\ positions[s] \in Nat /\ working[s] \in Nat /\ overlap[s] \in Nat
      /\ positions'[s] \in Nat /\ working'[s] \in Nat /\ overlap'[s] \in Nat
  BY <1>6 DEF TypeOK
<1>8. positions[s] + OnTheWay(s) <= MaxPositionSize[s] + overlap[s]
  BY DEF RoomInv
<1>9. positions'[s] + OnTheWay(s)' <= MaxPositionSize[s] + overlap'[s]
  BY <1>3, <1>4, <1>5, <1>6, <1>7, <1>8
<1> QED BY <1>9 DEF RoomInv

(* A check that finds room for its order in the copy of the positions      *)
(* notes what else is on the way.                                          *)
LEMMA OneAdded ==
  ASSUME TypeOK, TypeOK', NEW c \in Checks, CheckBegin(c), ~Claiming(c),
         PositionSize(c, positions) = "none",
         NEW s \in DOMAIN MaxPositionSize, s = CheckedSymbol[c],
         Claims(s)' = Claims(s) \cup {c}
  PROVE  RoomInv(s)'
<1>1. PICK old, new : old = Claims(s) /\ new = Claims(s)'
  OBVIOUS
<1>2. old \subseteq Checks /\ c \notin old /\ new = old \cup {c}
  BY <1>1, ClaimsAreCallers DEF Claims
<1>3. SumOver(CheckedQty, new) = CheckedQty[c] + SumOver(CheckedQty, old)
  <2>1. IsFiniteSet(old) /\ \A d \in old \cup {c} : CheckedQty[d] \in Int
    BY <1>2, Quantities, RiskAssumption
  <2> QED BY <1>2, <2>1, SumInsert
<1>4. positions[s] + CheckedQty[c] <= MaxPositionSize[s]
  BY DEF PositionSize
<1>5. positions' = positions /\ working' = working
  BY DEF CheckBegin
<1>6. /\ OnTheWay(s) = working[s] + SumOver(CheckedQty, old)
      /\ OnTheWay(s)' = working[s] + SumOver(CheckedQty, new)
  BY <1>1, <1>5, WayIsSum
<1>7. /\ s \in Symbols /\ MaxPositionSize[s] \in Nat /\ positions[s] \in Nat
      /\ working[s] \in Nat /\ overlap[s] \in Nat /\ OnTheWay(s) \in Nat
      /\ SumOver(CheckedQty, old) \in Nat /\ CheckedQty[c] \in Nat
  BY <1>1, Limits, RiskAssumption
<1>8. overlap'[s] \in Nat /\ overlap'[s] >= OnTheWay(s)
  <2>1. overlap \in [Symbols -> Nat]
    BY DEF TypeOK
  <2>2. overlap' = IF OnTheWay(s) > overlap[s]
                   THEN [overlap EXCEPT ![s] = OnTheWay(s)]
                   ELSE overlap
    BY DEF CheckBegin, NoteOverlap
  <2> QED BY <1>7, <2>1, <2>2
<1>9. positions[s] + OnTheWay(s)' <= MaxPositionSize[s] + overlap'[s]
  BY <1>3, <1>4, <1>6, <1>7, <1>8
<1> QED BY <1>5, <1>9 DEF RoomInv

(* An order that is accepted works at the gateway instead of being claimed.*)
LEMMA OneAccepted ==
  ASSUME TypeOK, NEW c \in Checks, OrderAccepted(c), Claiming(c),
         NEW s \in DOMAIN MaxPositionSize, s = CheckedSymbol[c], RoomInv(s),
         Claims(s)' = Claims(s) \ {c}
  PROVE  RoomInv(s)'
<1>1. PICK old, new : old = Claims(s) /\ new = Claims(s)'
  OBVIOUS
<1>2. old \subseteq Checks /\ c \in old /\ new = old \ {c}
  BY <1>1, ClaimsAreCallers DEF Claims
<1>3. SumOver(CheckedQty, old) = CheckedQty[c] + SumOver(CheckedQty, new)
  <2>1. IsFiniteSet(old) /\ \A d \in old : CheckedQty[d] \in Int
    BY <1>2, Quantities
  <2> QED BY <1>2, <2>1, SumRemove
<1>4. s \in Symbols /\ working \in [Symbols -> Nat]
  BY Limits DEF TypeOK
<1>5. working'[s] = working[s] + CheckedQty[c] /\ positions' = positions /\ overlap' = overlap
  BY <1>4 DEF OrderAccepted
<1>6. /\ OnTheWay(s) = working[s] + SumOver(CheckedQty, old)
      /\ OnTheWay(s)' = working'[s] + SumOver(CheckedQty, new)
  BY <1>1, WayIsSum
<1>7. working[s] \in Nat /\ CheckedQty[c] \in Nat /\ SumOver(CheckedQty, new) \in Nat
  BY <1>2, <1>4, Quantities, RiskAssumption
<1>8. OnTheWay(s)' = OnTheWay(s)
  BY <1>3, <1>5, <1>6, <1>7
<1> QED BY <1>5, <1>8 DEF RoomInv
-----------------------------------------------------------------------------
(* What a step of a caller does to its claim: only a check that finds room *)
(* makes one.                                                              *)
LEMMA CallerClaims ==
  ASSUME TypeOK, NEW c \in Checks, CheckStep(c), ~(Claiming(c)' => Claiming(c))
  PROVE  CheckBegin(c) /\ PositionSize(c, positions) = "none"
<1>1. \A d \in Checks : calls[d] \in CallRecord
  BY DEF TypeOK
<1>2. CASE CheckBegin(c)
  <2>1. calls'[c] = Call("gate", positions, "none", Blocking)
    BY <1>2 DEF CheckBegin, TypeOK
  <2>2. PositionSize(c, positions) = "none"
    BY <2>1 DEF Claiming, Call, PositionSize
  <2> QED BY <1>2, <2>2
<1>3. CASE CheckGate(c)
  <2>1. calls[c].pc = "gate"
    BY <1>3 DEF CheckGate
  <2>2. CASE PositionSize(c, calls[c].copy) = "none"
    BY <2>1, <2>2 DEF Claiming
  <2>3. CASE PositionSize(c, calls[c].copy) # "none"
    <3>1. PICK d \in {"Reject", "Reduce"} : Decide(c, d)
      BY <1>3, <2>3, PositionSizeType DEF CheckGate
    <3>2. calls'[c].pc = "record" /\ calls'[c].decision = d
      BY <3>1 DEF Decide, TypeOK, Call
    <3> QED BY <3>2 DEF Claiming
  <2> QED BY <2>2, <2>3
<1>4. CASE CheckLoss(c) \/ CheckDrawdown(c)
  <2>1. calls[c].pc \in {"loss", "drawdown"}
    BY <1>4 DEF CheckLoss, CheckDrawdown
  <2> QED BY <2>1 DEF Claiming
<1>5. CASE CheckRecord(c)
  <2>1. calls[c].pc = "record"
    BY <1>5 DEF CheckRecord
  <2>2. calls[c].decision # "Allow" => calls'[c].pc = "idle"
    BY <1>5 DEF CheckRecord, Return, TypeOK, Call
  <2> QED BY <2>1, <2>2 DEF Claiming
<1>6. CASE OrderAccepted(c) \/ OrderRefused(c)
  <2>1. Return(c, "idle")
    BY <1>6 DEF OrderAccepted, OrderRefused
  <2>2. calls'[c].pc = "idle"
    BY <2>1 DEF Return, TypeOK, Call
  <2> QED BY <2>2 DEF Claiming
<1> QED BY <1>2, <1>3, <1>4, <1>5, <1>6 DEF CheckStep

(* Nobody else's claim changes.                                            *)
LEMMA OthersClaims ==
  ASSUME TypeOK, NEW c \in Checks, CheckStep(c), NEW d \in Checks, d # c
  PROVE  Claiming(d)' <=> Claiming(d)
<1>1. calls'[d] = calls[d]
  BY DEF CheckStep, CheckBegin, CheckGate, CheckLoss, CheckDrawdown, CheckRecord, OrderAccepted,
         OrderRefused, Goto, Decide, Return, TypeOK
<1> QED BY <1>1 DEF Claiming, PositionSize

LEMMA CheckKeepsRoom ==
  ASSUME TypeOK, TypeOK', NEW s \in DOMAIN MaxPositionSize, RoomInv(s),
         NEW c \in Checks, CheckStep(c)
  PROVE  RoomInv(s)'
<1>1. s \in Symbols /\ positions[s] \in Nat /\ working[s] \in Nat /\ overlap[s] \in Nat
  BY Limits
<1>2. /\ \A d \in Checks \ {c} : d \in Claims(s)' <=> d \in Claims(s)
      /\ c \in Claims(s) <=> CheckedSymbol[c] = s /\ Claiming(c)
      /\ c \in Claims(s)' <=> CheckedSymbol[c] = s /\ Claiming(c)'
      /\ Claims(s) \subseteq Checks /\ Claims(s)' \subseteq Checks
  <2>1. \A d \in Checks \ {c} : d \in Claims(s)' <=> d \in Claims(s)
    BY OthersClaims DEF Claims
  <2> QED BY <2>1 DEF Claims
<1>3. positions' = positions
  BY DEF CheckStep, CheckBegin, CheckGate, CheckLoss, CheckDrawdown, CheckRecord, OrderAccepted,
         OrderRefused, market
<1>4. overlap'[s] >= overlap[s]
  <2>1. CASE CheckBegin(c)
    <3>1. overlap \in [Symbols -> Nat]
      BY DEF TypeOK
    <3>2. CheckedSymbol[c] \in Symbols
      BY RiskAssumption
    <3>3. OnTheWay(CheckedSymbol[c]) \in Nat
      BY <3>2, WayType
    <3> QED BY <1>1, <2>1, <3>1, <3>2, <3>3 DEF CheckBegin, NoteOverlap
  <2>2. CASE UNCHANGED overlap
    BY <1>1, <2>2
  <2> QED BY <2>1, <2>2 DEF CheckStep, CheckGate, CheckLoss, CheckDrawdown, CheckRecord,
             OrderAccepted, OrderRefused, market
<1>5. working'[s] = working[s] \/ (OrderAccepted(c) /\ CheckedSymbol[c] = s)
  <2>1. CASE OrderAccepted(c)
    <3>1. working \in [Symbols -> Nat]
      BY DEF TypeOK
    <3> QED BY <1>1, <2>1, <3>1 DEF OrderAccepted
  <2> QED BY <2>1 DEF CheckStep, CheckBegin, CheckGate, CheckLoss, CheckDrawdown, CheckRecord,
             OrderRefused, market
<1>6. CASE OrderAccepted(c) /\ CheckedSymbol[c] = s
  <2>1. Claiming(c)
    BY <1>6 DEF OrderAccepted, Claiming
  <2>2. calls'[c].pc = "idle"
    BY <1>6 DEF OrderAccepted, Return, TypeOK, Call
  <2>3. ~Claiming(c)'
    BY <2>2 DEF Claiming
  <2>4. Claims(s)' = Claims(s) \ {c}
    BY <1>2, <2>3
  <2> QED BY <1>6, <2>1, <2>4, OneAccepted
<1>7. CASE working'[s] = working[s] /\ (CheckedSymbol[c] = s => (Claiming(c)' => Claiming(c)))
  <2>1. Claims(s)' \subseteq Claims(s)
    BY <1>2, <1>7
  <2>2. positions'[s] + working'[s] <= positions[s] + working[s]
    BY <1>1, <1>3, <1>7
  <2> QED BY <1>4, <2>1, <2>2, NoneAdded
<1>8. CASE CheckedSymbol[c] = s /\ ~(Claiming(c)' => Claiming(c))
  <2>1. CheckBegin(c) /\ PositionSize(c, positions) = "none"
    BY <1>8, CallerClaims
  <2>2. Claims(s)' = Claims(s) \cup {c}
    BY <1>2, <1>8
  <2> QED BY <1>8, <2>1, <2>2, OneAdded
<1> QED BY <1>5, <1>6, <1>7, <1>8

(* The other steps make no claim and accept no order.                      *)
LEMMA SameClaims ==
  ASSUME TypeOK, NEW s, StillBlocked \/ UNCHANGED calls
  PROVE  Claims(s)' = Claims(s)
<1>1. \A d \in Checks : /\ calls'[d].pc = calls[d].pc /\ calls'[d].copy = calls[d].copy
                        /\ calls'[d].decision = calls[d].decision
  <2>1. CASE UNCHANGED calls
    BY <2>1
  <2>2. CASE StillBlocked
    <3> SUFFICES ASSUME NEW d \in Checks
        PROVE  /\ calls'[d].pc = calls[d].pc /\ calls'[d].copy = calls[d].copy
               /\ calls'[d].decision = calls[d].decision
      OBVIOUS
    <3>1. calls[d] \in CallRecord
      BY DEF TypeOK
    <3>2. calls'[d] = [calls[d] EXCEPT !.blocked = calls'[d].blocked]
      BY <2>2 DEF StillBlocked
    <3> QED BY <3>1, <3>2 DEF CallRecord
  <2> QED BY <2>1, <2>2
<1>2. \A d \in Checks : Claiming(d)' <=> Claiming(d)
  BY <1>1 DEF Claiming, PositionSize
<1> QED BY <1>2 DEF Claims

LEMMA MarketKeepsRoom ==
  ASSUME TypeOK, TypeOK', NEW s \in DOMAIN MaxPositionSize, RoomInv(s),
         NEW r \in Symbols, MarketStep(r)
  PROVE  RoomInv(s)'
<1>1. s \in Symbols /\ positions[s] \in Nat /\ working[s] \in Nat /\ overlap[s] \in Nat
  BY Limits
<1>2. positions \in [Symbols -> Nat] /\ working \in [Symbols -> Nat]
  BY DEF TypeOK
<1>3. overlap' = overlap /\ calls' = calls
  BY DEF MarketStep, OrderFilled, OrderCancelled, PositionClosed
<1>4. positions'[s] + working'[s] <= positions[s] + working[s]
  <2>1. CASE OrderFilled(r)
    <3>1. PICK q \in 1..working[r] :
            /\ working' = [working EXCEPT ![r] = @ - q]
            /\ \/ positions' = [positions EXCEPT ![r] = @ + q]
               \/ positions' = [positions EXCEPT ![r] = IF q > @ THEN q - @ ELSE @ - q]
      BY <2>1 DEF OrderFilled
    <3>2. working[r] \in Nat /\ positions[r] \in Nat /\ q \in Nat
      BY <1>2
    <3>3. CASE r = s
      <4>1. working'[s] = working[s] - q
        BY <1>1, <1>2, <3>1, <3>3
      <4>2. positions'[s] \in {positions[s] + q, q - positions[s], positions[s] - q}
        BY <1>1, <1>2, <3>1, <3>3
      <4> QED BY <1>1, <3>2, <4>1, <4>2
    <3>4. CASE r # s
      <4>1. working'[s] = working[s] /\ positions'[s] = positions[s]
        BY <1>1, <1>2, <3>1, <3>4
      <4> QED BY <1>1, <4>1
    <3> QED BY <3>3, <3>4
  <2>2. CASE OrderCancelled(r)
    <3>1. PICK q \in 1..working[r] : working' = [working EXCEPT ![r] = @ - q]
      BY <2>2 DEF OrderCancelled
    <3>2. working[r] \in Nat /\ q \in Nat /\ positions' = positions
      BY <1>2, <2>2 DEF OrderCancelled
    <3>3. working'[s] \in {working[s], working[s] - q}
      BY <1>1, <1>2, <3>1
    <3> QED BY <1>1, <3>2, <3>3
  <2>3. CASE PositionClosed(r)
    <3>1. positions'[s] \in {positions[s], 0} /\ working' = working
      BY <1>1, <1>2, <2>3 DEF PositionClosed
    <3> QED BY <1>1, <3>1
  <2> QED BY <2>1, <2>2, <2>3 DEF MarketStep
<1>5. Claims(s)' = Claims(s)
  BY <1>3, SameClaims
<1>6. overlap'[s] >= overlap[s]
  BY <1>1, <1>3
<1> QED BY <1>4, <1>5, <1>6, NoneAdded

LEMMA EngineKeepsRoom ==
  ASSUME TypeOK, TypeOK', NEW s \in DOMAIN MaxPositionSize, RoomInv(s),
         EngineStep \/ UNCHANGED vars
  PROVE  RoomInv(s)'
<1>1. UNCHANGED market
  BY DEF EngineStep, TriggerKillSwitch, ResetKillSwitch, RecordFailure, Tick,
         CheckBreakerRecovery, ConfirmRecovery, DailyReset, UpdateEquity, UpdateOnFill, vars
<1>2. StillBlocked \/ UNCHANGED calls
  BY DEF EngineStep, TriggerKillSwitch, ResetKillSwitch, RecordFailure, Tick,
         CheckBreakerRecovery, ConfirmRecovery, DailyReset, UpdateEquity, UpdateOnFill, vars
<1>3. positions[s] \in Nat /\ working[s] \in Nat /\ overlap[s] \in Nat
  BY Limits
<1>4. Claims(s)' = Claims(s)
  BY <1>2, SameClaims
<1>5. /\ positions'[s] + working'[s] <= positions[s] + working[s]
      /\ overlap'[s] >= overlap[s]
  BY <1>1, <1>3 DEF market
<1> QED BY <1>4, <1>5, NoneAdded

LEMMA RoomsStep ==
  ASSUME TypeOK, TypeOK', RoomsInv, [Next]_vars
  PROVE  RoomsInv'
<1> SUFFICES ASSUME NEW s \in DOMAIN MaxPositionSize PROVE RoomInv(s)'
  BY DEF RoomsInv
<1>1. RoomInv(s)
  BY DEF RoomsInv
<1> QED BY <1>1, CheckKeepsRoom, MarketKeepsRoom, EngineKeepsRoom DEF Next

(* A position exceeds its limit by no more than was on the way to it when  *)
(* some check found room, however many orders of however many callers work *)
(* at the gateway, are executed in parts, turn the position or are         *)
(* cancelled; orders that are checked one at a time keep to the limit.     *)
THEOREM OvershootIsBounded == Spec => []OvershootBounded
<1>1. Init => RoomsInv
  <2> SUFFICES ASSUME Init, NEW s \in DOMAIN MaxPositionSize PROVE RoomInv(s)
    BY DEF RoomsInv
  <2>1. Claims(s) = {}
    BY DEF Init, Claims, Claiming, Call
  <2>2. s \in Symbols /\ MaxPositionSize[s] \in Nat
    BY RiskAssumption
  <2>3. positions[s] = 0 /\ working[s] = 0 /\ overlap[s] = 0
    BY <2>2 DEF Init, NoPositions
  <2>4. OnTheWay(s) = 0
    BY <2>1, <2>3, SumEmpty, WayIsSum
  <2> QED BY <2>2, <2>3, <2>4 DEF RoomInv
<1>2. TypeOK /\ TypeOK' /\ RoomsInv /\ [Next]_vars => RoomsInv'
  BY RoomsStep
<1>3. TypeOK /\ RoomsInv => OvershootBounded
  <2> SUFFICES ASSUME TypeOK, RoomsInv, NEW s \in DOMAIN MaxPositionSize
               PROVE  positions[s] <= MaxPositionSize[s] + overlap[s]
    BY DEF OvershootBounded
  <2>1. /\ MaxPositionSize[s] \in Nat /\ positions[s] \in Nat /\ overlap[s] \in Nat
        /\ OnTheWay(s) \in Nat
    BY Limits
  <2>2. positions[s] + OnTheWay(s) <= MaxPositionSize[s] + overlap[s]
    BY DEF RoomsInv, RoomInv
  <2> QED BY <2>1, <2>2
<1> QED BY <1>1, <1>2, <1>3, InitTypes, NextTypes, PTL DEF Spec
=============================================================================
