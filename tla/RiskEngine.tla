----------------------------- MODULE RiskEngine -----------------------------
(***************************************************************************)
(* RiskEngine of crates/application/src/risk/engine.rs.  Several calls of  *)
(* check_pre_trade() run at once, each in steps: the state is read under a *)
(* lock that is released between the checks, and the positions are a copy  *)
(* that place_order() read before.  Meanwhile others trigger the kill      *)
(* switch, report failures, equity and fills.  An order that was allowed   *)
(* is given to the gateway; place_order() returns as soon as it is         *)
(* accepted, and the order is executed later, in parts and by either side. *)
(***************************************************************************)
EXTENDS Integers, Sequences, FiniteSetsExt

CONSTANTS
  Checks,          \* callers of check_pre_trade()
  Symbols,
  CheckedSymbol,   \* what each caller trades
  CheckedQty,      \* and how much of it per order
  Price,           \* the market price of a symbol
  LimitOrders,     \* callers whose orders have a limit price, the others' have none
  MaxPositionSize, \* RiskConfig.max_position_size, for the symbols it names
  MaxSymbolExposure, MaxTotalExposure,
  DailyLossLimit,
  MaxDrawdown,     \* max_drawdown_pct in percent
  KillSwitchEnabled,
  BreakerFailures, \* circuit_breaker_failures
  BreakerTimeout,  \* circuit_breaker_timeout_secs
  HistoryCap,      \* the 100 decisions that are kept
  InitialEquity,
  Equities,        \* bound: values reported to update_equity()
  Pnls,            \* bound: profits and losses reported to update_on_fill()
  MaxFailures,     \* bound: consecutive failures
  MaxWorking,      \* bound: quantity of a symbol that works at the gateway
  MaxPnl           \* bound: profit or loss of a day

ASSUME RiskAssumption ==
  /\ IsFiniteSet(Checks)
  /\ CheckedSymbol \in [Checks -> Symbols]
  /\ CheckedQty \in [Checks -> Nat \ {0}]
  /\ Price \in [Symbols -> Nat \ {0}]
  /\ DOMAIN MaxPositionSize \subseteq Symbols /\ DOMAIN MaxSymbolExposure \subseteq Symbols
  /\ \A s \in DOMAIN MaxPositionSize : MaxPositionSize[s] \in Nat \ {0}
  /\ \A s \in DOMAIN MaxSymbolExposure : MaxSymbolExposure[s] \in Nat
  /\ MaxTotalExposure \in Nat /\ DailyLossLimit \in Nat /\ MaxDrawdown \in Nat
  /\ KillSwitchEnabled \in BOOLEAN
  /\ BreakerFailures \in Nat \ {0} /\ BreakerTimeout \in Nat /\ HistoryCap \in Nat \ {0}
  /\ MaxWorking \in Nat
  /\ InitialEquity \in Nat /\ Equities \subseteq Nat /\ Pnls \subseteq Int

VARIABLES
  positions,     \* open positions: quantity per symbol, whatever their side
  working,       \* what the gateway has accepted and neither executed nor cancelled
  overlap,       \* the most that was ever on the way when a check found room
  calls,         \* per caller: where its check is, its copy of the positions, its decision
  killed,        \* kill_switch_triggered
  breaker, failures,
  openFor,       \* seconds since circuit_breaker_opened_at, up to the timeout; -1: None
  equityPeak, currentEquity,
  realizedPnl,   \* daily_realized_pnl; nothing writes the unrealized one
  earned,        \* what fills have really earned today
  history        \* decision_history

account == <<equityPeak, currentEquity, realizedPnl, earned>>
circuit == <<breaker, failures, openFor>>
market == <<positions, working, overlap>>
vars == <<market, calls, killed, circuit, account, history>>

Decisions == {"none", "Allow", "Reject", "Reduce"}

Call(pc, copy, d, b) == [pc |-> pc, copy |-> copy, decision |-> d, blocked |-> b]

NoPositions == [s \in Symbols |-> 0]

Init ==
  /\ positions = NoPositions /\ working = NoPositions /\ overlap = NoPositions
  /\ calls = [c \in Checks |-> Call("idle", NoPositions, "none", {})]
  /\ killed = FALSE
  /\ breaker = "Closed" /\ failures = 0 /\ openFor = -1
  /\ equityPeak = InitialEquity /\ currentEquity = InitialEquity
  /\ realizedPnl = 0 /\ earned = 0
  /\ history = << >>
-----------------------------------------------------------------------------
(* What must keep orders out at this moment, and, in each call, what has   *)
(* done so ever since the call began.                                      *)
OverDrawn(current) == (equityPeak - current) * 100 > MaxDrawdown * equityPeak

Blocking ==
  {b \in {"kill", "open", "drawdown", "loss"} :
     \/ b = "kill" /\ killed
     \/ b = "open" /\ breaker = "Open"
     \/ b = "drawdown" /\ OverDrawn(currentEquity)
     \/ b = "loss" /\ earned < -DailyLossLimit}

StillBlocked ==
  calls' = [c \in Checks |-> [calls[c] EXCEPT !.blocked = @ \cap Blocking']]
-----------------------------------------------------------------------------
(* check_pre_trade() *)

Goto(c, pc) ==
  calls' = [calls EXCEPT ![c] = Call(pc, calls[c].copy, "none", calls[c].blocked)]

(* Once it has decided, the copy of the positions is of no further use.    *)
Decide(c, d) == calls' = [calls EXCEPT ![c] = Call("record", NoPositions, d, calls[c].blocked)]

Return(c, pc) == calls' = [calls EXCEPT ![c] = Call(pc, NoPositions, "none", {})]

(* A market order is valued at a price of one.                             *)
OrderValue(c) ==
  (IF c \in LimitOrders THEN Price[CheckedSymbol[c]] ELSE 1) * CheckedQty[c]

Exposure(copy, S) == MapThenSumSet(LAMBDA s : copy[s] * Price[s], S)

(* seeded fault: the order itself is left out of the new total             *)
PositionSizeIgnoringOrder(c, copy) ==
  LET s == CheckedSymbol[c]
  IN IF s \notin DOMAIN MaxPositionSize \/ copy[s] <= MaxPositionSize[s] THEN "none"
     ELSE "Reject"

(* Quantities of both sides count alike.                                   *)
PositionSize(c, copy) ==
  LET s == CheckedSymbol[c]
  IN IF s \notin DOMAIN MaxPositionSize \/ copy[s] + CheckedQty[c] <= MaxPositionSize[s]
     THEN "none"
     ELSE IF copy[s] >= MaxPositionSize[s] THEN "Reject" ELSE "Reduce"

ExposureExceeded(c, copy) ==
  LET s == CheckedSymbol[c]
  IN \/ Exposure(copy, Symbols) + OrderValue(c) > MaxTotalExposure
     \/ s \in DOMAIN MaxSymbolExposure /\ copy[s] * Price[s] + OrderValue(c) > MaxSymbolExposure[s]

(* A caller whose copy of the positions has room for its order, and who    *)
(* was not refused since.                                                  *)
Claiming(c) ==
  \/ calls[c].pc \in {"loss", "drawdown", "ordered"}
  \/ calls[c].pc = "gate" /\ PositionSize(c, calls[c].copy) = "none"
  \/ calls[c].pc = "record" /\ calls[c].decision = "Allow"

Claims(s) == {c \in Checks : CheckedSymbol[c] = s /\ Claiming(c)}

(* What is on the way to a position and a check does not see.              *)
Quantity(S) == MapThenSumSet(LAMBDA c : CheckedQty[c], S)
OnTheWay(s) == working[s] + Quantity(Claims(s))

NoteOverlap(c) ==
  LET s == CheckedSymbol[c]
  IN overlap' = IF PositionSize(c, positions) = "none" /\ OnTheWay(s) > overlap[s]
                THEN [overlap EXCEPT ![s] = OnTheWay(s)]
                ELSE overlap

(* place_order() reads the open positions, then calls check_pre_trade().   *)
CheckBegin(c) ==
  /\ calls[c].pc = "idle"
  /\ calls' = [calls EXCEPT ![c] = Call("gate", positions, "none", Blocking)]
  /\ NoteOverlap(c)
  /\ UNCHANGED <<positions, working, killed, circuit, account, history>>

CheckGateKillOnly(c) ==  \* seeded fault: the circuit breaker is not consulted
  /\ calls[c].pc = "gate"
  /\ IF killed THEN Decide(c, "Reject")
     ELSE IF PositionSize(c, calls[c].copy) # "none"
     THEN Decide(c, PositionSize(c, calls[c].copy))
     ELSE Goto(c, "loss")
  /\ UNCHANGED <<market, killed, circuit, account, history>>

(* Kill switch and circuit breaker under one lock, then the position size. *)
CheckGate(c) ==
  /\ calls[c].pc = "gate"
  /\ IF killed \/ breaker = "Open" THEN Decide(c, "Reject")
     ELSE IF PositionSize(c, calls[c].copy) # "none"
     THEN Decide(c, PositionSize(c, calls[c].copy))
     ELSE Goto(c, "loss")
  /\ UNCHANGED <<market, killed, circuit, account, history>>

CheckLoss(c) ==
  /\ calls[c].pc = "loss"
  /\ IF realizedPnl < -DailyLossLimit THEN Decide(c, "Reject")
     ELSE Goto(c, "drawdown")
  /\ UNCHANGED <<market, killed, circuit, account, history>>

(* The drawdown, then the exposures of the copied positions.               *)
CheckDrawdown(c) ==
  /\ calls[c].pc = "drawdown"
  /\ IF OverDrawn(currentEquity) \/ ExposureExceeded(c, calls[c].copy)
     THEN Decide(c, "Reject")
     ELSE Decide(c, "Allow")
  /\ UNCHANGED <<market, killed, circuit, account, history>>

(* record_decision() drops the oldest of a full history.                   *)
CheckRecord(c) ==
  LET kept == IF Len(history) >= HistoryCap THEN Tail(history) ELSE history
      d == calls[c].decision
  IN /\ calls[c].pc = "record"
     /\ history' = Append(kept, d)
     /\ Return(c, IF d = "Allow" THEN "ordered" ELSE "idle")
     /\ UNCHANGED <<market, killed, circuit, account>>

(* The order is saved and accepted by the gateway, whether or not its      *)
(* answer arrives; or it fails before.                                     *)
OrderAccepted(c) ==
  LET s == CheckedSymbol[c]
  IN /\ calls[c].pc = "ordered"
     /\ working[s] + CheckedQty[c] <= MaxWorking
     /\ working' = [working EXCEPT ![s] = @ + CheckedQty[c]]
     /\ Return(c, "idle")
     /\ UNCHANGED <<positions, overlap, killed, circuit, account, history>>

OrderRefused(c) ==
  /\ calls[c].pc = "ordered"
  /\ Return(c, "idle")
  /\ UNCHANGED <<market, killed, circuit, account, history>>

(* A fill adds to a position, or reduces it and turns what is left over.   *)
OrderFilled(s) ==
  \E q \in 1..working[s] :
    /\ working' = [working EXCEPT ![s] = @ - q]
    /\ \/ positions' = [positions EXCEPT ![s] = @ + q]
       \/ positions' = [positions EXCEPT ![s] = IF q > @ THEN q - @ ELSE @ - q]
    /\ UNCHANGED <<overlap, calls, killed, circuit, account, history>>

OrderCancelled(s) ==
  \E q \in 1..working[s] :
    /\ working' = [working EXCEPT ![s] = @ - q]
    /\ UNCHANGED <<positions, overlap, calls, killed, circuit, account, history>>

(* A position is closed at the market.                                     *)
PositionClosed(s) ==
  /\ positions[s] > 0
  /\ positions' = [positions EXCEPT ![s] = 0]
  /\ UNCHANGED <<working, overlap, calls, killed, circuit, account, history>>
-----------------------------------------------------------------------------
(* The kill switch and the circuit breaker *)

TriggerKillSwitch ==
  /\ killed' = (killed \/ KillSwitchEnabled)
  /\ UNCHANGED <<market, calls, circuit, account, history>>

ResetKillSwitch ==
  /\ killed' = FALSE
  /\ UNCHANGED <<market, circuit, account, history>>
  /\ StillBlocked

RecordFailure ==
  LET n == failures + 1
  IN /\ failures < MaxFailures
     /\ failures' = n
     /\ IF n >= BreakerFailures /\ breaker = "Closed"
        THEN breaker' = "Open" /\ openFor' = 0
        ELSE UNCHANGED <<breaker, openFor>>
     /\ UNCHANGED <<market, calls, killed, account, history>>

(* Time since the breaker opened, as far as check_circuit_breaker_recovery *)
(* can tell.                                                               *)
Tick ==
  /\ openFor \in 0..(BreakerTimeout - 1)
  /\ openFor' = openFor + 1
  /\ UNCHANGED <<market, calls, killed, breaker, failures, account, history>>

CheckBreakerRecovery ==
  /\ breaker = "Open" /\ openFor # -1 /\ openFor >= BreakerTimeout
  /\ breaker' = "HalfOpen"
  /\ UNCHANGED <<market, killed, failures, openFor, account, history>>
  /\ StillBlocked

ConfirmRecoveryKeepsCount ==  \* seeded fault: the failure count is not reset
  /\ breaker = "HalfOpen"
  /\ breaker' = "Closed" /\ openFor' = -1
  /\ UNCHANGED <<market, calls, killed, failures, account, history>>

ConfirmRecovery ==
  /\ breaker = "HalfOpen"
  /\ breaker' = "Closed" /\ failures' = 0 /\ openFor' = -1
  /\ UNCHANGED <<market, calls, killed, account, history>>
-----------------------------------------------------------------------------
(* Reports from the account *)

(* Money::new() refuses a negative amount: a loss beyond today's profit    *)
(* ends the call before anything is written.                               *)
UpdateOnFill(pnl) ==
  /\ earned + pnl \in -MaxPnl..MaxPnl
  /\ earned' = earned + pnl
  /\ IF realizedPnl + pnl < 0 THEN UNCHANGED <<realizedPnl, failures>>
     ELSE realizedPnl' = realizedPnl + pnl /\ failures' = 0
  /\ UNCHANGED <<market, killed, breaker, openFor, equityPeak, currentEquity, history>>
  /\ StillBlocked

UpdateEquity(e) ==
  /\ currentEquity' = e
  /\ equityPeak' = IF e > equityPeak THEN e ELSE equityPeak
  /\ UNCHANGED <<market, killed, circuit, realizedPnl, earned, history>>
  /\ StillBlocked

DailyReset ==
  /\ realizedPnl' = 0 /\ earned' = 0 /\ failures' = 0
  /\ UNCHANGED <<market, killed, breaker, openFor, equityPeak, currentEquity, history>>
  /\ StillBlocked
-----------------------------------------------------------------------------
CheckStep(c) ==
  \/ CheckBegin(c) \/ CheckGate(c) \/ CheckLoss(c) \/ CheckDrawdown(c) \/ CheckRecord(c)
  \/ OrderAccepted(c) \/ OrderRefused(c)

MarketStep(s) == OrderFilled(s) \/ OrderCancelled(s) \/ PositionClosed(s)

EngineStep ==
  \/ TriggerKillSwitch \/ ResetKillSwitch
  \/ RecordFailure \/ Tick \/ CheckBreakerRecovery \/ ConfirmRecovery
  \/ DailyReset
  \/ \E e \in Equities : UpdateEquity(e)
  \/ \E p \in Pnls : UpdateOnFill(p)

Next ==
  \/ \E c \in Checks : CheckStep(c)
  \/ \E s \in Symbols : MarketStep(s)
  \/ EngineStep

Spec == Init /\ [][Next]_vars
-----------------------------------------------------------------------------
CallPcs == {"idle", "gate", "loss", "drawdown", "record", "ordered"}

CallRecord ==
  [pc : CallPcs, copy : [Symbols -> Nat], decision : Decisions,
   blocked : SUBSET {"kill", "open", "drawdown", "loss"}]

(* The types of the state; history is the last HistoryCap decisions.       *)
TypeOK ==
  /\ positions \in [Symbols -> Nat]
  /\ working \in [Symbols -> Nat] /\ overlap \in [Symbols -> Nat]
  /\ calls \in [Checks -> CallRecord]
  /\ killed \in BOOLEAN
  /\ breaker \in {"Closed", "Open", "HalfOpen"}
  /\ failures \in Nat /\ openFor \in -1..BreakerTimeout
  /\ equityPeak \in Nat /\ currentEquity \in Nat
  /\ realizedPnl \in Nat /\ earned \in Int
  /\ history \in Seq(Decisions) /\ Len(history) <= HistoryCap

(* A check during all of which the kill switch was on, the breaker open or *)
(* the drawdown beyond its limit is not allowed, wherever it was when the  *)
(* condition of another thread's making set in and however the reads of    *)
(* its steps interleave with other reports.                                *)
BlockedNeverAllowed ==
  \A c \in Checks : calls[c].decision = "Allow" => calls[c].blocked \subseteq {"loss"}

(* "Daily loss limits" (engine.rs:7): the same for a loss beyond the daily *)
(* limit.                                                                  *)
LossNeverAllowed ==
  \A c \in Checks : calls[c].decision = "Allow" => "loss" \notin calls[c].blocked

(* The breaker is never left closed with its threshold reached, nor open   *)
(* without the time stamp that its recovery needs.                         *)
BreakerAgrees ==
  /\ breaker = "Closed" => failures < BreakerFailures
  /\ breaker = "Open" => openFor # -1

(* Peak equity is a peak, so the drawdown lies between 0 and 100 percent.  *)
PeakIsPeak == currentEquity <= equityPeak

(* A check compares its order with a copy of the open positions, so orders *)
(* that work at the gateway and orders of other callers are not counted.   *)
(* A position exceeds its limit by no more than was on the way, accepted   *)
(* or allowed, when some check found room: checked one at a time, with     *)
(* nothing working, the limit is kept whatever the fills' order and parts. *)
OvershootBounded ==
  \A s \in DOMAIN MaxPositionSize : positions[s] <= MaxPositionSize[s] + overlap[s]
=============================================================================
