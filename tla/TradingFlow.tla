----------------------------- MODULE TradingFlow -----------------------------
(***************************************************************************)
(* Orders from submission to completion: the trading service and the order *)
(* lifecycle manager at work on one order repository, with the market      *)
(* between them.  The service hands orders to the market; the market sends *)
(* executions and updates of the orders it works to the manager's tasks.   *)
(***************************************************************************)
EXTENDS TradingService, Sequences, FiniteSetsExt

CONSTANTS
  Execs, ExecOrder, ExecQty, ExecKey, OrderSide, InitOrders, InitPositions,
  Updates, Decoding, MaxStarts, MaxDeliveries, MaxFaults, MaxRetries, DedupCap,
  DedupTrim, SerialControl, NoPosition, NoExec, NoUpdate

VARIABLES
  position, rows, orderWrites, positionWrites, filledEvents, processed,
  givenUp, failures, statusEvents, fillTask, orderTask, fillQ, orderQ,
  running, startPc, stopPc, handles, delivered, updatesSent, faults

Lifecycle == INSTANCE OrderLifecycle

ASSUME FlowAssumption == Lifecycle!ConstantsAssumption

lifecycleVars ==
  <<position, rows, orderWrites, positionWrites, filledEvents, processed,
    givenUp, failures, statusEvents, fillTask, orderTask, fillQ, orderQ, running,
    startPc, stopPc, handles, delivered, updatesSent, faults>>

serviceVars == <<placing, cancelling, accepted, cancelSent, published, mishaps>>

vars == <<orders, lifecycleVars, serviceVars>>

(* The order repository starts empty; the manager has not been started.    *)
FlowInit == Lifecycle!Init /\ Init

(* An order is at work once accepted, until it is cancelled or complete.   *)
Working(o) ==
  /\ accepted[o] > 0
  /\ \A u \in updatesSent : u.order = o => ~IsTerminal(u.status)

Executed(o) ==
  MapThenSumSet(LAMBDA e : ExecQty[e], {e \in Execs : ExecOrder[e] = o /\ delivered[e] > 0})

(* The market executes what it works, up to what it was sent, and reports  *)
(* each execution and each change of status of an order to the manager.    *)
MarketFill(e) ==
  LET o == ExecOrder[e]
  IN /\ Working(o)
     /\ Executed(o) + ExecQty[e] <= accepted[o] * OrderQty[o]
     /\ Lifecycle!GatewayFill(e)

(* Acknowledgements come while the order works; cancellation is confirmed  *)
(* only if it was asked for, completion only after every execution.        *)
MarketUpdate(u) ==
  /\ Working(u.order)
  /\ u.status = "Cancelled" => u.order \in cancelSent
  /\ u.status = "Filled" => Executed(u.order) = accepted[u.order] * OrderQty[u.order]
  /\ Lifecycle!GatewayUpdate(u)

(* Orders are placed once the manager listens: nothing wires the two, and  *)
(* what the market sends to nobody is lost.                                *)
Listening == running /\ ~Lifecycle!StartInProgress

ServiceStep ==
  /\ \/ \E o \in Orders : (Listening /\ PlaceBegin(o)) \/ PlaceStep(o)
     \/ \E c \in Cancels : CancelStep(c)
  /\ UNCHANGED lifecycleVars

ManagerStep ==
  /\ \E g \in Lifecycle!Gens :
       \/ Lifecycle!StartStep(g) \/ Lifecycle!FillStep(g) \/ Lifecycle!UpdateStep(g)
       \/ Lifecycle!EndStep(g)
  /\ UNCHANGED serviceVars

MarketStep ==
  /\ (\E e \in Execs : MarketFill(e)) \/ (\E u \in Updates : MarketUpdate(u))
  /\ UNCHANGED serviceVars

FlowNext == ServiceStep \/ ManagerStep \/ MarketStep

FlowSpec == FlowInit /\ [][FlowNext]_vars
-----------------------------------------------------------------------------
(* Seen from the trading service, everything the manager and the market do *)
(* is writing, elsewhere, orders that the repository already knows: the    *)
(* flow implements the specification that TradingService states, so what   *)
(* holds of that one holds here.                                           *)
ServiceInterface == Spec

(* However placing, placing again, cancelling, rolling back and filling    *)
(* overlap, no write of a stale copy leaves an order overfilled.           *)
NeverOverfilled == Lifecycle!NeverOverfilled
=============================================================================
