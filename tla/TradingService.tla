--------------------------- MODULE TradingService ---------------------------
(***************************************************************************)
(* TradingService of crates/application/src/trading_service.rs:            *)
(* place_order() and cancel_order() as sequences of steps separated by the *)
(* awaits of the code.  Calls for different orders, and cancellations of   *)
(* an order that is still being placed, interleave at those points.        *)
(* The order repository is shared with whoever composes this module.       *)
(***************************************************************************)
EXTENDS OrderEntity

CONSTANTS
  Orders,        \* orders that callers place
  OrderQty,      \* their quantities
  PlacedAs,      \* statuses with which a caller may build an order
  Cancels,       \* calls of cancel_order()
  CancelTarget,  \* the order each of them is about
  MaxAttempts,   \* bound: calls of place_order() for one order
  MaxMishaps,    \* bound: failing repository calls and lost gateway answers
  NoOrder

ASSUME TradingAssumption ==
  /\ NoOrder \notin Order
  /\ OrderQty \in [Orders -> Nat \ {0}]
  /\ PlacedAs \subseteq OrderStatus
  /\ CancelTarget \in [Cancels -> Orders]
  /\ MaxAttempts \in Nat /\ MaxMishaps \in Nat

VARIABLES
  orders,     \* the order repository
  placing,    \* per order: the place_order() call in progress, and how the last one ended
  cancelling, \* per cancel call: where it is and the copy of the order that it holds
  accepted,   \* per order: how often the gateway's market accepted it
  cancelSent, \* orders the gateway was asked, successfully, to cancel
  published,  \* events published by this service, <<kind, order>>
  mishaps

callVars == <<placing, cancelling>>
outside  == <<accepted, cancelSent, published>>
tradingVars == <<callVars, outside, mishaps>>

Call(pc, n, r, o) == [pc |-> pc, attempts |-> n, result |-> r, order |-> o]

Cancel(pc, o) == [pc |-> pc, order |-> o]

Init ==
  /\ orders = [o \in Orders |-> NoOrder]
  /\ placing = [o \in Orders |-> Call("idle", 0, "none", NoOrder)]
  /\ cancelling = [c \in Cancels |-> Cancel("get", NoOrder)]
  /\ accepted = [o \in Orders |-> 0]
  /\ cancelSent = {} /\ published = {}
  /\ mishaps = 0

Mishap == mishaps < MaxMishaps /\ mishaps' = mishaps + 1

NoMishap == UNCHANGED mishaps

Goto(o, pc, copy) ==
  placing' = [placing EXCEPT ![o] =
                Call(pc, placing[o].attempts, placing[o].result, copy)]

Return(o, result) ==
  placing' = [placing EXCEPT ![o] = Call("idle", placing[o].attempts, result, NoOrder)]

Event(kind, o) == published' = published \cup {<<kind, o>>}
-----------------------------------------------------------------------------
(* place_order() *)

(* TradingError::is_retryable().                                           *)
Retryable == {"execution", "repository"}

(* A caller places an order, or places it again after a retryable error.   *)
PlaceBegin(o) ==
  /\ placing[o].pc = "idle"
  /\ placing[o].attempts < MaxAttempts
  /\ placing[o].result \in Retryable \cup {"none"}
  /\ \E s \in PlacedAs :
       LET order == [status |-> s, quantity |-> OrderQty[o], filled |-> 0]
           n == placing[o].attempts + 1
       IN placing' = [placing EXCEPT ![o] =
            IF ValidForSubmission(order) THEN Call("risk", n, "none", order)
            ELSE Call("idle", n, "validation", NoOrder)]
  /\ UNCHANGED <<orders, cancelling, outside, mishaps>>

(* Reads the open positions and asks the risk engine, whose answer is left *)
(* open here.  A reduction is turned into a rejection; an error is not     *)
(* published.                                                              *)
PlaceRiskCheck(o) ==
  /\ placing[o].pc = "risk"
  /\ \/ Mishap /\ Return(o, "repository") /\ UNCHANGED published
     \/ NoMishap /\ Return(o, "risk") /\ Event("Rejected", o)
     \/ NoMishap /\ Return(o, "execution") /\ UNCHANGED published
     \/ /\ NoMishap
        /\ Goto(o, "save", UpdateStatus(placing[o].order, "Submitted"))
        /\ UNCHANGED published
  /\ UNCHANGED <<orders, cancelling, accepted, cancelSent>>

PlaceSaveUnchecked(o) ==  \* seeded fault: the result of save() is ignored
  LET stored == [orders EXCEPT ![o] = placing[o].order]
  IN /\ placing[o].pc = "save"
     /\ \/ NoMishap /\ orders' = stored
        \/ Mishap /\ orders' \in {orders, stored}
     /\ Goto(o, "execute", placing[o].order)
     /\ UNCHANGED <<cancelling, outside>>

(* save() is an upsert: a second attempt overwrites the stored order.      *)
PlaceSave(o) ==
  LET stored == [orders EXCEPT ![o] = placing[o].order]
  IN /\ placing[o].pc = "save"
     /\ \/ NoMishap /\ orders' = stored /\ Goto(o, "execute", placing[o].order)
        \/ Mishap /\ orders' \in {orders, stored} /\ Return(o, "repository")
     /\ UNCHANGED <<cancelling, outside>>

(* The market accepts or refuses; an answer that is lost on the way, such  *)
(* as a timeout, looks like a refusal to the caller.                       *)
PlaceExecute(o) ==
  LET taken == [accepted EXCEPT ![o] = @ + 1]
  IN /\ placing[o].pc = "execute"
     /\ \/ NoMishap /\ accepted' = taken /\ Goto(o, "publish", NoOrder)
        \/ NoMishap /\ UNCHANGED accepted /\ Goto(o, "getBack", NoOrder)
        \/ Mishap /\ accepted' = taken /\ Goto(o, "getBack", NoOrder)
     /\ UNCHANGED <<orders, cancelling, cancelSent, published>>

RollbackSkipped(o) ==  \* seeded fault: place_order() returns without rolling back
  /\ placing[o].pc = "getBack"
  /\ Return(o, "execution")
  /\ UNCHANGED <<orders, cancelling, outside, mishaps>>

(* rollback_order_submission(): the stored order is read, then rejected;   *)
(* whatever goes wrong here is only logged.                                *)
RollbackGet(o) ==
  /\ placing[o].pc = "getBack"
  /\ \/ Mishap /\ Return(o, "execution")
     \/ /\ NoMishap
        /\ IF orders[o] # NoOrder /\ ~IsTerminal(orders[o].status)
           THEN Goto(o, "putBack", RejectOrder(orders[o]))
           ELSE Return(o, "execution")
  /\ UNCHANGED <<orders, cancelling, outside>>

RollbackPut(o) ==
  LET stored == [orders EXCEPT ![o] = placing[o].order]
  IN /\ placing[o].pc = "putBack"
     /\ \/ NoMishap /\ orders' = stored
        \/ Mishap /\ orders' \in {orders, stored}
     /\ Return(o, "execution")
     /\ UNCHANGED <<cancelling, outside>>

PlacePublish(o) ==
  /\ placing[o].pc = "publish"
  /\ Return(o, "ok")
  /\ Event("Submitted", o)
  /\ UNCHANGED <<orders, cancelling, accepted, cancelSent, mishaps>>
-----------------------------------------------------------------------------
(* cancel_order() *)

CancelGoto(c, pc, copy) == cancelling' = [cancelling EXCEPT ![c] = Cancel(pc, copy)]

CancelGet(c) ==
  LET found == orders[CancelTarget[c]]
  IN /\ cancelling[c].pc = "get"
     /\ \/ Mishap /\ CancelGoto(c, "failed", NoOrder)
        \/ /\ NoMishap
           /\ IF found # NoOrder /\ CanCancel(found.status)
              THEN CancelGoto(c, "send", CancelOrder(found))
              ELSE CancelGoto(c, "failed", NoOrder)
     /\ UNCHANGED <<orders, placing, outside>>

(* The gateway knows the order once the market has accepted it.            *)
CancelSend(c) ==
  /\ cancelling[c].pc = "send"
  /\ \/ /\ accepted[CancelTarget[c]] > 0
        /\ cancelSent' = cancelSent \cup {CancelTarget[c]}
        /\ CancelGoto(c, "put", cancelling[c].order)
     \/ CancelGoto(c, "failed", NoOrder) /\ UNCHANGED cancelSent
  /\ UNCHANGED <<orders, placing, accepted, published, mishaps>>

(* What is written is the copy read before the gateway was called.         *)
CancelPut(c) ==
  LET stored == [orders EXCEPT ![CancelTarget[c]] = cancelling[c].order]
  IN /\ cancelling[c].pc = "put"
     /\ \/ NoMishap /\ orders' = stored /\ CancelGoto(c, "publish", NoOrder)
        \/ Mishap /\ orders' \in {orders, stored} /\ CancelGoto(c, "failed", NoOrder)
     /\ UNCHANGED <<placing, outside>>

CancelPublish(c) ==
  /\ cancelling[c].pc = "publish"
  /\ CancelGoto(c, "cancelled", NoOrder)
  /\ Event("Cancelled", CancelTarget[c])
  /\ UNCHANGED <<orders, placing, accepted, cancelSent, mishaps>>
-----------------------------------------------------------------------------
PlaceStep(o) ==
  \/ PlaceRiskCheck(o) \/ PlaceSave(o) \/ PlaceExecute(o)
  \/ RollbackGet(o) \/ RollbackPut(o) \/ PlacePublish(o)

CancelStep(c) == CancelGet(c) \/ CancelSend(c) \/ CancelPut(c) \/ CancelPublish(c)

(* Somebody else, the lifecycle manager, writes orders that it has found.  *)
WrittenElsewhere ==
  /\ orders' \in [Orders -> Order \cup {NoOrder}]
  /\ \A o \in Orders : orders'[o] = NoOrder <=> orders[o] = NoOrder
  /\ UNCHANGED tradingVars

Next ==
  \/ \E o \in Orders : PlaceBegin(o) \/ PlaceStep(o)
  \/ \E c \in Cancels : CancelStep(c)
  \/ WrittenElsewhere

Spec == Init /\ [][Next]_<<orders, tradingVars>>
-----------------------------------------------------------------------------
CallPcs == {"idle", "risk", "save", "execute", "getBack", "putBack", "publish"}

Results == {"none", "ok", "validation", "risk", "repository", "execution"}

CallRecord ==
  {r \in [pc : CallPcs, attempts : Nat, result : Results, order : Order \cup {NoOrder}] :
     r.pc \in {"risk", "save", "execute", "putBack"} => r.order # NoOrder}

CancelRecord ==
  {r \in [pc : {"get", "send", "put", "publish", "cancelled", "failed"},
          order : Order \cup {NoOrder}] :
     r.pc \in {"send", "put"} => r.order # NoOrder}

(* The types of the state, and which calls hold a copy of their order.     *)
TypeOK ==
  /\ orders \in [Orders -> Order \cup {NoOrder}]
  /\ placing \in [Orders -> CallRecord]
  /\ cancelling \in [Cancels -> CancelRecord]
  /\ accepted \in [Orders -> Nat]
  /\ cancelSent \subseteq Orders
  /\ published \subseteq {"Submitted", "Rejected", "Cancelled"} \X Orders
  /\ mishaps \in Nat

(* Persist before send: the market never works an order that the order     *)
(* repository does not know, so a fill always finds its order.             *)
KnownAtMarket == \A o \in Orders : accepted[o] > 0 => orders[o] # NoOrder

(* What validation or the risk engine refuses leaves no trace: no stored   *)
(* order and none at the market, unless an earlier attempt put it there.   *)
RefusedLeavesNoTrace ==
  \A o \in Orders : placing[o].attempts = 1 /\ placing[o].result \in {"validation", "risk"} =>
    orders[o] = NoOrder /\ accepted[o] = 0

(* Once a failed place_order() has returned, with every repository call    *)
(* and every gateway answer having arrived, the order is not working and   *)
(* the repository agrees.                                                  *)
FailedPlacementIsClosed ==
  \A o \in Orders :
    placing[o].result = "execution" /\ mishaps = 0 =>
      accepted[o] = 0 /\ (orders[o] # NoOrder => IsTerminal(orders[o].status))

(* OrderSubmitted is published only for an order the market accepted, and  *)
(* OrderCancelled only after the gateway agreed to cancel.                 *)
EventsAreTrue ==
  \A o \in Orders : /\ <<"Submitted", o>> \in published => accepted[o] > 0
                    /\ <<"Cancelled", o>> \in published => o \in cancelSent

(* "If any step fails, rollback is performed to maintain consistency"      *)
(* (trading_service.rs:366): no order whose placement was rolled back is   *)
(* at work in the market.                                                  *)
RolledBackIsNotWorking ==
  \A o \in Orders : placing[o].pc = "idle" /\ placing[o].result = "execution" =>
    accepted[o] = 0
=============================================================================
