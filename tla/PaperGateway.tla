---------------------------- MODULE PaperGateway ----------------------------
(***************************************************************************)
(* PaperTradingGateway (crates/infrastructure/src/providers/               *)
(* paper_trading.rs).  Orders are stored under keys that place_order()     *)
(* generates.  The update that follows is built from a filled quantity of  *)
(* zero, which Quantity::new refuses, so the unwrap() panics: nothing that *)
(* place_order() does after it, the execution of the order included, is    *)
(* ever reached, and it is left out.                                       *)
(***************************************************************************)
EXTENDS OrderEntity, FiniteSets

CONSTANTS
  Callers,  \* tasks that use the gateway
  Keys,     \* order ids that allocate_order_id() generates
  OwnIds,   \* order ids that orders bring along, which callers know; none is a key
  MaxCalls  \* bound: operations that are begun

VARIABLES
  orders,      \* the status of the paper order under each key in use
  subscribers, \* whose receivers the two channels feed
  call,        \* what each caller is in
  calls

vars == <<orders, subscribers, call, calls>>

Idle == [op |-> "none", id |-> "none"]

Init ==
  /\ orders = << >>
  /\ subscribers = [channel \in {"updates", "fills"} |-> "nobody"]
  /\ call = [p \in Callers |-> Idle] /\ calls = 0

(* Every operation begins with the simulated latency.                      *)
Begin(p) ==
  \E op \in {"place", "cancel", "modify"}, id \in OwnIds \cup DOMAIN orders :
    /\ call[p] = Idle /\ calls < MaxCalls /\ calls' = calls + 1
    /\ call' = [call EXCEPT ![p] = [op |-> op, id |-> id]]
    /\ UNCHANGED <<orders, subscribers>>

Subscribe(p) ==
  /\ call[p] = Idle /\ calls < MaxCalls /\ calls' = calls + 1
  /\ \E channel \in DOMAIN subscribers : subscribers' = [subscribers EXCEPT ![channel] = p]
  /\ UNCHANGED <<orders, call>>

(* Quantity::new(): only positive values.                                  *)
QuantityNew(value) == value > 0

PlaceOrder(p) ==
  /\ call[p].op = "place"
  /\ \E key \in Keys \ DOMAIN orders :
       orders' = [k \in DOMAIN orders \cup {key} |-> IF k = key THEN "Submitted" ELSE orders[k]]
  /\ call' = [call EXCEPT ![p].op = IF QuantityNew(0) THEN "execute" ELSE "panicked"]
  /\ UNCHANGED <<subscribers, calls>>

(* The update goes to a channel that is never full here.                   *)
CancelPaperOrder(p) ==
  /\ call[p].op = "cancel"
  /\ call[p].id \in DOMAIN orders /\ CanCancel(orders[call[p].id])
  /\ orders' = [orders EXCEPT ![call[p].id] = "Cancelled"]
  /\ call' = [call EXCEPT ![p] = Idle]
  /\ UNCHANGED <<subscribers, calls>>

CancelRefused(p) ==
  /\ call[p].op = "cancel"
  /\ call[p].id \in DOMAIN orders => ~CanCancel(orders[call[p].id])
  /\ call' = [call EXCEPT ![p] = Idle]
  /\ UNCHANGED <<orders, subscribers, calls>>

(* modify_order() looks the order up and then cancels it; the modified one *)
(* is not placed.                                                          *)
ModifyOrder(p) ==
  /\ call[p].op = "modify"
  /\ call' = [call EXCEPT ![p] = IF call[p].id \in DOMAIN orders
                                 THEN [op |-> "cancel", id |-> call[p].id] ELSE Idle]
  /\ UNCHANGED <<orders, subscribers, calls>>

GetOpenOrders == {key \in DOMAIN orders : IsActive(orders[key])}

Next ==
  \E p \in Callers :
    \/ Begin(p) \/ Subscribe(p) \/ PlaceOrder(p)
    \/ CancelPaperOrder(p) \/ CancelRefused(p) \/ ModifyOrder(p)

Spec == Init /\ [][Next]_vars
-----------------------------------------------------------------------------
(* However place_order() ends, the order it took is not left open: the     *)
(* test test_place_market_order unwraps the result (paper_trading.rs:1382) *)
(* and then finds the order filled (paper_trading.rs:1391).                *)
PlacedMeansFilled ==
  \A p \in Callers : call[p].op = "panicked" => GetOpenOrders = {}
=============================================================================
