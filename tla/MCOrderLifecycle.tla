-------------------------- MODULE MCOrderLifecycle --------------------------
(***************************************************************************)
(* Finite instances of OrderLifecycle: two executions of one order, and    *)
(* the order updates a gateway emits for it.                               *)
(***************************************************************************)
EXTENDS OrderLifecycle, Integers, TLC

CONSTANTS o1, e1, e2

UnitQty == [e \in Execs |-> 1]
GrowingQty == e1 :> 1 @@ e2 :> 2
DistinctKeys == [e \in Execs |-> e]
OneKey == [e \in Execs |-> e1]
ExecsOfO1 == [e \in Execs |-> o1]
AllBuy == [o \in Orders |-> "Buy"]

Resting(status, qty) == [o \in Orders |-> [status |-> status, quantity |-> qty, filled |-> 0]]
Unknown == [o \in Orders |-> NoOrder]
SubmittedPendingOrUnknown == {Resting("Submitted", 2), Resting("Pending", 2), Unknown}
PendingCancelledOrUnknown == {Resting("Pending", 3), Resting("Cancelled", 3), Unknown}

LongOne == {[side |-> "Buy", quantity |-> 1, realized |-> 0]}
ShortOne == {[side |-> "Sell", quantity |-> 1, realized |-> 0]}
NoPositionYet == {NoPosition}
AnyPosition == LongOne \cup ShortOne \cup NoPositionYet

NoUpdates == {}
UpdateTo(s) == [order |-> o1, status |-> s]
Complete == {UpdateTo("Filled")}

SignedQty(p) == IF p = NoPosition THEN 0
                ELSE IF p.side = "Buy" THEN p.quantity ELSE 0 - p.quantity

SignedFill(e) == IF OrderSide[ExecOrder[e]] = "Buy" THEN ExecQty[e] ELSE 0 - ExecQty[e]

PositionWrites(e) == MapThenSumSet(LAMBDA g : positionWrites[g][e], Gens)

(* The signed position is the initial one plus every fill upserted into    *)
(* it: "For now, we'll update via the repo upsert which handles this"      *)
(* (order_lifecycle.rs:808) is the code's claim for partial reductions.    *)
PositionAccountsForFills ==
  SignedQty(position) = SignedQty(CHOOSE p \in InitPositions : TRUE)
                        + MapThenSumSet(LAMBDA e : SignedFill(e) * PositionWrites(e), Execs)
=============================================================================
