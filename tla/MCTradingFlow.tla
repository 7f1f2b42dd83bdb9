---------------------------- MODULE MCTradingFlow ----------------------------
(***************************************************************************)
(* A finite instance of TradingFlow: one order of two units, bought in two *)
(* executions, placed up to twice and cancelled at any moment.             *)
(***************************************************************************)
EXTENDS TradingFlow, TLC

CONSTANTS o1, e1, e2, c1

ExecsOfO1 == [e \in Execs |-> o1]
GrowingQty == e1 :> 1 @@ e2 :> 2
DistinctKeys == [e \in Execs |-> e]
AllBuy == [o \in Orders |-> "Buy"]
EmptyRepository == {[o \in Orders |-> NoOrder]}
LongOne == {[side |-> "Buy", quantity |-> 1, realized |-> 0]}
UpdateTo(s) == [order |-> o1, status |-> s]
AckAndCancel == {UpdateTo("Pending"), UpdateTo("Cancelled")}
TwoUnits == [o \in Orders |-> 2]
EitherConstructor == {"Created", "Pending"}
CancelO1 == [c \in Cancels |-> o1]
=============================================================================
