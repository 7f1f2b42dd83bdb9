------------------------- MODULE TradingFlow_proofs -------------------------
(***************************************************************************)
(* Machine-checked proofs about TradingFlow, for every value of its        *)
(* constants.  First about the trading service by itself, with somebody    *)
(* else writing the orders it has stored.  Then that somebody is the order *)
(* lifecycle manager: what was proved of each by itself holds of the two   *)
(* at work on one repository, and neither breaks what the other relies on. *)
(***************************************************************************)
EXTENDS TradingFlow, TLAPS

LEMMA OrderOps ==
  ASSUME NEW o \in Order
  PROVE  /\ UpdateStatus(o, "Submitted") \in Order
         /\ CancelOrder(o) \in Order
         /\ RejectOrder(o) \in Order
  BY DEF Order, OrderStatus, UpdateStatus, CancelOrder, RejectOrder

LEMMA Calls ==
  ASSUME NEW pc \in CallPcs, NEW n \in Nat, NEW r \in Results,
         NEW x \in Order \cup {NoOrder},
         pc \in {"risk", "save", "execute", "putBack"} => x # NoOrder
  PROVE  Call(pc, n, r, x) \in CallRecord
  BY DEF Call, CallRecord

LEMMA CancelCalls ==
  ASSUME NEW pc \in {"get", "send", "put", "publish", "cancelled", "failed"},
         NEW x \in Order \cup {NoOrder}, pc \in {"send", "put"} => x # NoOrder
  PROVE  Cancel(pc, x) \in CancelRecord
  BY DEF Cancel, CancelRecord

(* Where a call goes next: its record stays well formed.                   *)
LEMMA PlaceMoves ==
  ASSUME TypeOK, NEW o \in Orders
  PROVE  /\ \A r \in Results : Return(o, r) => placing' \in [Orders -> CallRecord]
         /\ \A pc \in CallPcs, x \in Order \cup {NoOrder} :
              /\ Goto(o, pc, x)
              /\ pc \in {"risk", "save", "execute", "putBack"} => x # NoOrder
              => placing' \in [Orders -> CallRecord]
<1>1. placing[o].attempts \in Nat /\ placing[o].result \in Results
  BY DEF TypeOK, CallRecord
<1>2. ASSUME NEW r \in Results, Return(o, r)
      PROVE  placing' \in [Orders -> CallRecord]
  <2>1. Call("idle", placing[o].attempts, r, NoOrder) \in CallRecord
    BY <1>1, Calls DEF CallPcs
  <2> QED BY <1>2, <2>1 DEF Return, TypeOK
<1>3. ASSUME NEW pc \in CallPcs, NEW x \in Order \cup {NoOrder}, Goto(o, pc, x),
             pc \in {"risk", "save", "execute", "putBack"} => x # NoOrder
      PROVE  placing' \in [Orders -> CallRecord]
  <2>1. Call(pc, placing[o].attempts, placing[o].result, x) \in CallRecord
    BY <1>1, <1>3, Calls
  <2> QED BY <1>3, <2>1 DEF Goto, TypeOK
<1> QED BY <1>2, <1>3

LEMMA CancelMoves ==
  ASSUME TypeOK, NEW c \in Cancels,
         NEW pc \in {"get", "send", "put", "publish", "cancelled", "failed"},
         NEW x \in Order \cup {NoOrder},
         CancelGoto(c, pc, x), pc \in {"send", "put"} => x # NoOrder
  PROVE  cancelling' \in [Cancels -> CancelRecord]
<1>1. Cancel(pc, x) \in CancelRecord
  BY CancelCalls
<1> QED BY <1>1 DEF CancelGoto, TypeOK

(* What the type says of the copies that calls hold.                       *)
LEMMA Copies ==
  ASSUME TypeOK
  PROVE  /\ \A o \in Orders : placing[o].pc \in {"risk", "save", "execute", "putBack"} =>
              placing[o].order \in Order
         /\ \A c \in Cancels : cancelling[c].pc \in {"send", "put"} =>
              cancelling[c].order \in Order
         /\ \A c \in Cancels : CancelTarget[c] \in Orders
  BY TradingAssumption DEF TypeOK, CallRecord, CancelRecord
-----------------------------------------------------------------------------
LEMMA InitType == Init => TypeOK
<1> SUFFICES ASSUME Init PROVE TypeOK
  OBVIOUS
<1>1. Call("idle", 0, "none", NoOrder) \in CallRecord
  BY Calls DEF CallPcs, Results
<1>2. Cancel("get", NoOrder) \in CancelRecord
  BY CancelCalls
<1> QED BY <1>1, <1>2 DEF Init, TypeOK

LEMMA TypePlaces ==
  ASSUME TypeOK, NEW o \in Orders, PlaceBegin(o) \/ PlaceStep(o)
  PROVE  TypeOK'
<1> DEFINE Rest == /\ orders' \in [Orders -> Order \cup {NoOrder}]
                   /\ cancelling' \in [Cancels -> CancelRecord]
                   /\ accepted' \in [Orders -> Nat]
                   /\ cancelSent' \subseteq Orders
                   /\ published' \subseteq {"Submitted", "Rejected", "Cancelled"} \X Orders
                   /\ mishaps' \in Nat
<1>1. CASE PlaceBegin(o)
  <2>1. PICK s \in PlacedAs :
          LET order == [status |-> s, quantity |-> OrderQty[o], filled |-> 0]
              n == placing[o].attempts + 1
          IN placing' = [placing EXCEPT ![o] =
               IF ValidForSubmission(order) THEN Call("risk", n, "none", order)
               ELSE Call("idle", n, "validation", NoOrder)]
    BY <1>1 DEF PlaceBegin
  <2> DEFINE order == [status |-> s, quantity |-> OrderQty[o], filled |-> 0]
             n == placing[o].attempts + 1
  <2>2. order \in Order /\ n \in Nat
    BY TradingAssumption DEF Order, TypeOK, CallRecord
  <2>3. order # NoOrder
    BY <2>2, TradingAssumption
  <2> HIDE DEF order, n
  <2>4. Call("risk", n, "none", order) \in CallRecord
    BY <2>2, <2>3, Calls DEF CallPcs, Results
  <2>5. Call("idle", n, "validation", NoOrder) \in CallRecord
    BY <2>2, Calls DEF CallPcs, Results
  <2>6. placing' = [placing EXCEPT ![o] =
          IF ValidForSubmission(order) THEN Call("risk", n, "none", order)
          ELSE Call("idle", n, "validation", NoOrder)]
    BY <2>1 DEF order, n
  <2>7. placing' \in [Orders -> CallRecord]
    BY <2>4, <2>5, <2>6 DEF TypeOK
  <2>8. Rest
    BY <1>1 DEF PlaceBegin, TypeOK, outside
  <2> QED BY <2>7, <2>8 DEF TypeOK
<1>2. CASE PlaceRiskCheck(o)
  <2>1. UpdateStatus(placing[o].order, "Submitted") \in Order
    BY <1>2, Copies, OrderOps DEF PlaceRiskCheck
  <2>2. UpdateStatus(placing[o].order, "Submitted") # NoOrder
    BY <2>1, TradingAssumption
  <2>3. placing' \in [Orders -> CallRecord]
    BY <1>2, <2>1, <2>2, PlaceMoves DEF PlaceRiskCheck, CallPcs, Results
  <2>4. Rest
    BY <1>2 DEF PlaceRiskCheck, Mishap, NoMishap, Event, TypeOK
  <2> QED BY <2>3, <2>4 DEF TypeOK
<1>3. CASE PlaceSave(o)
  <2>1. placing[o].order \in Order /\ placing[o].order # NoOrder
    BY <1>3, Copies, TradingAssumption DEF PlaceSave
  <2>2. placing' \in [Orders -> CallRecord]
    BY <1>3, <2>1, PlaceMoves DEF PlaceSave, CallPcs, Results
  <2>3. Rest
    BY <1>3, <2>1 DEF PlaceSave, Mishap, NoMishap, TypeOK, outside
  <2> QED BY <2>2, <2>3 DEF TypeOK
<1>4. CASE PlaceExecute(o)
  <2>1. placing' \in [Orders -> CallRecord]
    BY <1>4, PlaceMoves DEF PlaceExecute, CallPcs
  <2>2. Rest
    BY <1>4 DEF PlaceExecute, Mishap, NoMishap, TypeOK
  <2> QED BY <2>1, <2>2 DEF TypeOK
<1>5. CASE RollbackGet(o)
  <2>1. orders[o] # NoOrder => RejectOrder(orders[o]) \in Order
    BY OrderOps DEF TypeOK
  <2>2. orders[o] # NoOrder => RejectOrder(orders[o]) # NoOrder
    BY <2>1, TradingAssumption
  <2>3. placing' \in [Orders -> CallRecord]
    BY <1>5, <2>1, <2>2, PlaceMoves DEF RollbackGet, CallPcs, Results
  <2>4. Rest
    BY <1>5 DEF RollbackGet, Mishap, NoMishap, TypeOK, outside
  <2> QED BY <2>3, <2>4 DEF TypeOK
<1>6. CASE RollbackPut(o)
  <2>1. placing[o].order \in Order
    BY <1>6, Copies DEF RollbackPut
  <2>2. placing' \in [Orders -> CallRecord]
    BY <1>6, PlaceMoves DEF RollbackPut, Results
  <2>3. Rest
    BY <1>6, <2>1 DEF RollbackPut, Mishap, NoMishap, TypeOK, outside
  <2> QED BY <2>2, <2>3 DEF TypeOK
<1>7. CASE PlacePublish(o)
  <2>1. placing' \in [Orders -> CallRecord]
    BY <1>7, PlaceMoves DEF PlacePublish, Results
  <2>2. Rest
    BY <1>7 DEF PlacePublish, Event, TypeOK
  <2> QED BY <2>1, <2>2 DEF TypeOK
<1> QED BY <1>1, <1>2, <1>3, <1>4, <1>5, <1>6, <1>7 DEF PlaceStep

LEMMA TypeCancels ==
  ASSUME TypeOK, NEW c \in Cancels, CancelStep(c)
  PROVE  TypeOK'
<1> DEFINE Rest == /\ orders' \in [Orders -> Order \cup {NoOrder}]
                   /\ placing' \in [Orders -> CallRecord]
                   /\ accepted' \in [Orders -> Nat]
                   /\ cancelSent' \subseteq Orders
                   /\ published' \subseteq {"Submitted", "Rejected", "Cancelled"} \X Orders
                   /\ mishaps' \in Nat
<1>0. CancelTarget[c] \in Orders
  BY Copies
<1>1. CASE CancelGet(c)
  <2> DEFINE found == orders[CancelTarget[c]]
  <2>1. found # NoOrder => CancelOrder(found) \in Order
    BY <1>0, OrderOps DEF TypeOK
  <2>2. found # NoOrder => CancelOrder(found) # NoOrder
    BY <2>1, TradingAssumption
  <2>3. \/ CancelGoto(c, "failed", NoOrder)
        \/ found # NoOrder /\ CancelGoto(c, "send", CancelOrder(found))
    BY <1>1 DEF CancelGet
  <2> HIDE DEF found
  <2>4. cancelling' \in [Cancels -> CancelRecord]
    BY <2>1, <2>2, <2>3, CancelMoves
  <2>5. Rest
    BY <1>1 DEF CancelGet, Mishap, NoMishap, TypeOK, outside
  <2> QED BY <2>4, <2>5 DEF TypeOK
<1>2. CASE CancelSend(c)
  <2>1. cancelling[c].order \in Order /\ cancelling[c].order # NoOrder
    BY <1>2, Copies, TradingAssumption DEF CancelSend
  <2>2. cancelling' \in [Cancels -> CancelRecord]
    BY <1>2, <2>1, CancelMoves DEF CancelSend
  <2>3. Rest
    BY <1>0, <1>2 DEF CancelSend, TypeOK
  <2> QED BY <2>2, <2>3 DEF TypeOK
<1>3. CASE CancelPut(c)
  <2>1. cancelling[c].order \in Order
    BY <1>3, Copies DEF CancelPut
  <2>2. cancelling' \in [Cancels -> CancelRecord]
    BY <1>3, CancelMoves DEF CancelPut
  <2>3. Rest
    BY <1>0, <1>3, <2>1 DEF CancelPut, Mishap, NoMishap, TypeOK, outside
  <2> QED BY <2>2, <2>3 DEF TypeOK
<1>4. CASE CancelPublish(c)
  <2>1. cancelling' \in [Cancels -> CancelRecord]
    BY <1>4, CancelMoves DEF CancelPublish
  <2>2. Rest
    BY <1>0, <1>4 DEF CancelPublish, Event, TypeOK
  <2> QED BY <2>1, <2>2 DEF TypeOK
<1> QED BY <1>1, <1>2, <1>3, <1>4 DEF CancelStep

LEMMA TypeStep == TypeOK /\ [Next]_<<orders, tradingVars>> => TypeOK'
<1> SUFFICES ASSUME TypeOK, [Next]_<<orders, tradingVars>> PROVE TypeOK'
  OBVIOUS
<1>1. CASE WrittenElsewhere
  BY <1>1 DEF WrittenElsewhere, tradingVars, callVars, outside, TypeOK
<1>2. CASE UNCHANGED <<orders, tradingVars>>
  BY <1>2 DEF tradingVars, callVars, outside, TypeOK
<1> QED BY <1>1, <1>2, TypePlaces, TypeCancels DEF Next

(* The calls of place_order() and cancel_order() hold what they should at  *)
(* every step, whoever else writes the repository (trading_service.rs).    *)
THEOREM TypeCorrect == Spec => []TypeOK
<1>1. Init => TypeOK
  BY InitType
<1>2. TypeOK /\ [Next]_<<orders, tradingVars>> => TypeOK'
  BY TypeStep
<1> QED BY <1>1, <1>2, PTL DEF Spec
-----------------------------------------------------------------------------
(* The strengthening: what the place in a call says about the repository   *)
(* and the market.  An order is fresh before its first call, and for as    *)
(* long as that call is asking, or was refused by, the risk engine.        *)
Fresh(o) ==
  \/ placing[o].attempts = 0
  \/ /\ placing[o].attempts = 1
     /\ placing[o].pc = "risk" \/ placing[o].result \in {"validation", "risk"}

PlaceInv(o) ==
  /\ placing[o].pc # "idle" => placing[o].result = "none" /\ placing[o].attempts # 0
  /\ placing[o].pc = "execute" => orders[o] # NoOrder
  /\ placing[o].pc = "publish" => accepted[o] > 0
  /\ accepted[o] > 0 => orders[o] # NoOrder
  /\ Fresh(o) => orders[o] = NoOrder /\ accepted[o] = 0
  /\ <<"Submitted", o>> \in published => accepted[o] > 0

CancelInv(c) ==
  /\ cancelling[c].pc \in {"send", "put"} => orders[CancelTarget[c]] # NoOrder
  /\ cancelling[c].pc \in {"put", "publish"} => CancelTarget[c] \in cancelSent

CancelEventInv == \A o \in Orders : <<"Cancelled", o>> \in published => o \in cancelSent

TraceInv ==
  /\ \A o \in Orders : PlaceInv(o)
  /\ \A c \in Cancels : CancelInv(c)
  /\ CancelEventInv

LEMMA InitTrace == Init => TraceInv
  BY TradingAssumption
  DEF Init, TraceInv, PlaceInv, CancelInv, CancelEventInv, Fresh, Call, Cancel

(* A step of a call for one order leaves every other order alone.          *)
LEMMA PlaceOthers ==
  ASSUME TypeOK, NEW o \in Orders, PlaceBegin(o) \/ PlaceStep(o)
  PROVE  /\ UNCHANGED <<cancelling, cancelSent>>
         /\ orders' \in [Orders -> Order \cup {NoOrder}]
         /\ orders[o] # NoOrder => orders'[o] # NoOrder
         /\ \A x \in Orders : <<"Cancelled", x>> \in published' => <<"Cancelled", x>> \in published
         /\ \A x \in Orders \ {o} :
              /\ orders'[x] = orders[x] /\ placing'[x] = placing[x] /\ accepted'[x] = accepted[x]
              /\ <<"Submitted", x>> \in published' => <<"Submitted", x>> \in published
<1>1. TypeOK'
  BY TypePlaces
<1>2. placing[o].pc \in {"save", "putBack"} => placing[o].order # NoOrder
  BY Copies, TradingAssumption
<1>3. UNCHANGED <<cancelling, cancelSent>>
  BY DEF PlaceBegin, PlaceStep, PlaceRiskCheck, PlaceSave, PlaceExecute, RollbackGet,
         RollbackPut, PlacePublish, outside
<1>4. \/ orders' = orders
      \/ /\ orders' = [orders EXCEPT ![o] = placing[o].order]
         /\ placing[o].pc \in {"save", "putBack"}
  <2>1. PlaceSave(o) \/ RollbackPut(o) => orders' \in {orders, [orders EXCEPT ![o] = placing[o].order]}
    BY DEF PlaceSave, RollbackPut
  <2>2. PlaceSave(o) \/ RollbackPut(o) => placing[o].pc \in {"save", "putBack"}
    BY DEF PlaceSave, RollbackPut
  <2>3. ~(PlaceSave(o) \/ RollbackPut(o)) => orders' = orders
    BY DEF PlaceBegin, PlaceStep, PlaceRiskCheck, PlaceExecute, RollbackGet, PlacePublish
  <2> QED BY <2>1, <2>2, <2>3
<1>5. accepted' = accepted \/ accepted' = [accepted EXCEPT ![o] = @ + 1]
  BY DEF PlaceBegin, PlaceStep, PlaceRiskCheck, PlaceSave, PlaceExecute, RollbackGet,
         RollbackPut, PlacePublish, outside
<1>6. \/ published' = published
      \/ published' = published \cup {<<"Rejected", o>>}
      \/ published' = published \cup {<<"Submitted", o>>}
  BY DEF PlaceBegin, PlaceStep, PlaceRiskCheck, PlaceSave, PlaceExecute, RollbackGet,
         RollbackPut, PlacePublish, outside, Event
<1>7. \A x \in Orders \ {o} : placing'[x] = placing[x]
  BY DEF TypeOK, PlaceBegin, PlaceStep, PlaceRiskCheck, PlaceSave, PlaceExecute,
         RollbackGet, RollbackPut, PlacePublish, Goto, Return
<1> QED BY <1>1, <1>2, <1>3, <1>4, <1>5, <1>6, <1>7 DEF TypeOK

(* The call's own order, one action at a time.                             *)
LEMMA PlaceTrace ==
  ASSUME TypeOK, NEW o \in Orders, PlaceInv(o), PlaceBegin(o) \/ PlaceStep(o)
  PROVE  PlaceInv(o)'
<1> DEFINE n == placing[o].attempts
<1>0. n \in Nat /\ accepted[o] \in Nat
  BY DEF TypeOK, CallRecord
<1>1. CASE PlaceBegin(o)
  <2>1. \E x \in Order \cup {NoOrder} : placing'[o] \in
          {Call("risk", n + 1, "none", x), Call("idle", n + 1, "validation", x)}
    <3>1. PICK s \in PlacedAs :
          LET order == [status |-> s, quantity |-> OrderQty[o], filled |-> 0]
          IN placing'[o] =
               IF ValidForSubmission(order) THEN Call("risk", n + 1, "none", order)
               ELSE Call("idle", n + 1, "validation", NoOrder)
      BY <1>1 DEF PlaceBegin, TypeOK
    <3>2. [status |-> s, quantity |-> OrderQty[o], filled |-> 0] \in Order
      BY TradingAssumption DEF Order
    <3> QED BY <3>1, <3>2
  <2>2. UNCHANGED <<orders, accepted, published>>
    BY <1>1 DEF PlaceBegin, outside
  <2>3. placing'[o].attempts = n + 1 /\ n + 1 # 0 /\ (n + 1 = 1 => n = 0)
    BY <1>0, <2>1 DEF Call
  <2>4. \/ placing'[o].pc = "risk" /\ placing'[o].result = "none"
        \/ placing'[o].pc = "idle" /\ placing'[o].result = "validation"
    BY <2>1 DEF Call
  <2>5. Fresh(o)' => Fresh(o)
    BY <2>3 DEF Fresh
  <2> QED BY <2>2, <2>3, <2>4, <2>5 DEF PlaceInv
<1>2. CASE PlaceRiskCheck(o)
  <2>1. /\ placing[o].pc = "risk" /\ placing'[o].attempts = n
        /\ UNCHANGED <<orders, accepted>>
        /\ \/ placing'[o].pc = "save" /\ placing'[o].result = placing[o].result
           \/ placing'[o].pc = "idle" /\ placing'[o].result \in {"repository", "execution", "risk"}
        /\ published' \in {published, published \cup {<<"Rejected", o>>}}
    BY <1>2 DEF PlaceRiskCheck, Goto, Return, Call, Event, TypeOK
  <2> QED BY <1>0, <2>1 DEF PlaceInv, Fresh
<1>3. CASE PlaceSave(o)
  <2>1. placing[o].order \in Order /\ placing[o].order # NoOrder
    BY <1>3, Copies, TradingAssumption DEF PlaceSave
  <2>2. /\ placing[o].pc = "save" /\ placing'[o].attempts = n
        /\ UNCHANGED <<accepted, published>>
        /\ \/ /\ placing'[o].pc = "execute" /\ placing'[o].result = placing[o].result
              /\ orders'[o] = placing[o].order
           \/ /\ placing'[o].pc = "idle" /\ placing'[o].result = "repository"
              /\ orders'[o] = placing[o].order \/ orders'[o] = orders[o]
    BY <1>3 DEF PlaceSave, Goto, Return, Call, TypeOK, outside
  <2> QED BY <1>0, <2>1, <2>2 DEF PlaceInv, Fresh
<1>4. CASE PlaceExecute(o)
  <2>1. /\ placing[o].pc = "execute" /\ placing'[o].attempts = n
        /\ UNCHANGED <<orders, published>>
        /\ placing'[o].result = placing[o].result
        /\ \/ placing'[o].pc = "publish" /\ accepted'[o] = accepted[o] + 1
           \/ placing'[o].pc = "getBack" /\ accepted'[o] \in {accepted[o], accepted[o] + 1}
    BY <1>4 DEF PlaceExecute, Goto, Call, TypeOK
  <2> QED BY <1>0, <2>1 DEF PlaceInv, Fresh
<1>5. CASE RollbackGet(o)
  <2>1. /\ placing[o].pc = "getBack" /\ placing'[o].attempts = n
        /\ UNCHANGED <<orders, accepted, published>>
        /\ \/ placing'[o].pc = "putBack" /\ placing'[o].result = placing[o].result
           \/ placing'[o].pc = "idle" /\ placing'[o].result = "execution"
    BY <1>5 DEF RollbackGet, Goto, Return, Call, TypeOK, outside
  <2> QED BY <1>0, <2>1 DEF PlaceInv, Fresh
<1>6. CASE RollbackPut(o)
  <2>1. placing[o].order \in Order /\ placing[o].order # NoOrder
    BY <1>6, Copies, TradingAssumption DEF RollbackPut
  <2>2. /\ placing[o].pc = "putBack" /\ placing'[o].attempts = n
        /\ UNCHANGED <<accepted, published>>
        /\ placing'[o].pc = "idle" /\ placing'[o].result = "execution"
        /\ orders'[o] = placing[o].order \/ orders'[o] = orders[o]
    BY <1>6 DEF RollbackPut, Return, Call, TypeOK, outside
  <2> QED BY <1>0, <2>1, <2>2 DEF PlaceInv, Fresh
<1>7. CASE PlacePublish(o)
  <2>1. /\ placing[o].pc = "publish" /\ placing'[o].attempts = n
        /\ UNCHANGED <<orders, accepted>>
        /\ placing'[o].pc = "idle" /\ placing'[o].result = "ok"
    BY <1>7 DEF PlacePublish, Return, Call, TypeOK
  <2> QED BY <1>0, <2>1 DEF PlaceInv, Fresh
<1> QED BY <1>1, <1>2, <1>3, <1>4, <1>5, <1>6, <1>7 DEF PlaceStep

LEMMA CancelTrace ==
  ASSUME TypeOK, TraceInv, NEW c \in Cancels, CancelStep(c)
  PROVE  TraceInv'
<1> DEFINE t == CancelTarget[c]
<1>1. t \in Orders
  BY Copies
<1>2. TypeOK'
  BY TypeCancels
<1>3. cancelling[c].pc \in {"send", "put"} => cancelling[c].order # NoOrder
  BY Copies, TradingAssumption
<1>4. /\ UNCHANGED <<placing, accepted>>
      /\ \/ orders' = orders
         \/ orders' = [orders EXCEPT ![t] = cancelling[c].order] /\ cancelling[c].pc = "put"
  BY DEF CancelStep, CancelGet, CancelSend, CancelPut, CancelPublish, outside
<1>5. \A x \in Orders : orders'[x] = NoOrder <=> orders[x] = NoOrder
  BY <1>1, <1>3, <1>4 DEF TypeOK, TraceInv, CancelInv
<1>6. /\ cancelSent \subseteq cancelSent'
      /\ \/ published' = published
         \/ published' = published \cup {<<"Cancelled", t>>} /\ cancelling[c].pc = "publish"
  BY DEF CancelStep, CancelGet, CancelSend, CancelPut, CancelPublish, outside, Event
<1>7. \A o \in Orders : PlaceInv(o)'
  <2>1. \A o \in Orders : <<"Submitted", o>> \in published' => <<"Submitted", o>> \in published
    BY <1>6
  <2> QED BY <1>4, <1>5, <2>1 DEF TraceInv, PlaceInv, Fresh
<1>8. CancelEventInv'
  BY <1>6 DEF TraceInv, CancelInv, CancelEventInv
<1>9. \A d \in Cancels \ {c} : CancelInv(d)'
  <2>1. \A d \in Cancels \ {c} : cancelling'[d] = cancelling[d]
    BY DEF TypeOK, CancelStep, CancelGet, CancelSend, CancelPut, CancelPublish, CancelGoto
  <2>2. \A d \in Cancels : CancelTarget[d] \in Orders
    BY Copies
  <2> QED BY <1>5, <1>6, <2>1, <2>2 DEF TraceInv, CancelInv
<1>10. CancelInv(c)'
  <2>1. CASE CancelGet(c)
    <3>1. \/ cancelling'[c].pc = "failed"
          \/ cancelling'[c].pc = "send" /\ orders[t] # NoOrder
      BY <2>1 DEF CancelGet, CancelGoto, Cancel, TypeOK
    <3> QED BY <1>1, <1>5, <3>1 DEF CancelInv
  <2>2. CASE CancelSend(c)
    <3>1. /\ cancelling[c].pc = "send"
          /\ \/ cancelling'[c].pc = "failed"
             \/ cancelling'[c].pc = "put" /\ t \in cancelSent'
      BY <2>2 DEF CancelSend, CancelGoto, Cancel, TypeOK
    <3> QED BY <1>1, <1>5, <3>1 DEF TraceInv, CancelInv
  <2>3. CASE CancelPut(c)
    <3>1. cancelling[c].pc = "put" /\ cancelling'[c].pc \in {"publish", "failed"}
      BY <2>3 DEF CancelPut, CancelGoto, Cancel, TypeOK
    <3> QED BY <1>6, <3>1 DEF TraceInv, CancelInv
  <2>4. CASE CancelPublish(c)
    <3>1. cancelling'[c].pc = "cancelled"
      BY <2>4 DEF CancelPublish, CancelGoto, Cancel, TypeOK
    <3> QED BY <3>1 DEF CancelInv
  <2> QED BY <2>1, <2>2, <2>3, <2>4 DEF CancelStep
<1> QED BY <1>7, <1>8, <1>9, <1>10 DEF TraceInv

LEMMA TraceStep ==
  TypeOK /\ TraceInv /\ [Next]_<<orders, tradingVars>> => TraceInv'
<1> SUFFICES ASSUME TypeOK, TraceInv, [Next]_<<orders, tradingVars>> PROVE TraceInv'
  OBVIOUS
<1>1. ASSUME NEW o \in Orders, PlaceBegin(o) \/ PlaceStep(o)
      PROVE  TraceInv'
  <2>1. PlaceInv(o)'
    BY <1>1, PlaceTrace DEF TraceInv
  <2>2. \A x \in Orders \ {o} : PlaceInv(x)'
    BY <1>1, PlaceOthers, ZenonT(40) DEF TraceInv, PlaceInv, Fresh
  <2>3. \A c \in Cancels : CancelInv(c)'
    <3>1. \A x \in Orders : orders[x] # NoOrder => orders'[x] # NoOrder
      BY <1>1, PlaceOthers
    <3>2. UNCHANGED <<cancelling, cancelSent>>
      BY <1>1, PlaceOthers
    <3>3. \A c \in Cancels : CancelTarget[c] \in Orders
      BY Copies
    <3> QED BY <3>1, <3>2, <3>3 DEF TraceInv, CancelInv
  <2>4. CancelEventInv'
    BY <1>1, PlaceOthers DEF TraceInv, CancelEventInv
  <2> QED BY <2>1, <2>2, <2>3, <2>4 DEF TraceInv
<1>2. CASE WrittenElsewhere
  <2>1. /\ \A o \in Orders : orders'[o] = NoOrder <=> orders[o] = NoOrder
        /\ UNCHANGED <<placing, cancelling, accepted, cancelSent, published>>
    BY <1>2 DEF WrittenElsewhere, tradingVars, callVars, outside
  <2>2. \A o \in Orders : PlaceInv(o)'
    BY <2>1 DEF TraceInv, PlaceInv, Fresh
  <2>3. \A c \in Cancels : CancelTarget[c] \in Orders
    BY Copies
  <2> QED BY <2>1, <2>2, <2>3 DEF TraceInv, CancelInv, CancelEventInv
<1>3. CASE UNCHANGED <<orders, tradingVars>>
  BY <1>3 DEF tradingVars, callVars, outside, TraceInv, PlaceInv, Fresh, CancelInv, CancelEventInv
<1> QED BY <1>1, <1>2, <1>3, CancelTrace DEF Next

LEMMA TraceAlways == Spec => [](TypeOK /\ TraceInv)
<1>1. Init => TypeOK /\ TraceInv
  BY InitType, InitTrace
<1>2. (TypeOK /\ TraceInv) /\ [Next]_<<orders, tradingVars>> => (TypeOK /\ TraceInv)'
  BY TypeStep, TraceStep
<1> QED BY <1>1, <1>2, PTL DEF Spec

(* Persist before send: place_order() saves the order before the gateway   *)
(* sees it, and no rollback, cancellation or foreign write removes it.     *)
THEOREM MarketOrdersAreKnown == Spec => []KnownAtMarket
<1>1. TraceInv => KnownAtMarket
  BY DEF TraceInv, PlaceInv, KnownAtMarket
<1> QED BY <1>1, TraceAlways, PTL

(* A first call of place_order() that validation or the risk engine        *)
(* refuses reaches neither the repository nor the market.                  *)
THEOREM RefusalsLeaveNoTrace == Spec => []RefusedLeavesNoTrace
<1>1. TraceInv => RefusedLeavesNoTrace
  BY DEF TraceInv, PlaceInv, Fresh, RefusedLeavesNoTrace
<1> QED BY <1>1, TraceAlways, PTL

(* The events that place_order() and cancel_order() publish never run      *)
(* ahead of the market.                                                    *)
THEOREM PublishedEventsAreTrue == Spec => []EventsAreTrue
<1>1. TraceInv => EventsAreTrue
  BY DEF TraceInv, PlaceInv, CancelEventInv, EventsAreTrue
<1> QED BY <1>1, TraceAlways, PTL
-----------------------------------------------------------------------------
L == INSTANCE OrderLifecycle_proofs

(* L is the manager once more, with its lemmas.  Its definitions are those *)
(* of Lifecycle, step by step.                                             *)
LEMMA SameOrders ==
  /\ Lifecycle!Order = Order /\ L!Order = Order
  /\ L!Gens = Lifecycle!Gens
  /\ L!ConstantsAssumption
<1>1. Lifecycle!Order = Order /\ L!Order = Order
  BY DEF Order, OrderStatus, Lifecycle!Order, Lifecycle!OrderStatus,
         L!Order, L!OrderStatus
<1>2. Lifecycle!OrderStatus = L!OrderStatus
  BY DEF Lifecycle!OrderStatus, L!OrderStatus
<1>3. L!Gens = Lifecycle!Gens
  BY DEF Lifecycle!Gens, L!Gens
<1>4. \A o : Lifecycle!WellFormed(o) <=> L!WellFormed(o)
  BY <1>1 DEF Lifecycle!WellFormed, L!WellFormed
<1>5. L!ConstantsAssumption
  BY <1>1, <1>2, <1>4, FlowAssumption
  DEF Lifecycle!ConstantsAssumption, L!ConstantsAssumption, Lifecycle!Position, L!Position,
      Lifecycle!Side, L!Side, Lifecycle!Update, L!Update
<1> QED BY <1>1, <1>3, <1>5

LEMMA SameSteps ==
  ASSUME NEW g, NEW e, NEW u
  PROVE  /\ Lifecycle!StartStep(g) <=> L!StartStep(g)
         /\ Lifecycle!GatewayFill(e) <=> L!GatewayFill(e)
         /\ Lifecycle!GatewayUpdate(u) <=> L!GatewayUpdate(u)
         /\ Lifecycle!FillRecv(g) <=> L!FillRecv(g)
         /\ Lifecycle!FillSave(g) <=> L!FillSave(g)
         /\ Lifecycle!FillGetOrder(g) <=> L!FillGetOrder(g)
         /\ Lifecycle!FillPutOrder(g) <=> L!FillPutOrder(g)
         /\ Lifecycle!FillGetPosition(g) <=> L!FillGetPosition(g)
         /\ Lifecycle!FillPutPosition(g) <=> L!FillPutPosition(g)
         /\ Lifecycle!FillAnnounce(g) <=> L!FillAnnounce(g)
         /\ Lifecycle!FillPublish(g) <=> L!FillPublish(g)
         /\ Lifecycle!FillMark(g) <=> L!FillMark(g)
         /\ Lifecycle!UpdateRecv(g) <=> L!UpdateRecv(g)
         /\ Lifecycle!UpdateGet(g) <=> L!UpdateGet(g)
         /\ Lifecycle!UpdatePut(g) <=> L!UpdatePut(g)
         /\ Lifecycle!UpdatePublish(g) <=> L!UpdatePublish(g)
         /\ Lifecycle!EndStep(g) <=> L!EndStep(g)
<1> USE DEF Lifecycle!repos, L!repos, Lifecycle!effects, L!effects,
            Lifecycle!attempts, L!attempts, Lifecycle!tasks, L!tasks,
            Lifecycle!queues, L!queues, Lifecycle!control, L!control,
            Lifecycle!gateway, L!gateway, Lifecycle!FillTask, L!FillTask,
            Lifecycle!IdleFill, L!IdleFill, Lifecycle!OrderTask, L!OrderTask,
            Lifecycle!IdleUpdate, L!IdleUpdate, Lifecycle!Fault, L!Fault,
            Lifecycle!NoFault, L!NoFault, Lifecycle!Gens, L!Gens,
            Lifecycle!Decoded, L!Decoded, Lifecycle!OrderNewWithId,
            L!OrderNewWithId
<1>1. Lifecycle!StartStep(g) <=> L!StartStep(g)
  BY DEF Lifecycle!StartStep, L!StartStep, Lifecycle!StartSwap, L!StartSwap,
         Lifecycle!SubscribeFails, L!SubscribeFails,
         Lifecycle!SubscribeOrders, L!SubscribeOrders,
         Lifecycle!SubscribeFillsAndSpawn, L!SubscribeFillsAndSpawn,
         Lifecycle!StoreOrderHandle, L!StoreOrderHandle,
         Lifecycle!StoreFillHandle, L!StoreFillHandle,
         Lifecycle!StartInProgress, L!StartInProgress, Lifecycle!Subscribing,
         L!Subscribing
<1>2. Lifecycle!GatewayFill(e) <=> L!GatewayFill(e)
  BY DEF Lifecycle!GatewayFill, L!GatewayFill, Lifecycle!FillsSubscribed,
         L!FillsSubscribed
<1>3. Lifecycle!GatewayUpdate(u) <=> L!GatewayUpdate(u)
  BY DEF Lifecycle!GatewayUpdate, L!GatewayUpdate,
         Lifecycle!OrdersSubscribed, L!OrdersSubscribed
<1>4. Lifecycle!FillRecv(g) <=> L!FillRecv(g)
  BY DEF Lifecycle!FillRecv, L!FillRecv, Lifecycle!AlreadyProcessed,
         L!AlreadyProcessed
<1>5. Lifecycle!FillSave(g) <=> L!FillSave(g)
  BY DEF Lifecycle!FillSave, L!FillSave, Lifecycle!FillGoto, L!FillGoto,
         Lifecycle!FillFails, L!FillFails, Lifecycle!CanRetry, L!CanRetry,
         Lifecycle!Retried, L!Retried
<1>6. Lifecycle!FillGetOrder(g) <=> L!FillGetOrder(g)
  BY DEF Lifecycle!FillGetOrder, L!FillGetOrder, Lifecycle!FillGoto,
         L!FillGoto, Lifecycle!FillFails, L!FillFails, Lifecycle!CanRetry,
         L!CanRetry, Lifecycle!Retried, L!Retried, Lifecycle!CanFill,
         L!CanFill, Lifecycle!FillOrder, L!FillOrder, Lifecycle!IsActive,
         L!IsActive, Lifecycle!RemainingQuantity, L!RemainingQuantity
<1>7. Lifecycle!FillPutOrder(g) <=> L!FillPutOrder(g)
  BY DEF Lifecycle!FillPutOrder, L!FillPutOrder, Lifecycle!FillGoto,
         L!FillGoto, Lifecycle!FillFails, L!FillFails, Lifecycle!CanRetry,
         L!CanRetry, Lifecycle!Retried, L!Retried
<1>8. Lifecycle!FillGetPosition(g) <=> L!FillGetPosition(g)
  BY DEF Lifecycle!FillGetPosition, L!FillGetPosition, Lifecycle!FillGoto,
         L!FillGoto, Lifecycle!FillFails, L!FillFails, Lifecycle!CanRetry,
         L!CanRetry, Lifecycle!Retried, L!Retried,
         Lifecycle!PositionUpdatable, L!PositionUpdatable,
         Lifecycle!PositionAfter, L!PositionAfter
<1>9. Lifecycle!FillPutPosition(g) <=> L!FillPutPosition(g)
  BY DEF Lifecycle!FillPutPosition, L!FillPutPosition, Lifecycle!FillGoto,
         L!FillGoto, Lifecycle!FillFails, L!FillFails, Lifecycle!CanRetry,
         L!CanRetry, Lifecycle!Retried, L!Retried
<1>10. Lifecycle!FillAnnounce(g) <=> L!FillAnnounce(g)
  BY DEF Lifecycle!FillAnnounce, L!FillAnnounce, Lifecycle!FillGoto,
         L!FillGoto, Lifecycle!FillFails, L!FillFails, Lifecycle!CanRetry,
         L!CanRetry, Lifecycle!Retried, L!Retried
<1>11. Lifecycle!FillPublish(g) <=> L!FillPublish(g)
  BY DEF Lifecycle!FillPublish, L!FillPublish, Lifecycle!FillGoto, L!FillGoto
<1>c. \A S : Lifecycle!Cardinality(S) = L!Cardinality(S)
  BY DEF Lifecycle!Cardinality, L!Cardinality
<1>12. Lifecycle!FillMark(g) <=> L!FillMark(g)
  BY <1>c DEF Lifecycle!FillMark, L!FillMark, Lifecycle!Marked, L!Marked
<1>13. Lifecycle!UpdateRecv(g) <=> L!UpdateRecv(g)
  BY DEF Lifecycle!UpdateRecv, L!UpdateRecv
<1>14. Lifecycle!UpdateGet(g) <=> L!UpdateGet(g)
  BY DEF Lifecycle!UpdateGet, L!UpdateGet, Lifecycle!UpdateGoto,
         L!UpdateGoto, Lifecycle!UpdateFails, L!UpdateFails,
         Lifecycle!IsValidTransition, L!IsValidTransition,
         Lifecycle!UpdateStatus, L!UpdateStatus
<1>15. Lifecycle!UpdatePut(g) <=> L!UpdatePut(g)
  BY DEF Lifecycle!UpdatePut, L!UpdatePut, Lifecycle!UpdateGoto,
         L!UpdateGoto, Lifecycle!UpdateFails, L!UpdateFails
<1>16. Lifecycle!UpdatePublish(g) <=> L!UpdatePublish(g)
  BY DEF Lifecycle!UpdatePublish, L!UpdatePublish, Lifecycle!IsTerminal,
         L!IsTerminal
<1>17. Lifecycle!EndStep(g) <=> L!EndStep(g)
  BY DEF Lifecycle!EndStep, L!EndStep, Lifecycle!FillChannelEnds, L!FillChannelEnds,
         Lifecycle!OrderChannelEnds, L!OrderChannelEnds
<1> QED BY <1>1, <1>2, <1>3, <1>4, <1>5, <1>6, <1>7, <1>8, <1>9,
           <1>10, <1>11, <1>12, <1>13, <1>14, <1>15, <1>16, <1>17

LEMMA SameInit == Lifecycle!Init <=> L!Init
  BY DEF Lifecycle!Init, L!Init, Lifecycle!None, L!None, Lifecycle!Gens, L!Gens,
         Lifecycle!FillTask, L!FillTask, Lifecycle!IdleFill, L!IdleFill,
         Lifecycle!OrderTask, L!OrderTask, Lifecycle!IdleUpdate, L!IdleUpdate

LEMMA ManagerActs == ManagerStep \/ MarketStep => L!Next
<1>1. ASSUME ManagerStep PROVE L!Next
  <2>1. PICK g \in L!Gens :
          \/ Lifecycle!StartStep(g) \/ Lifecycle!FillStep(g)
          \/ Lifecycle!UpdateStep(g) \/ Lifecycle!EndStep(g)
    BY <1>1, SameOrders DEF ManagerStep
  <2>2. L!StartStep(g) \/ L!FillStep(g) \/ L!UpdateStep(g) \/ L!EndStep(g)
    BY <2>1, SameSteps
    DEF Lifecycle!FillStep, L!FillStep, Lifecycle!UpdateStep, L!UpdateStep
  <2> QED BY <2>2 DEF L!Next
<1>2. ASSUME MarketStep PROVE L!Next
  BY <1>2, SameSteps DEF MarketStep, MarketFill, MarketUpdate, L!Next, L!GatewayStep
<1> QED BY <1>1, <1>2
-----------------------------------------------------------------------------
(***************************************************************************)
(* The invariant: each component's own, and what only the composition can  *)
(* say, that the copies which calls of the service hold are within bounds. *)
(***************************************************************************)
CallCopies ==
  /\ \A o \in Orders : L!Within(placing[o].order)
  /\ \A c \in Cancels : L!Within(cancelling[c].order)

FlowInv == TypeOK /\ L!TypeOK /\ L!KnownInv /\ L!QuantityInv /\ CallCopies

LEMMA InitFlow == FlowInit => FlowInv
<1> SUFFICES ASSUME FlowInit PROVE FlowInv
  OBVIOUS
<1>1. L!Init /\ Init
  BY SameInit DEF FlowInit
<1>2. TypeOK /\ L!TypeOK /\ L!KnownInv /\ L!QuantityInv
  BY <1>1, SameOrders, InitType, L!InitType, L!InitKnown, L!InitQuantity
<1>3. CallCopies
  BY <1>1 DEF Init, Call, Cancel, CallCopies, L!Within
<1> QED BY <1>2, <1>3 DEF FlowInv

(* What the manager and the market do is writing known orders elsewhere.   *)
LEMMA ElsewhereStep ==
  ASSUME FlowInv, ManagerStep \/ MarketStep
  PROVE  FlowInv' /\ WrittenElsewhere
<1>1. L!Next
  BY ManagerActs
<1>2. L!TypeOK' /\ L!KnownInv' /\ L!QuantityInv' /\ L!StoresKnown
  BY <1>1, SameOrders, L!StepType, L!StepKnown, L!StepQuantity DEF FlowInv
<1>3. UNCHANGED serviceVars
  BY DEF ManagerStep, MarketStep
<1>4. orders' \in [Orders -> Order \cup {NoOrder}]
  BY <1>2, SameOrders DEF L!TypeOK
<1>5. WrittenElsewhere
  BY <1>2, <1>3, <1>4
  DEF WrittenElsewhere, L!StoresKnown, serviceVars, tradingVars, callVars, outside
<1>6. TypeOK'
  BY <1>5, TypeStep DEF FlowInv, Next
<1>7. CallCopies'
  BY <1>3 DEF FlowInv, CallCopies, serviceVars
<1> QED BY <1>2, <1>5, <1>6, <1>7 DEF FlowInv

(* What place_order() writes and holds after a step.                       *)
LEMMA PlaceCopies ==
  ASSUME FlowInv, NEW o \in Orders, PlaceBegin(o) \/ PlaceStep(o)
  PROVE  L!NeverOverfilled' /\ CallCopies'
<1> DEFINE x == placing[o].order
<1>1. TypeOK /\ L!Within(x) /\ L!Within(orders[o])
  BY DEF FlowInv, CallCopies, L!QuantityInv, L!NeverOverfilled, L!Within
<1>2. L!Within(NoOrder)
  BY DEF L!Within
<1>3. \A y \in Order : L!Within(y) => /\ L!Within(UpdateStatus(y, "Submitted"))
                                      /\ L!Within(RejectOrder(y))
  BY TradingAssumption DEF L!Within, Order, UpdateStatus, RejectOrder
<1>4. \A s : L!Within([status |-> s, quantity |-> OrderQty[o], filled |-> 0])
  BY TradingAssumption DEF L!Within
<1>5. orders' \in {orders, [orders EXCEPT ![o] = x]}
  BY DEF PlaceBegin, PlaceStep, PlaceRiskCheck, PlaceSave, PlaceExecute, RollbackGet,
         RollbackPut, PlacePublish
<1>6. \A y \in Orders : L!Within(orders'[y])
  BY <1>1, <1>5 DEF FlowInv, TypeOK, L!QuantityInv, L!NeverOverfilled, L!Within
<1>7. L!Within(placing'[o].order)
  <2>1. \A r : Return(o, r) => placing'[o].order = NoOrder
    BY <1>1 DEF Return, Call, TypeOK
  <2>2. \A pc, y : Goto(o, pc, y) => placing'[o].order = y
    BY <1>1 DEF Goto, Call, TypeOK
  <2>3. CASE PlaceBegin(o)
    <3>1. PICK s \in PlacedAs :
            LET order == [status |-> s, quantity |-> OrderQty[o], filled |-> 0]
                n == placing[o].attempts + 1
            IN placing' = [placing EXCEPT ![o] =
                 IF ValidForSubmission(order) THEN Call("risk", n, "none", order)
                 ELSE Call("idle", n, "validation", NoOrder)]
      BY <2>3 DEF PlaceBegin
    <3>2. placing'[o].order \in {NoOrder, [status |-> s, quantity |-> OrderQty[o], filled |-> 0]}
      BY <1>1, <3>1 DEF Call, TypeOK
    <3> QED BY <1>2, <1>4, <3>2
  <2>4. CASE PlaceRiskCheck(o)
    <3>1. x \in Order
      BY <1>1, <2>4, Copies DEF PlaceRiskCheck
    <3> QED BY <1>1, <1>2, <1>3, <2>1, <2>2, <2>4, <3>1 DEF PlaceRiskCheck
  <2>5. CASE RollbackGet(o)
    <3>1. orders[o] # NoOrder => orders[o] \in Order
      BY <1>1 DEF TypeOK
    <3> QED BY <1>1, <1>2, <1>3, <2>1, <2>2, <2>5, <3>1 DEF RollbackGet
  <2>6. CASE PlaceSave(o) \/ PlaceExecute(o) \/ RollbackPut(o) \/ PlacePublish(o)
    BY <1>1, <1>2, <2>1, <2>2, <2>6 DEF PlaceSave, PlaceExecute, RollbackPut, PlacePublish
  <2> QED BY <2>3, <2>4, <2>5, <2>6 DEF PlaceStep
<1>8. UNCHANGED cancelling /\ \A y \in Orders \ {o} : placing'[y] = placing[y]
  BY <1>1, PlaceOthers
<1> QED BY <1>6, <1>7, <1>8 DEF FlowInv, CallCopies, L!NeverOverfilled, L!Within

(* What cancel_order() writes and holds after a step.                      *)
LEMMA CancelCopies ==
  ASSUME FlowInv, NEW c \in Cancels, CancelStep(c)
  PROVE  /\ L!NeverOverfilled' /\ CallCopies'
         /\ \A y \in Orders : orders[y] # NoOrder => orders'[y] # NoOrder
<1> DEFINE t == CancelTarget[c]
<1>1. TypeOK /\ t \in Orders /\ L!Within(cancelling[c].order) /\ L!Within(orders[t])
  BY Copies DEF FlowInv, CallCopies, L!QuantityInv, L!NeverOverfilled, L!Within
<1>2. L!Within(NoOrder)
  BY DEF L!Within
<1>3. \A y \in Order : L!Within(y) => L!Within(CancelOrder(y))
  BY TradingAssumption DEF L!Within, Order, CancelOrder
<1>4. /\ orders' \in {orders, [orders EXCEPT ![t] = cancelling[c].order]}
      /\ orders' # orders => cancelling[c].order # NoOrder
      /\ UNCHANGED placing
  BY <1>1, Copies, TradingAssumption
  DEF CancelStep, CancelGet, CancelSend, CancelPut, CancelPublish, outside
<1>5. \A y \in Orders : /\ L!Within(orders'[y])
                        /\ orders[y] # NoOrder => orders'[y] # NoOrder
  BY <1>1, <1>4 DEF FlowInv, TypeOK, L!QuantityInv, L!NeverOverfilled, L!Within
<1>6. \A pc, y : CancelGoto(c, pc, y) => cancelling'[c].order = y
  BY <1>1 DEF CancelGoto, Cancel, TypeOK
<1>7. L!Within(cancelling'[c].order)
  <2>1. orders[t] # NoOrder => orders[t] \in Order
    BY <1>1 DEF TypeOK
  <2> QED BY <1>1, <1>2, <1>3, <1>6, <2>1
          DEF CancelStep, CancelGet, CancelSend, CancelPut, CancelPublish
<1>8. \A d \in Cancels \ {c} : cancelling'[d] = cancelling[d]
  BY <1>1 DEF TypeOK, CancelStep, CancelGet, CancelSend, CancelPut, CancelPublish, CancelGoto
<1> QED BY <1>4, <1>5, <1>7, <1>8 DEF FlowInv, CallCopies, L!NeverOverfilled, L!Within

(* The service leaves the manager's state alone, so of its invariants only *)
(* the parts about the repository are at stake.                            *)
LEMMA ServiceKeeps ==
  ASSUME FlowInv, ServiceStep
  PROVE  FlowInv' /\ Next
<1>1. UNCHANGED lifecycleVars
  BY DEF ServiceStep
<1>2. Next
  BY DEF ServiceStep, Next
<1>3. TypeOK'
  BY <1>2, TypeStep DEF FlowInv
<1>4. /\ L!NeverOverfilled' /\ CallCopies'
      /\ \A y \in Orders : orders[y] # NoOrder => orders'[y] # NoOrder
  <2>1. ASSUME NEW o \in Orders, PlaceBegin(o) \/ PlaceStep(o)
        PROVE  /\ L!NeverOverfilled' /\ CallCopies'
               /\ \A y \in Orders : orders[y] # NoOrder => orders'[y] # NoOrder
    BY <2>1, PlaceCopies, PlaceOthers DEF FlowInv
  <2> QED BY <2>1, CancelCopies DEF ServiceStep
<1>5. L!TypeOK'
  <2>1. orders' \in [Orders -> L!Order \cup {NoOrder}]
    BY <1>3, SameOrders DEF TypeOK
  <2> QED BY <1>1, <2>1 DEF FlowInv, lifecycleVars, L!TypeOK
<1>6. L!KnownInv'
  BY <1>1, <1>4 DEF FlowInv, lifecycleVars, L!KnownInv, L!Known
<1>7. L!QuantityInv'
  BY <1>1, <1>4 DEF FlowInv, lifecycleVars, L!QuantityInv
<1> QED BY <1>2, <1>3, <1>4, <1>5, <1>6, <1>7 DEF FlowInv

LEMMA StepFlow == FlowInv /\ [FlowNext]_vars => FlowInv' /\ [Next]_<<orders, tradingVars>>
<1> SUFFICES ASSUME FlowInv, [FlowNext]_vars
             PROVE  FlowInv' /\ [Next]_<<orders, tradingVars>>
  OBVIOUS
<1>1. CASE ServiceStep
  BY <1>1, ServiceKeeps
<1>2. CASE ManagerStep \/ MarketStep
  BY <1>2, ElsewhereStep DEF Next
<1>3. CASE UNCHANGED vars
  <2>1. UNCHANGED <<orders, lifecycleVars, serviceVars>>
    BY <1>3 DEF vars
  <2>2. UNCHANGED <<orders, tradingVars>>
    BY <2>1 DEF serviceVars, tradingVars, callVars, outside
  <2>3. TypeOK'
    BY <2>2, TypeStep DEF FlowInv
  <2>4. UNCHANGED L!vars
    BY <2>1 DEF lifecycleVars, L!vars, L!repos, L!effects, L!attempts, L!tasks, L!queues,
                L!control, L!gateway
  <2>5. L!TypeOK' /\ L!KnownInv' /\ L!QuantityInv'
    BY <2>4, SameOrders, L!StepType, L!StepKnown, L!StepQuantity DEF FlowInv
  <2>6. CallCopies'
    BY <2>1 DEF FlowInv, CallCopies, serviceVars
  <2> QED BY <2>2, <2>3, <2>5, <2>6 DEF FlowInv
<1> QED BY <1>1, <1>2, <1>3 DEF FlowNext

LEMMA FlowAlways == FlowSpec => []FlowInv
  BY InitFlow, StepFlow, PTL DEF FlowSpec

(* The composition implements the trading service's specification: all it  *)
(* assumes of its surroundings, that orders it stored are rewritten but    *)
(* never removed, is what the lifecycle manager does.                      *)
THEOREM FlowImplementsService == FlowSpec => ServiceInterface
<1>1. FlowInit => Init
  BY DEF FlowInit
<1>2. FlowInv /\ [FlowNext]_vars => [Next]_<<orders, tradingVars>>
  BY StepFlow
<1> QED BY <1>1, <1>2, FlowAlways, PTL DEF FlowSpec, ServiceInterface, Spec

(* With the service and the manager each writing back stale copies of the  *)
(* same order, no stored order is filled beyond its quantity.              *)
THEOREM FlowNeverOverfills == FlowSpec => []NeverOverfilled
<1>1. FlowInv => NeverOverfilled
  BY DEF FlowInv, L!QuantityInv, L!NeverOverfilled, NeverOverfilled,
         Lifecycle!NeverOverfilled
<1> QED BY <1>1, FlowAlways, PTL

(* Persist before send, now with the manager that writes the repository:   *)
(* what the market works is in it, so that a fill finds its order.         *)
THEOREM FlowOrdersAreKnown == FlowSpec => []KnownAtMarket
  BY FlowImplementsService, MarketOrdersAreKnown, PTL DEF ServiceInterface
-----------------------------------------------------------------------------
(***************************************************************************)
(* What becomes of a placement that failed.  Nobody but the calls of the   *)
(* service writes an order that the market never accepted: the manager is  *)
(* told only of those it did, and a cancellation of another is refused.    *)
(***************************************************************************)
ReportInv ==
  /\ L!ToldInv
  /\ \A e \in Execs : delivered[e] > 0 => accepted[ExecOrder[e]] > 0
  /\ \A u \in updatesSent : accepted[u.order] > 0
  /\ \A c \in Cancels : cancelling[c].pc = "put" => accepted[CancelTarget[c]] > 0

LEMMA InitReport == FlowInit => ReportInv
<1> SUFFICES ASSUME FlowInit PROVE ReportInv
  OBVIOUS
<1>1. L!Init /\ Init
  BY SameInit DEF FlowInit
<1>2. L!ToldInv
  BY <1>1, SameOrders, L!InitTold
<1>3. (\A e \in Execs : delivered[e] = 0) /\ updatesSent = {}
  BY <1>1 DEF L!Init
<1>4. \A c \in Cancels : cancelling[c].pc # "put"
  BY <1>1 DEF Init, Cancel
<1> QED BY <1>2, <1>3, <1>4 DEF ReportInv

(* No acceptance is taken back.                                            *)
LEMMA AcceptedGrows ==
  ASSUME TypeOK, ServiceStep
  PROVE  \A o \in Orders : accepted[o] > 0 => accepted'[o] > 0
<1>1. ASSUME NEW o \in Orders, PlaceBegin(o) \/ PlaceStep(o)
      PROVE  accepted' \in {accepted, [accepted EXCEPT ![o] = @ + 1]}
  BY <1>1 DEF PlaceBegin, PlaceStep, PlaceRiskCheck, PlaceSave, PlaceExecute, RollbackGet,
     RollbackPut, PlacePublish, outside
<1>2. ASSUME NEW c \in Cancels, CancelStep(c) PROVE accepted' = accepted
  BY <1>2 DEF CancelStep, CancelGet, CancelSend, CancelPut, CancelPublish, outside
<1>3. accepted' = accepted \/ \E o \in Orders : accepted' = [accepted EXCEPT ![o] = @ + 1]
  BY <1>1, <1>2 DEF ServiceStep
<1> QED BY <1>3 DEF TypeOK

(* A cancellation that is about to be written was sent to an order at the  *)
(* market.                                                                 *)
LEMMA CancelsSent ==
  ASSUME TypeOK, ReportInv, ServiceStep
  PROVE  \A c \in Cancels : cancelling'[c].pc = "put" => accepted'[CancelTarget[c]] > 0
<1>1. \A c \in Cancels : CancelTarget[c] \in Orders
  BY Copies
<1>2. ASSUME NEW c \in Cancels, cancelling'[c].pc = "put" PROVE accepted[CancelTarget[c]] > 0
  <2>1. CASE cancelling'[c] = cancelling[c]
    BY <1>2, <2>1 DEF ReportInv
  <2>2. CASE \E d \in Cancels : CancelStep(d) /\ cancelling'[c] # cancelling[c]
    <3>1. PICK d \in Cancels : CancelStep(d) /\ cancelling'[c] # cancelling[c]
      BY <2>2
    <3>2. d = c
      BY <3>1 DEF TypeOK, CancelStep, CancelGet, CancelSend, CancelPut, CancelPublish, CancelGoto
    <3>3. CancelSend(c)
      BY <1>2, <3>1, <3>2
      DEF TypeOK, CancelStep, CancelGet, CancelPut, CancelPublish, CancelGoto, Cancel
    <3> QED BY <1>2, <3>3 DEF CancelSend, CancelGoto, Cancel, TypeOK
  <2>3. ASSUME NEW o \in Orders, PlaceBegin(o) \/ PlaceStep(o) PROVE cancelling' = cancelling
    BY <2>3, PlaceOthers
  <2> QED BY <2>1, <2>2, <2>3 DEF ServiceStep
<1> QED BY <1>1, <1>2, AcceptedGrows

LEMMA StepReport ==
  ASSUME FlowInv, ReportInv, [FlowNext]_vars
  PROVE  ReportInv'
<1>1. CASE ServiceStep
  <2>1. /\ fillTask' = fillTask /\ orderTask' = orderTask /\ fillQ' = fillQ /\ orderQ' = orderQ
        /\ delivered' = delivered /\ updatesSent' = updatesSent
    BY <1>1 DEF ServiceStep, lifecycleVars
  <2>2. L!ToldInv'
    BY <2>1 DEF ReportInv, L!ToldInv
  <2>3. \A e \in Execs : ExecOrder[e] \in Orders
    BY FlowAssumption DEF Lifecycle!ConstantsAssumption
  <2>4. \A u \in updatesSent : u.order \in Orders
    BY SameOrders DEF FlowInv, L!TypeOK, L!ConstantsAssumption, L!Update
  <2> QED BY <1>1, <2>1, <2>2, <2>3, <2>4, AcceptedGrows, CancelsSent DEF FlowInv, ReportInv
<1>2. CASE ManagerStep \/ MarketStep
  <2>1. L!Next /\ UNCHANGED serviceVars
    BY <1>2, ManagerActs DEF ManagerStep, MarketStep
  <2>2. L!ToldInv'
    BY <2>1, SameOrders, L!StepTold DEF FlowInv, ReportInv
  <2>3. CASE ManagerStep
    <3>1. PICK g \in Lifecycle!Gens :
            \/ Lifecycle!StartStep(g) \/ Lifecycle!FillStep(g)
            \/ Lifecycle!UpdateStep(g) \/ Lifecycle!EndStep(g)
      BY <2>3 DEF ManagerStep
    <3>2. L!StartStep(g) \/ L!FillStep(g) \/ L!UpdateStep(g) \/ L!EndStep(g)
      BY <3>1, SameSteps
      DEF Lifecycle!FillStep, L!FillStep, Lifecycle!UpdateStep, L!UpdateStep
    <3>3. UNCHANGED <<delivered, updatesSent>>
      BY <3>2 DEF L!StartStep, L!StartSwap, L!SubscribeFails, L!SubscribeOrders,
         L!SubscribeFillsAndSpawn, L!StoreOrderHandle, L!StoreFillHandle, L!FillStep,
         L!FillRecv, L!FillSave, L!FillGetOrder, L!FillPutOrder, L!FillGetPosition,
         L!FillPutPosition, L!FillAnnounce, L!FillPublish, L!FillMark, L!UpdateStep,
         L!UpdateRecv, L!UpdateGet, L!UpdatePut, L!UpdatePublish, L!gateway, L!EndStep,
         L!FillChannelEnds, L!OrderChannelEnds
    <3> QED BY <2>1, <2>2, <3>3 DEF ReportInv, serviceVars
  <2>4. ASSUME NEW e \in Execs, MarketFill(e) PROVE ReportInv'
    <3>1. L!GatewayFill(e) /\ accepted[ExecOrder[e]] > 0
      BY <2>4, SameSteps DEF MarketFill, Working
    <3>2. delivered' = [delivered EXCEPT ![e] = @ + 1] /\ updatesSent' = updatesSent
      BY <3>1 DEF L!GatewayFill
    <3>3. \A f \in Execs : f # e => delivered'[f] = delivered[f]
      BY <3>2 DEF FlowInv, L!TypeOK
    <3> QED BY <2>1, <2>2, <3>1, <3>2, <3>3 DEF ReportInv, serviceVars
  <2>5. ASSUME NEW u \in Updates, MarketUpdate(u) PROVE ReportInv'
    <3>1. L!GatewayUpdate(u) /\ accepted[u.order] > 0
      BY <2>5, SameSteps DEF MarketUpdate, Working
    <3>2. updatesSent' = updatesSent \cup {u} /\ delivered' = delivered
      BY <3>1 DEF L!GatewayUpdate
    <3> QED BY <2>1, <2>2, <3>1, <3>2 DEF ReportInv, serviceVars
  <2> QED BY <1>2, <2>3, <2>4, <2>5 DEF MarketStep
<1>3. CASE UNCHANGED vars
  BY <1>3 DEF vars, lifecycleVars, serviceVars, ReportInv, L!ToldInv
<1> QED BY <1>1, <1>2, <1>3 DEF FlowNext

(* The manager and the market write no order that was never accepted.      *)
LEMMA UnacceptedKept ==
  ASSUME FlowInv, ReportInv, ManagerStep \/ MarketStep
  PROVE  \A o \in Orders : accepted[o] > 0 \/ orders'[o] = orders[o]
<1>1. L!WritesAreReports
  BY ManagerActs, SameOrders, L!StepTold DEF FlowInv, ReportInv
<1> QED BY <1>1 DEF L!WritesAreReports, ReportInv

(* While nothing has been lost, a call that has not handed its order over  *)
(* leaves it absent or closed, and one that takes it back rejects it.      *)
Closed(o) == orders[o] # NoOrder => IsTerminal(orders[o].status)

ClosedFor(o) ==
  /\ accepted[o] > 0 => placing[o].pc = "publish" \/ placing[o].result = "ok"
  /\ placing[o].result # "repository"
  /\ placing[o].pc \in {"idle", "risk", "save"} /\ placing[o].result # "ok" => Closed(o)
  /\ placing[o].pc = "putBack" => placing[o].order.status = "Rejected"

ClosedInv == mishaps = 0 => \A o \in Orders : ClosedFor(o)

LEMMA InitClosed == FlowInit => ClosedInv
  BY DEF FlowInit, Init, Call, ClosedInv, ClosedFor, Closed

LEMMA PlaceCloses ==
  ASSUME TypeOK, NEW o \in Orders, PlaceInv(o), ClosedFor(o), PlaceBegin(o) \/ PlaceStep(o),
         UNCHANGED mishaps
  PROVE  ClosedFor(o)'
<1>0. /\ accepted[o] \in Nat /\ mishaps \in Nat
      /\ orders[o] \in Order \cup {NoOrder} /\ placing \in [Orders -> CallRecord]
  BY DEF TypeOK
<1>m. ~Mishap
  BY <1>0 DEF Mishap
<1>n. placing[o].pc # "idle" => placing[o].result = "none"
  BY DEF PlaceInv
<1>1. CASE PlaceBegin(o)
  <2>1. /\ placing[o].pc = "idle" /\ placing[o].result \in Retryable \cup {"none"}
        /\ UNCHANGED <<orders, accepted>>
    BY <1>1 DEF PlaceBegin, outside
  <2>2. \/ placing'[o].pc = "risk" /\ placing'[o].result = "none"
        \/ placing'[o].pc = "idle" /\ placing'[o].result = "validation"
    BY <1>0, <1>1 DEF PlaceBegin, Call
  <2> QED BY <1>0, <2>1, <2>2 DEF ClosedFor, Closed, Retryable
<1>2. CASE PlaceRiskCheck(o)
  <2>1. /\ placing[o].pc = "risk" /\ UNCHANGED <<orders, accepted>>
        /\ \/ placing'[o].pc = "save" /\ placing'[o].result = placing[o].result
           \/ placing'[o].pc = "idle" /\ placing'[o].result \in {"execution", "risk"}
    BY <1>0, <1>2, <1>m DEF PlaceRiskCheck, Goto, Return, Call
  <2> QED BY <1>0, <1>n, <2>1 DEF ClosedFor, Closed
<1>3. CASE PlaceSave(o)
  <2>1. /\ placing[o].pc = "save" /\ accepted' = accepted
        /\ placing'[o].pc = "execute" /\ placing'[o].result = placing[o].result
    BY <1>0, <1>3, <1>m DEF PlaceSave, Goto, Call, outside
  <2> QED BY <1>0, <1>n, <2>1 DEF ClosedFor
<1>4. CASE PlaceExecute(o)
  <2>1. /\ placing[o].pc = "execute" /\ placing'[o].result = placing[o].result
        /\ \/ placing'[o].pc = "publish"
           \/ placing'[o].pc = "getBack" /\ accepted' = accepted
    BY <1>0, <1>4, <1>m DEF PlaceExecute, Goto, Call
  <2> QED BY <1>0, <1>n, <2>1 DEF ClosedFor
<1>5. CASE RollbackGet(o)
  <2>1. placing[o].pc = "getBack" /\ UNCHANGED <<orders, accepted>>
    BY <1>5 DEF RollbackGet, outside
  <2>2. CASE orders[o] # NoOrder /\ ~IsTerminal(orders[o].status)
    <3>1. Goto(o, "putBack", RejectOrder(orders[o]))
      BY <1>5, <1>m, <2>2 DEF RollbackGet
    <3>2. RejectOrder(orders[o]).status = "Rejected"
      BY <1>0, <2>2 DEF RejectOrder, Order
    <3>3. /\ placing'[o].pc = "putBack" /\ placing'[o].result = placing[o].result
          /\ placing'[o].order = RejectOrder(orders[o])
      BY <1>0, <3>1 DEF Goto, Call
    <3> QED BY <1>0, <1>n, <2>1, <3>2, <3>3 DEF ClosedFor
  <2>3. CASE ~(orders[o] # NoOrder /\ ~IsTerminal(orders[o].status))
    <3>1. Return(o, "execution")
      BY <1>5, <1>m, <2>3 DEF RollbackGet
    <3>2. placing'[o].pc = "idle" /\ placing'[o].result = "execution"
      BY <1>0, <3>1 DEF Return, Call
    <3> QED BY <1>0, <1>n, <2>1, <2>3, <3>2 DEF ClosedFor, Closed
  <2> QED BY <2>2, <2>3
<1>6. CASE RollbackPut(o)
  <2>1. /\ placing[o].pc = "putBack" /\ accepted' = accepted /\ orders'[o] = placing[o].order
        /\ placing'[o].pc = "idle" /\ placing'[o].result = "execution"
    BY <1>0, <1>6, <1>m DEF RollbackPut, Return, Call, outside, TypeOK
  <2> QED BY <1>0, <1>n, <2>1 DEF ClosedFor, Closed, IsTerminal
<1>7. CASE PlacePublish(o)
  <2>1. placing'[o].pc = "idle" /\ placing'[o].result = "ok"
    BY <1>0, <1>7 DEF PlacePublish, Return, Call
  <2> QED BY <2>1 DEF ClosedFor
<1> QED BY <1>1, <1>2, <1>3, <1>4, <1>5, <1>6, <1>7 DEF PlaceStep

LEMMA StepClosed ==
  ASSUME FlowInv, TraceInv, ReportInv, ClosedInv, [FlowNext]_vars
  PROVE  ClosedInv'
<1> SUFFICES ASSUME mishaps' = 0, NEW x \in Orders PROVE ClosedFor(x)'
  BY DEF ClosedInv
<1>0. TypeOK /\ mishaps \in Nat
  BY DEF FlowInv, TypeOK
<1>1. mishaps = 0
  <2>1. [Next]_<<orders, tradingVars>>
    BY StepFlow
  <2>2. mishaps' = mishaps \/ mishaps' = mishaps + 1
    BY <2>1 DEF Next, PlaceBegin, PlaceStep, PlaceRiskCheck, PlaceSave, PlaceExecute,
       RollbackGet, RollbackPut, PlacePublish, CancelStep, CancelGet, CancelSend, CancelPut,
       CancelPublish, WrittenElsewhere, Mishap, NoMishap, tradingVars
  <2> QED BY <1>0, <2>2
<1>2. ClosedFor(x)
  BY <1>1 DEF ClosedInv
<1>3. ASSUME UNCHANGED <<placing, accepted>>, accepted[x] > 0 \/ orders'[x] = orders[x]
      PROVE  ClosedFor(x)'
  BY <1>2, <1>3 DEF ClosedFor, Closed
<1>4. ASSUME NEW o \in Orders, PlaceBegin(o) \/ PlaceStep(o) PROVE ClosedFor(x)'
  <2>1. CASE x = o
    <3>1. PlaceInv(o)
      BY DEF TraceInv
    <3> QED BY <1>0, <1>1, <1>2, <1>4, <2>1, <3>1, PlaceCloses
  <2>2. CASE x # o
    BY <1>0, <1>2, <1>4, <2>2, PlaceOthers DEF ClosedFor, Closed
  <2> QED BY <2>1, <2>2
<1>5. ASSUME NEW c \in Cancels, CancelStep(c) PROVE ClosedFor(x)'
  <2>1. UNCHANGED <<placing, accepted>>
    BY <1>5 DEF CancelStep, CancelGet, CancelSend, CancelPut, CancelPublish, outside
  <2>2. \/ orders' = orders
        \/ /\ orders' = [orders EXCEPT ![CancelTarget[c]] = cancelling[c].order]
           /\ cancelling[c].pc = "put"
    BY <1>5 DEF CancelStep, CancelGet, CancelSend, CancelPut, CancelPublish
  <2>3. accepted[x] > 0 \/ orders'[x] = orders[x]
    BY <1>0, <2>2 DEF ReportInv, TypeOK
  <2> QED BY <1>3, <2>1, <2>3
<1>6. CASE ManagerStep \/ MarketStep
  <2>1. UNCHANGED <<placing, accepted>>
    BY <1>6 DEF ManagerStep, MarketStep, serviceVars
  <2> QED BY <1>3, <1>6, <2>1, UnacceptedKept
<1>7. CASE UNCHANGED vars
  BY <1>3, <1>7 DEF vars, serviceVars
<1> QED BY <1>4, <1>5, <1>6, <1>7 DEF FlowNext, ServiceStep

(* A place_order() that failed, with no call or answer lost on the way,    *)
(* leaves nothing behind: the market never took the order, and what the    *)
(* repository has of it is closed, though manager, retries and cancel      *)
(* calls write the same repository.                                        *)
THEOREM FailedPlacementsAreClosed == FlowSpec => []FailedPlacementIsClosed
<1>1. FlowSpec => []TraceInv
  BY FlowImplementsService, TraceAlways, PTL DEF ServiceInterface
<1>2. FlowSpec => []ReportInv
  <2>1. FlowInv /\ ReportInv /\ [FlowNext]_vars => ReportInv'
    BY StepReport
  <2> QED BY <2>1, InitReport, FlowAlways, PTL DEF FlowSpec
<1>3. FlowInv /\ TraceInv /\ ReportInv /\ ClosedInv /\ [FlowNext]_vars => ClosedInv'
  BY StepClosed
<1>4. FlowSpec => []ClosedInv
  BY <1>1, <1>2, <1>3, InitClosed, FlowAlways, PTL DEF FlowSpec
<1>5. TypeOK /\ TraceInv /\ ClosedInv => FailedPlacementIsClosed
  <2> SUFFICES ASSUME TypeOK, TraceInv, ClosedInv, mishaps = 0, NEW o \in Orders,
                      placing[o].result = "execution"
               PROVE  accepted[o] = 0 /\ Closed(o)
    BY DEF FailedPlacementIsClosed, Closed
  <2>1. placing[o].pc = "idle" /\ accepted[o] \in Nat
    BY DEF TraceInv, PlaceInv, TypeOK
  <2> QED BY <2>1 DEF ClosedInv, ClosedFor
<1>6. FlowInv => TypeOK
  BY DEF FlowInv
<1> QED BY <1>1, <1>4, <1>5, <1>6, FlowAlways, PTL
=============================================================================
