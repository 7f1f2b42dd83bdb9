------------------------ MODULE OrderLifecycle_proofs ------------------------
(***************************************************************************)
(* Machine-checked proofs about OrderLifecycle, for every value of its     *)
(* constants.  Each layer is inductive relative to the one before it:      *)
(* first the types, then the bound on filled quantities, the orders that   *)
(* tasks hold and the order in which a fill takes effect; at the end, what *)
(* the gateway reported, what is discarded, and the handles of the tasks.  *)
(***************************************************************************)
EXTENDS OrderLifecycle, FiniteSums, Integers

(* The order operations keep the type of an order.                         *)
LEMMA OrderOps ==
  ASSUME NEW o \in Order, NEW q \in Nat \ {0}, NEW s \in OrderStatus
  PROVE  /\ UpdateStatus(o, s) \in Order
         /\ FillOrder(o, q) \in Order
         /\ Decoded(o) \in Order
<1>1. UpdateStatus(o, s) \in Order
  BY DEF Order, UpdateStatus
<1>2. FillOrder(o, q) \in Order
  BY DEF FillOrder, Order, OrderStatus
<1>3. Decoded(o) \in Order
  BY DEF Order, Decoded, OrderNewWithId, OrderStatus
<1> QED BY <1>1, <1>2, <1>3

(* A position update that succeeds yields a position.                      *)
LEMMA PositionOps ==
  ASSUME NEW p \in Position \cup {NoPosition}, NEW s \in Side, NEW q \in Nat \ {0},
         PositionUpdatable(p, s, q)
  PROVE  PositionAfter(p, s, q) \in Position
  BY DEF Position, Side, PositionUpdatable, PositionAfter

LEMMA IdleTasks ==
  /\ \A pc \in {"down", "recv"} : IdleFill(pc) \in FillTaskRecord
  /\ \A pc \in {"down", "recv"} : IdleUpdate(pc) \in OrderTaskRecord
  BY ConstantsAssumption
  DEF IdleFill, FillTask, IdleUpdate, OrderTask, FillTaskRecord, OrderTaskRecord,
      FillPcs, UpdatePcs

LEMMA BusyFill ==
  ASSUME NEW pc \in FillPcs, NEW e \in Execs, NEW n \in 0..MaxRetries,
         NEW o \in Order \cup {NoOrder}, NEW p \in Position \cup {NoPosition},
         pc = "putOrder" => o # NoOrder, pc = "putPosition" => p # NoPosition
  PROVE  FillTask(pc, e, n, o, p) \in FillTaskRecord
  BY ConstantsAssumption DEF FillTask, FillTaskRecord

LEMMA BusyUpdate ==
  ASSUME NEW pc \in UpdatePcs, NEW u \in Updates, NEW n \in 0..MaxRetries,
         NEW o \in Order \cup {NoOrder}, pc = "put" => o # NoOrder
  PROVE  OrderTask(pc, u, n, o) \in OrderTaskRecord
<1>1. u # NoUpdate
  BY ConstantsAssumption
<1> QED BY <1>1 DEF OrderTask, OrderTaskRecord

LEMMA InitType == Init => TypeOK
<1> SUFFICES ASSUME Init PROVE TypeOK
  OBVIOUS
<1> USE ConstantsAssumption
<1>1. orders \in [Orders -> Order \cup {NoOrder}] /\ position \in Position \cup {NoPosition}
  BY DEF Init
<1>2. /\ rows \in Counters /\ orderWrites \in Counters
      /\ positionWrites \in Counters /\ filledEvents \in Counters
  BY DEF Init, None, Counters
<1>3. fillTask \in [Gens -> FillTaskRecord] /\ orderTask \in [Gens -> OrderTaskRecord]
  BY IdleTasks DEF Init
<1>4. fillQ \in [Gens -> Seq(Execs)] /\ orderQ \in [Gens -> Seq(Updates)]
  BY DEF Init
<1>5. failures \in Counters /\ givenUp \in [Gens -> SUBSET Execs]
  BY DEF Init, None, Counters
<1>6. /\ processed = {} /\ statusEvents = {}
      /\ running = FALSE /\ stopPc = "idle" /\ updatesSent = {} /\ faults = 0
      /\ delivered \in [Execs -> Nat]
      /\ startPc = [g \in Gens |-> "unused"] /\ handles = [order |-> 0, fill |-> 0]
  BY DEF Init
<1>. QED
  BY <1>1, <1>2, <1>3, <1>4, <1>5, <1>6 DEF TypeOK
-----------------------------------------------------------------------------
(* One more effect or failure.                                            *)
LEMMA CounterStep ==
  ASSUME NEW c \in Counters, NEW g \in Gens, NEW e \in Execs
  PROVE  [c EXCEPT ![g][e] = @ + 1] \in Counters
  BY DEF Counters

AttemptsOK == givenUp \in [Gens -> SUBSET Execs] /\ failures \in Counters

(* What the ways a fill task moves on have in common.                      *)
LEMMA FillMoves ==
  ASSUME TypeOK, NEW g \in Gens, fillTask[g].pc \notin {"down", "recv"}
  PROVE  /\ fillTask[g].exec \in Execs
         /\ fillTask[g].tries \in 0..MaxRetries
         /\ \A r \in BOOLEAN : FillFails(g, r) =>
              fillTask' \in [Gens -> FillTaskRecord] /\ AttemptsOK'
         /\ \A pc \in FillPcs, o \in Order \cup {NoOrder}, p \in Position \cup {NoPosition} :
              /\ FillGoto(g, pc, o, p)
              /\ pc = "putOrder" => o # NoOrder
              /\ pc = "putPosition" => p # NoPosition
              => fillTask' \in [Gens -> FillTaskRecord] /\ AttemptsOK'
<1>1. fillTask[g] \in FillTaskRecord /\ fillTask[g].exec \in Execs
      /\ fillTask[g].tries \in 0..MaxRetries
  BY DEF TypeOK, FillTaskRecord
<1>2. ASSUME NEW r \in BOOLEAN, FillFails(g, r)
      PROVE  fillTask' \in [Gens -> FillTaskRecord] /\ AttemptsOK'
  <2> DEFINE failed == [failures EXCEPT ![g][fillTask[g].exec] = @ + 1]
  <2>a. failures' = failed /\ failed \in Counters
    BY <1>1, <1>2, CounterStep DEF FillFails, TypeOK
  <2> HIDE DEF failed
  <2>1. CASE CanRetry(g, r)
    <3> DEFINE t == Retried(g)
    <3>1. fillTask[g].tries + 1 \in 0..MaxRetries
      BY <1>1, <2>1, ConstantsAssumption DEF CanRetry
    <3>2. t \in FillTaskRecord
      BY <1>1, <3>1, BusyFill DEF FillPcs, Retried
    <3>3. fillTask' = [fillTask EXCEPT ![g] = t] /\ givenUp' = givenUp
      BY <1>2, <2>1 DEF FillFails
    <3> HIDE DEF t
    <3> QED BY <2>a, <3>2, <3>3 DEF TypeOK, AttemptsOK
  <2>2. CASE ~CanRetry(g, r)
    <3>1. /\ fillTask' = [fillTask EXCEPT ![g] = IdleFill("recv")]
          /\ givenUp' = [givenUp EXCEPT ![g] = @ \cup {fillTask[g].exec}]
      BY <1>2, <2>2 DEF FillFails
    <3> QED BY <1>1, <2>a, <3>1, IdleTasks DEF TypeOK, AttemptsOK
  <2> QED BY <2>1, <2>2
<1>3. ASSUME NEW pc \in FillPcs, NEW o \in Order \cup {NoOrder},
             NEW p \in Position \cup {NoPosition}, FillGoto(g, pc, o, p),
             pc = "putOrder" => o # NoOrder, pc = "putPosition" => p # NoPosition
      PROVE  fillTask' \in [Gens -> FillTaskRecord] /\ AttemptsOK'
  <2>1. FillTask(pc, fillTask[g].exec, fillTask[g].tries, o, p) \in FillTaskRecord
    BY <1>1, <1>3, BusyFill
  <2> QED BY <1>3, <2>1 DEF FillGoto, TypeOK, AttemptsOK, attempts
<1> QED BY <1>1, <1>2, <1>3

LEMMA UpdateMoves ==
  ASSUME TypeOK, NEW g \in Gens, orderTask[g].pc \notin {"down", "recv"}
  PROVE  /\ orderTask[g].update \in Updates
         /\ orderTask[g].tries \in 0..MaxRetries
         /\ \A r \in BOOLEAN : UpdateFails(g, r) =>
              orderTask' \in [Gens -> OrderTaskRecord]
         /\ \A pc \in UpdatePcs, o \in Order \cup {NoOrder} :
              /\ UpdateGoto(g, pc, o)
              /\ pc = "put" => o # NoOrder
              => orderTask' \in [Gens -> OrderTaskRecord]
<1>1. orderTask[g] \in OrderTaskRecord /\ orderTask[g].update \in Updates
      /\ orderTask[g].tries \in 0..MaxRetries
  BY DEF TypeOK, OrderTaskRecord
<1>2. ASSUME NEW r \in BOOLEAN, UpdateFails(g, r)
      PROVE  orderTask' \in [Gens -> OrderTaskRecord]
  <2>1. CASE r /\ orderTask[g].tries < MaxRetries
    <3> DEFINE t == OrderTask("get", orderTask[g].update, orderTask[g].tries + 1, NoOrder)
    <3>1. orderTask[g].tries + 1 \in 0..MaxRetries
      BY <1>1, <2>1, ConstantsAssumption
    <3>2. t \in OrderTaskRecord
      BY <1>1, <3>1, BusyUpdate DEF UpdatePcs
    <3>3. orderTask' = [orderTask EXCEPT ![g] = t]
      BY <1>2, <2>1 DEF UpdateFails
    <3> QED BY <3>2, <3>3 DEF TypeOK
  <2>2. CASE ~(r /\ orderTask[g].tries < MaxRetries)
    <3>1. orderTask' = [orderTask EXCEPT ![g] = IdleUpdate("recv")]
      BY <1>2, <2>2 DEF UpdateFails
    <3> QED BY <1>1, <3>1, IdleTasks DEF TypeOK
  <2> QED BY <2>1, <2>2
<1>3. ASSUME NEW pc \in UpdatePcs, NEW o \in Order \cup {NoOrder}, UpdateGoto(g, pc, o),
             pc = "put" => o # NoOrder
      PROVE  orderTask' \in [Gens -> OrderTaskRecord]
  <2>1. OrderTask(pc, orderTask[g].update, orderTask[g].tries, o) \in OrderTaskRecord
    BY <1>1, <1>3, BusyUpdate
  <2> QED BY <1>3, <2>1 DEF UpdateGoto, TypeOK
<1> QED BY <1>1, <1>2, <1>3

-----------------------------------------------------------------------------
LEMMA StartStopType ==
  ASSUME TypeOK, (\E g \in Gens : StartStep(g) \/ EndStep(g)) \/ StopStep
  PROVE  TypeOK'
<1> USE IdleTasks DEF TypeOK, repos, effects, attempts, tasks, queues, control, gateway
<1>1. ASSUME NEW g \in Gens, StartSwap(g) PROVE TypeOK'
  BY <1>1 DEF StartSwap
<1>2. ASSUME NEW g \in Gens, SubscribeFails(g) PROVE TypeOK'
  BY <1>2 DEF SubscribeFails, Fault
<1>3. ASSUME NEW g \in Gens, SubscribeOrders(g) PROVE TypeOK'
  BY <1>3 DEF SubscribeOrders
<1>4. ASSUME NEW g \in Gens, SubscribeFillsAndSpawn(g) PROVE TypeOK'
  BY <1>4 DEF SubscribeFillsAndSpawn
<1>5. ASSUME NEW g \in Gens, StoreOrderHandle(g) PROVE TypeOK'
  BY <1>5 DEF StoreOrderHandle
<1>6. ASSUME NEW g \in Gens, StoreFillHandle(g) PROVE TypeOK'
  BY <1>6 DEF StoreFillHandle
<1>7. ASSUME StopSwap PROVE TypeOK'
  BY <1>7 DEF StopSwap
<1>8. ASSUME StopOrderTask PROVE TypeOK'
  <2>1. CASE handles.order = 0
    BY <1>8, <2>1 DEF StopOrderTask
  <2>2. CASE handles.order # 0
    <3>1. handles.order \in Gens
      BY <2>2
    <3>2. /\ orderTask' = [orderTask EXCEPT ![handles.order] = IdleUpdate("down")]
          /\ orderQ' = [orderQ EXCEPT ![handles.order] = << >>]
          /\ handles' = [handles EXCEPT !.order = 0]
      BY <1>8, <2>2 DEF StopOrderTask
    <3>3. orderTask' \in [Gens -> OrderTaskRecord] /\ orderQ' \in [Gens -> Seq(Updates)]
      BY <3>1, <3>2
    <3>4. handles' \in [order : Gens \cup {0}, fill : Gens \cup {0}]
      BY <3>2
    <3> QED BY <1>8, <3>3, <3>4 DEF StopOrderTask
  <2> QED BY <2>1, <2>2
<1>9. ASSUME StopFillTask PROVE TypeOK'
  <2>1. CASE handles.fill = 0
    BY <1>9, <2>1 DEF StopFillTask
  <2>2. CASE handles.fill # 0
    <3>1. handles.fill \in Gens
      BY <2>2
    <3>2. /\ fillTask' = [fillTask EXCEPT ![handles.fill] = IdleFill("down")]
          /\ fillQ' = [fillQ EXCEPT ![handles.fill] = << >>]
          /\ handles' = [handles EXCEPT !.fill = 0]
      BY <1>9, <2>2 DEF StopFillTask
    <3>3. fillTask' \in [Gens -> FillTaskRecord] /\ fillQ' \in [Gens -> Seq(Execs)]
      BY <3>1, <3>2
    <3>4. handles' \in [order : Gens \cup {0}, fill : Gens \cup {0}]
      BY <3>2
    <3> QED BY <1>9, <3>3, <3>4 DEF StopFillTask
  <2> QED BY <2>1, <2>2
<1>10. ASSUME NEW g \in Gens, EndStep(g) PROVE TypeOK'
  <2>1. CASE FillChannelEnds(g)
    <3>1. fillTask' \in [Gens -> FillTaskRecord]
      BY <1>10, <2>1 DEF FillChannelEnds
    <3> QED BY <2>1, <3>1 DEF FillChannelEnds
  <2>2. CASE OrderChannelEnds(g)
    <3>1. orderTask' \in [Gens -> OrderTaskRecord]
      BY <1>10, <2>2 DEF OrderChannelEnds
    <3> QED BY <2>2, <3>1 DEF OrderChannelEnds
  <2> QED BY <1>10, <2>1, <2>2 DEF EndStep
<1> QED BY <1>1, <1>2, <1>3, <1>4, <1>5, <1>6, <1>7, <1>8, <1>9, <1>10 DEF StartStep, StopStep

LEMMA GatewayType ==
  ASSUME TypeOK, GatewayStep
  PROVE  TypeOK'
<1> USE DEF TypeOK, repos, effects, attempts, tasks, queues, control, gateway
<1>1. ASSUME NEW e \in Execs, GatewayFill(e) PROVE TypeOK'
  <2>1. fillQ' \in [Gens -> Seq(Execs)]
    BY <1>1 DEF GatewayFill
  <2> QED BY <1>1, <2>1 DEF GatewayFill
<1>2. ASSUME NEW u \in Updates, GatewayUpdate(u) PROVE TypeOK'
  <2>1. orderQ' \in [Gens -> Seq(Updates)]
    BY <1>2 DEF GatewayUpdate
  <2> QED BY <1>2, <2>1 DEF GatewayUpdate
<1> QED BY <1>1, <1>2 DEF GatewayStep

-----------------------------------------------------------------------------
LEMMA FillStepType ==
  ASSUME TypeOK, NEW g \in Gens, FillStep(g)
  PROVE  TypeOK'
<1> USE ConstantsAssumption
    DEF repos, effects, attempts, tasks, queues, control, gateway, NoFault, AttemptsOK
<1> DEFINE e == fillTask[g].exec
<1>a. fillTask[g].pc \notin {"down", "recv"} =>
        /\ e \in Execs
        /\ ExecOrder[e] \in Orders /\ ExecQty[e] \in Nat \ {0}
        /\ OrderSide[ExecOrder[e]] \in Side
  BY FillMoves
<1>b. ASSUME Fault PROVE faults' \in Nat
  BY <1>b DEF Fault, TypeOK
<1>1. ASSUME FillRecv(g) PROVE TypeOK'
  <2>1. Head(fillQ[g]) \in Execs /\ Tail(fillQ[g]) \in Seq(Execs)
    BY <1>1 DEF FillRecv, TypeOK
  <2>2. FillTask("save", Head(fillQ[g]), 0, NoOrder, NoPosition) \in FillTaskRecord
    BY <2>1, BusyFill DEF FillPcs
  <2>a. fillTask \in [Gens -> FillTaskRecord] /\ fillQ \in [Gens -> Seq(Execs)]
    BY DEF TypeOK
  <2>b. fillQ' \in [Gens -> Seq(Execs)]
    BY <1>1, <2>1, <2>a DEF FillRecv
  <2>c. fillTask' \in [Gens -> FillTaskRecord]
    <3>1. CASE AlreadyProcessed(Head(fillQ[g]))
      BY <1>1, <2>a, <3>1 DEF FillRecv
    <3>2. CASE ~AlreadyProcessed(Head(fillQ[g]))
      BY <1>1, <2>2, <2>a, <3>2 DEF FillRecv
    <3> QED BY <3>1, <3>2
  <2>3. fillTask' \in [Gens -> FillTaskRecord] /\ fillQ' \in [Gens -> Seq(Execs)]
    BY <2>b, <2>c
  <2> QED BY <1>1, <2>3 DEF FillRecv, TypeOK
<1>2. ASSUME FillSave(g) PROVE TypeOK'
  <2>1. rows' \in Counters
    <3>1. e \in Execs /\ rows \in Counters
      BY <1>2, <1>a DEF FillSave, TypeOK
    <3>2. [rows EXCEPT ![g][e] = @ + 1] \in Counters
      BY <3>1, CounterStep
    <3>3. rows' \in {rows, [rows EXCEPT ![g][e] = @ + 1]}
      BY <1>2 DEF FillSave
    <3> QED BY <3>1, <3>2, <3>3
  <2>2. fillTask' \in [Gens -> FillTaskRecord] /\ AttemptsOK'
    BY <1>2, FillMoves DEF FillSave, FillPcs
  <2> QED BY <1>2, <1>b, <2>1, <2>2 DEF FillSave, TypeOK
<1>3. ASSUME FillGetOrder(g) PROVE TypeOK'
  <2>1. orders[ExecOrder[e]] # NoOrder =>
          FillOrder(Decoded(orders[ExecOrder[e]]), ExecQty[e]) \in Order
    BY <1>3, <1>a, OrderOps DEF FillGetOrder, TypeOK, OrderStatus
  <2>2. fillTask' \in [Gens -> FillTaskRecord] /\ AttemptsOK'
    BY <1>3, <2>1, FillMoves DEF FillGetOrder, FillPcs
  <2> QED BY <1>3, <1>b, <2>2 DEF FillGetOrder, TypeOK
<1>4. ASSUME FillPutOrder(g) PROVE TypeOK'
  <2>1. fillTask[g].order \in Order
    BY <1>4 DEF FillPutOrder, TypeOK, FillTaskRecord
  <2>2. orderWrites' \in Counters /\ orders' \in [Orders -> Order \cup {NoOrder}]
    <3>1. e \in Execs /\ ExecOrder[e] \in Orders /\ orderWrites \in Counters
          /\ orders \in [Orders -> Order \cup {NoOrder}]
      BY <1>4, <1>a DEF FillPutOrder, TypeOK
    <3>2. [orderWrites EXCEPT ![g][e] = @ + 1] \in Counters
      BY <3>1, CounterStep
    <3>3. /\ orderWrites' \in {orderWrites, [orderWrites EXCEPT ![g][e] = @ + 1]}
          /\ orders' \in {orders, [orders EXCEPT ![ExecOrder[e]] = fillTask[g].order]}
      BY <1>4 DEF FillPutOrder
    <3> QED BY <2>1, <3>1, <3>2, <3>3
  <2>3. fillTask' \in [Gens -> FillTaskRecord] /\ AttemptsOK'
    BY <1>4, FillMoves DEF FillPutOrder, FillPcs
  <2> QED BY <1>4, <1>b, <2>2, <2>3 DEF FillPutOrder, TypeOK
<1>5. ASSUME FillGetPosition(g) PROVE TypeOK'
  <2>1. PositionUpdatable(position, OrderSide[ExecOrder[e]], ExecQty[e]) =>
          PositionAfter(position, OrderSide[ExecOrder[e]], ExecQty[e]) \in Position
    BY <1>5, <1>a, PositionOps DEF FillGetPosition, TypeOK
  <2>2. fillTask' \in [Gens -> FillTaskRecord] /\ AttemptsOK'
    BY <1>5, <2>1, FillMoves DEF FillGetPosition, FillPcs
  <2> QED BY <1>5, <1>b, <2>2 DEF FillGetPosition, TypeOK
<1>6. ASSUME FillPutPosition(g) PROVE TypeOK'
  <2>1. fillTask[g].position \in Position
    BY <1>6 DEF FillPutPosition, TypeOK, FillTaskRecord
  <2>2. positionWrites' \in Counters /\ position' \in Position \cup {NoPosition}
    <3>1. e \in Execs /\ positionWrites \in Counters /\ position \in Position \cup {NoPosition}
      BY <1>6, <1>a DEF FillPutPosition, TypeOK
    <3>2. [positionWrites EXCEPT ![g][e] = @ + 1] \in Counters
      BY <3>1, CounterStep
    <3>3. /\ positionWrites' \in {positionWrites, [positionWrites EXCEPT ![g][e] = @ + 1]}
          /\ position' \in {position, fillTask[g].position}
      BY <1>6 DEF FillPutPosition
    <3> QED BY <2>1, <3>1, <3>2, <3>3
  <2>3. fillTask' \in [Gens -> FillTaskRecord] /\ AttemptsOK'
    BY <1>6, FillMoves DEF FillPutPosition, FillPcs
  <2> QED BY <1>6, <1>b, <2>2, <2>3 DEF FillPutPosition, TypeOK
<1>7. ASSUME FillAnnounce(g) PROVE TypeOK'
  <2>1. fillTask' \in [Gens -> FillTaskRecord] /\ AttemptsOK'
    BY <1>7, FillMoves DEF FillAnnounce, FillPcs
  <2> QED BY <1>7, <1>b, <2>1 DEF FillAnnounce, TypeOK
<1>8. ASSUME FillPublish(g) PROVE TypeOK'
  <2>1. filledEvents' \in Counters
    BY <1>8, <1>a, CounterStep DEF FillPublish, TypeOK
  <2>2. fillTask' \in [Gens -> FillTaskRecord] /\ AttemptsOK'
    BY <1>8, FillMoves DEF FillPublish, FillPcs
  <2> QED BY <1>8, <2>1, <2>2 DEF FillPublish, TypeOK
<1>9. ASSUME FillMark(g) PROVE TypeOK'
  <2>1. processed' \subseteq {ExecKey[f] : f \in Execs}
    <3>1. processed' \subseteq processed \cup {ExecKey[e]}
      <4> DEFINE marked == processed \cup {ExecKey[e]}
      <4>1. CASE Cardinality(marked) > DedupCap
        <5>1. PICK gone \in SUBSET marked : processed' = marked \ gone
          BY <1>9, <4>1 DEF FillMark, Marked
        <5> QED BY <5>1
      <4>2. CASE ~(Cardinality(marked) > DedupCap)
        BY <1>9, <4>2 DEF FillMark, Marked
      <4> QED BY <4>1, <4>2
    <3>2. e \in Execs
      BY <1>9, <1>a DEF FillMark
    <3>3. ExecKey[e] \in {ExecKey[f] : f \in Execs}
      BY <3>2
    <3>4. processed \subseteq {ExecKey[f] : f \in Execs}
      BY DEF TypeOK
    <3> HIDE DEF e
    <3> QED BY <3>1, <3>3, <3>4
  <2>2. fillTask' \in [Gens -> FillTaskRecord]
    BY <1>9, IdleTasks DEF FillMark, TypeOK
  <2> QED BY <1>9, <2>1, <2>2 DEF FillMark, TypeOK
<1> QED BY <1>1, <1>2, <1>3, <1>4, <1>5, <1>6, <1>7, <1>8, <1>9 DEF FillStep

LEMMA UpdateStepType ==
  ASSUME TypeOK, NEW g \in Gens, UpdateStep(g)
  PROVE  TypeOK'
<1> USE ConstantsAssumption
    DEF repos, effects, attempts, tasks, queues, control, gateway, NoFault
<1> DEFINE u == orderTask[g].update
<1>a. orderTask[g].pc \notin {"down", "recv"} =>
        u \in Updates /\ u.order \in Orders /\ u.status \in OrderStatus
  BY UpdateMoves DEF Update
<1>b. ASSUME Fault PROVE faults' \in Nat
  BY <1>b DEF Fault, TypeOK
<1>1. ASSUME UpdateRecv(g) PROVE TypeOK'
  <2>1. Head(orderQ[g]) \in Updates /\ Tail(orderQ[g]) \in Seq(Updates)
    BY <1>1 DEF UpdateRecv, TypeOK
  <2>2. OrderTask("get", Head(orderQ[g]), 0, NoOrder) \in OrderTaskRecord
    BY <2>1, BusyUpdate DEF UpdatePcs
  <2>3. orderTask' \in [Gens -> OrderTaskRecord] /\ orderQ' \in [Gens -> Seq(Updates)]
    BY <1>1, <2>1, <2>2 DEF UpdateRecv, TypeOK
  <2> QED BY <1>1, <2>3 DEF UpdateRecv, TypeOK
<1>2. ASSUME UpdateGet(g) PROVE TypeOK'
  <2>1. orders[u.order] # NoOrder => UpdateStatus(Decoded(orders[u.order]), u.status) \in Order
    <3>1. 1 \in Nat \ {0}
      OBVIOUS
    <3>2. orders[u.order] # NoOrder => Decoded(orders[u.order]) \in Order
      BY <1>2, <1>a, <3>1, OrderOps DEF UpdateGet, TypeOK
    <3> QED BY <1>2, <1>a, <3>1, <3>2, OrderOps DEF UpdateGet
  <2>2. orderTask' \in [Gens -> OrderTaskRecord]
    BY <1>2, <2>1, UpdateMoves DEF UpdateGet, UpdatePcs
  <2> QED BY <1>2, <1>b, <2>2 DEF UpdateGet, TypeOK
<1>3. ASSUME UpdatePut(g) PROVE TypeOK'
  <2>1. orderTask[g].order \in Order
    BY <1>3 DEF UpdatePut, TypeOK, OrderTaskRecord
  <2>2. orders' \in [Orders -> Order \cup {NoOrder}]
    BY <1>3, <1>a, <2>1 DEF UpdatePut, TypeOK
  <2>3. orderTask' \in [Gens -> OrderTaskRecord]
    BY <1>3, UpdateMoves DEF UpdatePut, UpdatePcs
  <2> QED BY <1>3, <1>b, <2>2, <2>3 DEF UpdatePut, TypeOK
<1>4. ASSUME UpdatePublish(g) PROVE TypeOK'
  <2>1. statusEvents' \subseteq Updates /\ orderTask' \in [Gens -> OrderTaskRecord]
    BY <1>4, <1>a, IdleTasks DEF UpdatePublish, TypeOK
  <2> QED BY <1>4, <2>1 DEF UpdatePublish, TypeOK
<1> QED BY <1>1, <1>2, <1>3, <1>4 DEF UpdateStep

LEMMA StepType == TypeOK /\ [Next]_vars => TypeOK'
<1> SUFFICES ASSUME TypeOK, [Next]_vars PROVE TypeOK'
  OBVIOUS
<1>1. CASE Next
  BY <1>1, StartStopType, GatewayType, FillStepType, UpdateStepType DEF Next
<1>2. CASE UNCHANGED vars
  BY <1>2 DEF TypeOK, vars, repos, effects, attempts, tasks, queues, control, gateway
<1> QED BY <1>1, <1>2

(* The state of the lifecycle manager always has its type: in particular a *)
(* task about to write back holds the copy that it read.                   *)
THEOREM TypeCorrect == Spec => []TypeOK
  BY InitType, StepType, PTL DEF Spec
-----------------------------------------------------------------------------
(***************************************************************************)
(* The filled quantity.  NeverOverfilled is not inductive alone: a task    *)
(* writes back a copy it computed earlier, so the copies must respect the  *)
(* bound too.                                                              *)
(***************************************************************************)
Within(o) == o # NoOrder => o.filled <= o.quantity

QuantityInv ==
  /\ NeverOverfilled
  /\ \A g \in Gens : Within(fillTask[g].order) /\ Within(orderTask[g].order)

(* Whatever is read back is within bounds, and the two ways a task changes *)
(* its copy keep it so; for a fill this is the check fill() makes.         *)
LEMMA CopiesWithin ==
  ASSUME NEW o \in Order, o.filled <= o.quantity, NEW q \in Nat \ {0}, NEW s \in OrderStatus
  PROVE  /\ Within(UpdateStatus(Decoded(o), s))
         /\ CanFill(Decoded(o), q) => Within(FillOrder(Decoded(o), q))
<1>1. /\ Decoded(o).filled \in Nat /\ Decoded(o).quantity \in Nat
      /\ Decoded(o).filled <= Decoded(o).quantity /\ Decoded(o) \in Order
  BY OrderOps DEF Decoded, OrderNewWithId, Order
<1>2. Within(UpdateStatus(Decoded(o), s))
  BY <1>1 DEF Within, UpdateStatus, Order
<1>3. ASSUME CanFill(Decoded(o), q) PROVE Within(FillOrder(Decoded(o), q))
  BY <1>1, <1>3 DEF Within, FillOrder, CanFill, RemainingQuantity
<1> QED BY <1>2, <1>3

(* The copy of an order that each way of building a task record leaves.    *)
LEMMA HeldOrders ==
  /\ \A pc, e, n, o, p : FillTask(pc, e, n, o, p).order = o
  /\ \A pc, u, n, o : OrderTask(pc, u, n, o).order = o
  /\ \A pc : IdleFill(pc).order = NoOrder /\ IdleUpdate(pc).order = NoOrder
<1>1. \A pc, e, n, o, p : FillTask(pc, e, n, o, p).order = o
  BY DEF FillTask
<1>2. \A pc, u, n, o : OrderTask(pc, u, n, o).order = o
  BY DEF OrderTask
<1>3. \A pc : IdleFill(pc).order = NoOrder /\ IdleUpdate(pc).order = NoOrder
  BY <1>1, <1>2 DEF IdleFill, IdleUpdate
<1> QED BY <1>1, <1>2, <1>3

(* Replacing the record of one task changes no other.                      *)
LEMMA Replaced ==
  ASSUME NEW S, NEW f \in [Gens -> S], NEW g \in Gens, NEW t, NEW h \in Gens
  PROVE  [f EXCEPT ![g] = t][h] \in {f[h], t}
  OBVIOUS

(* Where the copies that the tasks hold come from.                         *)
LEMMA FillCopies ==
  ASSUME TypeOK, NEW g \in Gens, NEW h \in Gens
  PROVE  /\ \A r \in BOOLEAN : FillFails(g, r) =>
              fillTask'[h].order \in {fillTask[h].order, NoOrder}
         /\ \A pc, o, p : FillGoto(g, pc, o, p) =>
              fillTask'[h].order \in {fillTask[h].order, o}
         /\ \A r \in BOOLEAN : UpdateFails(g, r) =>
              orderTask'[h].order \in {orderTask[h].order, NoOrder}
         /\ \A pc, o : UpdateGoto(g, pc, o) =>
              orderTask'[h].order \in {orderTask[h].order, o}
<1>a. fillTask \in [Gens -> FillTaskRecord] /\ orderTask \in [Gens -> OrderTaskRecord]
  BY DEF TypeOK
<1>1. ASSUME NEW r \in BOOLEAN, FillFails(g, r)
      PROVE  fillTask'[h].order \in {fillTask[h].order, NoOrder}
  <2> DEFINE again == Retried(g)
             idle == IdleFill("recv")
  <2>1. again.order = NoOrder /\ idle.order = NoOrder
    BY HeldOrders DEF Retried
  <2>2. fillTask' \in {[fillTask EXCEPT ![g] = again], [fillTask EXCEPT ![g] = idle]}
    <3>1. CASE CanRetry(g, r)
      BY <1>1, <3>1 DEF FillFails
    <3>2. CASE ~CanRetry(g, r)
      BY <1>1, <3>2 DEF FillFails
    <3> QED BY <3>1, <3>2
  <2> HIDE DEF again, idle
  <2> QED BY <1>a, <2>1, <2>2, Replaced
<1>2. ASSUME NEW pc, NEW o, NEW p, FillGoto(g, pc, o, p)
      PROVE  fillTask'[h].order \in {fillTask[h].order, o}
  <2> DEFINE t == FillTask(pc, fillTask[g].exec, fillTask[g].tries, o, p)
  <2>1. t.order = o /\ fillTask' = [fillTask EXCEPT ![g] = t]
    BY <1>2, HeldOrders DEF FillGoto
  <2> HIDE DEF t
  <2> QED BY <1>a, <2>1, Replaced
<1>3. ASSUME NEW r \in BOOLEAN, UpdateFails(g, r)
      PROVE  orderTask'[h].order \in {orderTask[h].order, NoOrder}
  <2> DEFINE again == OrderTask("get", orderTask[g].update, orderTask[g].tries + 1, NoOrder)
             idle == IdleUpdate("recv")
  <2>1. again.order = NoOrder /\ idle.order = NoOrder
    BY HeldOrders
  <2>2. orderTask' \in {[orderTask EXCEPT ![g] = again], [orderTask EXCEPT ![g] = idle]}
    <3>1. CASE r /\ orderTask[g].tries < MaxRetries
      BY <1>3, <3>1 DEF UpdateFails
    <3>2. CASE ~(r /\ orderTask[g].tries < MaxRetries)
      BY <1>3, <3>2 DEF UpdateFails
    <3> QED BY <3>1, <3>2
  <2> HIDE DEF again, idle
  <2> QED BY <1>a, <2>1, <2>2, Replaced
<1>4. ASSUME NEW pc, NEW o, UpdateGoto(g, pc, o)
      PROVE  orderTask'[h].order \in {orderTask[h].order, o}
  <2> DEFINE t == OrderTask(pc, orderTask[g].update, orderTask[g].tries, o)
  <2>1. t.order = o /\ orderTask' = [orderTask EXCEPT ![g] = t]
    BY <1>4, HeldOrders DEF UpdateGoto
  <2> HIDE DEF t
  <2> QED BY <1>a, <2>1, Replaced
<1> QED BY <1>1, <1>2, <1>3, <1>4

LEMMA InitQuantity == Init => QuantityInv
<1> SUFFICES ASSUME Init PROVE QuantityInv
  OBVIOUS
<1>1. NeverOverfilled
  BY ConstantsAssumption DEF Init, NeverOverfilled, WellFormed
<1>2. \A g \in Gens : fillTask[g].order = NoOrder /\ orderTask[g].order = NoOrder
  BY DEF Init, FillTask, IdleFill, OrderTask, IdleUpdate
<1> QED BY <1>1, <1>2 DEF QuantityInv, Within

(* A step that stores nothing and whose copies are old or dropped.         *)
LEMMA QuantityFrame ==
  ASSUME QuantityInv, orders' = orders,
         \A h \in Gens : /\ fillTask'[h].order \in {fillTask[h].order, NoOrder}
                         /\ orderTask'[h].order \in {orderTask[h].order, NoOrder}
  PROVE  QuantityInv'
  BY DEF QuantityInv, NeverOverfilled, Within

(* A step that stores nothing and at most makes one task of each kind idle. *)
LEMMA QuantityIdle ==
  ASSUME TypeOK, QuantityInv, orders' = orders,
         \/ fillTask' = fillTask
         \/ \E g \in Gens, pc \in FillPcs : fillTask' = [fillTask EXCEPT ![g] = IdleFill(pc)],
         \/ orderTask' = orderTask
         \/ \E g \in Gens, pc \in UpdatePcs : orderTask' = [orderTask EXCEPT ![g] = IdleUpdate(pc)]
  PROVE  QuantityInv'
<1>a. fillTask \in [Gens -> FillTaskRecord] /\ orderTask \in [Gens -> OrderTaskRecord]
  BY DEF TypeOK
<1>1. ASSUME NEW h \in Gens PROVE fillTask'[h].order \in {fillTask[h].order, NoOrder}
  BY <1>a, HeldOrders, Replaced
<1>2. ASSUME NEW h \in Gens PROVE orderTask'[h].order \in {orderTask[h].order, NoOrder}
  BY <1>a, HeldOrders, Replaced
<1> QED BY <1>1, <1>2, QuantityFrame

LEMMA ControlQuantity ==
  ASSUME TypeOK, QuantityInv,
         (\E g \in Gens : StartStep(g) \/ EndStep(g)) \/ StopStep \/ GatewayStep \/ UNCHANGED vars
  PROVE  QuantityInv'
<1> USE DEF repos, tasks, FillPcs, UpdatePcs
<1>1. ASSUME NEW g \in Gens, StartStep(g) PROVE QuantityInv'
  <2>1. CASE SubscribeFillsAndSpawn(g)
    BY <2>1, QuantityIdle DEF SubscribeFillsAndSpawn
  <2>2. CASE ~SubscribeFillsAndSpawn(g)
    <3>1. orders' = orders /\ fillTask' = fillTask /\ orderTask' = orderTask
      BY <1>1, <2>2 DEF StartStep, StartSwap, SubscribeFails, SubscribeOrders,
         StoreOrderHandle, StoreFillHandle
    <3> QED BY <3>1, QuantityIdle
  <2> QED BY <2>1, <2>2
<1>2. ASSUME StopOrderTask PROVE QuantityInv'
  <2>1. CASE handles.order = 0
    BY <1>2, <2>1, QuantityIdle DEF StopOrderTask
  <2>2. CASE handles.order # 0
    <3>1. handles.order \in Gens
      BY <2>2 DEF TypeOK
    <3> QED BY <1>2, <2>2, <3>1, QuantityIdle DEF StopOrderTask
  <2> QED BY <2>1, <2>2
<1>3. ASSUME StopFillTask PROVE QuantityInv'
  <2>1. CASE handles.fill = 0
    BY <1>3, <2>1, QuantityIdle DEF StopFillTask
  <2>2. CASE handles.fill # 0
    <3>1. handles.fill \in Gens
      BY <2>2 DEF TypeOK
    <3> QED BY <1>3, <2>2, <3>1, QuantityIdle DEF StopFillTask
  <2> QED BY <2>1, <2>2
<1>4. ASSUME StopSwap \/ GatewayStep \/ UNCHANGED vars PROVE QuantityInv'
  <2>1. orders' = orders /\ fillTask' = fillTask /\ orderTask' = orderTask
    BY <1>4 DEF StopSwap, GatewayStep, GatewayFill, GatewayUpdate, vars
  <2> QED BY <2>1, QuantityIdle
<1>5. ASSUME NEW g \in Gens, EndStep(g) PROVE QuantityInv'
  BY <1>5, QuantityIdle DEF EndStep, FillChannelEnds, OrderChannelEnds
<1> QED BY <1>1, <1>2, <1>3, <1>4, <1>5 DEF StopStep

(* A copy of a stored order that is within bounds may be kept in hand.     *)
LEMMA QuantityHeld ==
  ASSUME QuantityInv, orders' = orders, NEW c, Within(c),
         \A h \in Gens : /\ fillTask'[h].order \in {fillTask[h].order, NoOrder, c}
                         /\ orderTask'[h].order \in {orderTask[h].order, NoOrder, c}
  PROVE  QuantityInv'
<1>1. \A h \in Gens : Within(fillTask'[h].order)
  BY DEF QuantityInv, Within
<1>2. \A h \in Gens : Within(orderTask'[h].order)
  BY DEF QuantityInv, Within
<1>3. NeverOverfilled'
  BY DEF QuantityInv, NeverOverfilled
<1> QED BY <1>1, <1>2, <1>3 DEF QuantityInv, Within

(* Writing back a copy that is within bounds.                              *)
LEMMA QuantityStored ==
  ASSUME TypeOK, QuantityInv, NEW o \in Orders, NEW c, Within(c),
         orders' \in {orders, [orders EXCEPT ![o] = c]},
         \A h \in Gens : /\ fillTask'[h].order \in {fillTask[h].order, NoOrder}
                         /\ orderTask'[h].order \in {orderTask[h].order, NoOrder}
  PROVE  QuantityInv'
<1>1. \A h \in Gens : Within(fillTask'[h].order)
  BY DEF QuantityInv, Within
<1>2. \A h \in Gens : Within(orderTask'[h].order)
  BY DEF QuantityInv, Within
<1>3. ASSUME NEW k \in Orders, orders'[k] # NoOrder
      PROVE  orders'[k].filled <= orders'[k].quantity
  <2>1. orders'[k] = orders[k] \/ orders'[k] = c
    BY DEF TypeOK
  <2>2. Within(orders[k])
    BY DEF QuantityInv, NeverOverfilled, Within
  <2> QED BY <1>3, <2>1, <2>2 DEF Within
<1>4. NeverOverfilled'
  BY <1>3 DEF NeverOverfilled
<1> QED BY <1>1, <1>2, <1>4 DEF QuantityInv, Within

LEMMA FillQuantity ==
  ASSUME TypeOK, QuantityInv, NEW g \in Gens, FillStep(g)
  PROVE  QuantityInv'
<1> USE DEF repos, tasks
<1> DEFINE e == fillTask[g].exec
           o == ExecOrder[e]
<1>a. fillTask[g].pc \notin {"down", "recv"} => o \in Orders /\ ExecQty[e] \in Nat \ {0}
  BY FillMoves, ConstantsAssumption
<1>b. orderTask' = orderTask
  BY DEF FillStep, FillRecv, FillSave, FillGetOrder, FillPutOrder, FillGetPosition,
     FillPutPosition, FillAnnounce, FillPublish, FillMark
<1>1. CASE FillRecv(g)
  <2>1. orders' = orders
    BY <1>1 DEF FillRecv
  <2>2. ASSUME NEW h \in Gens PROVE fillTask'[h].order \in {fillTask[h].order, NoOrder}
    <3>1. fillTask \in [Gens -> FillTaskRecord]
      BY DEF TypeOK
    <3>0. \/ fillTask' = fillTask
          \/ fillTask' = [fillTask EXCEPT ![g] =
                            FillTask("save", Head(fillQ[g]), 0, NoOrder, NoPosition)]
      BY <1>1 DEF FillRecv
    <3>2. fillTask' = fillTask
          \/ \E t : t.order = NoOrder /\ fillTask' = [fillTask EXCEPT ![g] = t]
      BY <3>0, HeldOrders
    <3> QED BY <3>1, <3>2, Replaced
  <2> QED BY <1>b, <2>1, <2>2, QuantityFrame
<1>2. CASE FillSave(g) \/ FillGetPosition(g) \/ FillPutPosition(g) \/ FillAnnounce(g)
           \/ FillPublish(g)
  <2>1. orders' = orders
    BY <1>2 DEF FillSave, FillGetPosition, FillPutPosition, FillAnnounce, FillPublish
  <2>2. (\E r \in BOOLEAN : FillFails(g, r)) \/ (\E pc, p : FillGoto(g, pc, NoOrder, p))
    BY <1>2 DEF FillSave, FillGetPosition, FillPutPosition, FillAnnounce, FillPublish
  <2>3. \A h \in Gens : fillTask'[h].order \in {fillTask[h].order, NoOrder}
    BY <2>2, FillCopies
  <2> QED BY <1>b, <2>1, <2>3, QuantityFrame
<1>3. CASE FillGetOrder(g)
  <2> DEFINE c == FillOrder(Decoded(orders[o]), ExecQty[e])
  <2>1. orders' = orders
    BY <1>3 DEF FillGetOrder
  <2>2. CASE orders[o] # NoOrder /\ CanFill(Decoded(orders[o]), ExecQty[e])
    <3>1. orders[o] \in Order /\ orders[o].filled <= orders[o].quantity
      BY <1>3, <1>a, <2>2 DEF FillGetOrder, QuantityInv, NeverOverfilled, TypeOK
    <3>2. Within(c)
      BY <1>3, <1>a, <2>2, <3>1, CopiesWithin DEF FillGetOrder, OrderStatus
    <3>3. (\E r \in BOOLEAN : FillFails(g, r)) \/ (\E pc, p : FillGoto(g, pc, c, p))
      BY <1>3 DEF FillGetOrder
    <3>4. \A h \in Gens : fillTask'[h].order \in {fillTask[h].order, NoOrder, c}
      <4> HIDE DEF c
      <4> QED BY <3>3, FillCopies
    <3> HIDE DEF c
    <3> QED BY <1>b, <2>1, <3>2, <3>4, QuantityHeld
  <2>3. CASE ~(orders[o] # NoOrder /\ CanFill(Decoded(orders[o]), ExecQty[e]))
    <3>1. \E r \in BOOLEAN : FillFails(g, r)
      BY <1>3, <2>3 DEF FillGetOrder
    <3>2. \A h \in Gens : fillTask'[h].order \in {fillTask[h].order, NoOrder}
      BY <3>1, FillCopies
    <3> QED BY <1>b, <2>1, <3>2, QuantityFrame
  <2> QED BY <2>2, <2>3
<1>4. CASE FillPutOrder(g)
  <2>1. o \in Orders /\ Within(fillTask[g].order)
    BY <1>4, <1>a DEF FillPutOrder, QuantityInv
  <2>2. orders' \in {orders, [orders EXCEPT ![o] = fillTask[g].order]}
    BY <1>4 DEF FillPutOrder
  <2>3. (\E r \in BOOLEAN : FillFails(g, r)) \/ (\E pc, p : FillGoto(g, pc, NoOrder, p))
    BY <1>4 DEF FillPutOrder
  <2>4. \A h \in Gens : fillTask'[h].order \in {fillTask[h].order, NoOrder}
    BY <2>3, FillCopies
  <2> HIDE DEF o
  <2> QED BY <1>b, <2>1, <2>2, <2>4, QuantityStored
<1>5. CASE FillMark(g)
  <2>1. orders' = orders
    BY <1>5 DEF FillMark
  <2>2. fillTask' = [fillTask EXCEPT ![g] = IdleFill("recv")]
    BY <1>5 DEF FillMark
  <2> QED BY <1>b, <2>1, <2>2, QuantityIdle DEF FillPcs
<1> QED BY <1>1, <1>2, <1>3, <1>4, <1>5 DEF FillStep

LEMMA UpdateQuantity ==
  ASSUME TypeOK, QuantityInv, NEW g \in Gens, UpdateStep(g)
  PROVE  QuantityInv'
<1> USE DEF repos, tasks
<1> DEFINE u == orderTask[g].update
<1>a. orderTask[g].pc \notin {"down", "recv"} => u.order \in Orders /\ u.status \in OrderStatus
  BY UpdateMoves, ConstantsAssumption DEF Update
<1>b. fillTask' = fillTask
  BY DEF UpdateStep, UpdateRecv, UpdateGet, UpdatePut, UpdatePublish
<1>1. CASE UpdateRecv(g)
  <2>1. orders' = orders
    BY <1>1 DEF UpdateRecv
  <2>2. ASSUME NEW h \in Gens PROVE orderTask'[h].order \in {orderTask[h].order, NoOrder}
    <3>1. orderTask \in [Gens -> OrderTaskRecord]
      BY DEF TypeOK
    <3> DEFINE t == OrderTask("get", Head(orderQ[g]), 0, NoOrder)
    <3>2. t.order = NoOrder /\ orderTask' = [orderTask EXCEPT ![g] = t]
      BY <1>1, HeldOrders DEF UpdateRecv
    <3> HIDE DEF t
    <3> QED BY <3>1, <3>2, Replaced
  <2> QED BY <1>b, <2>1, <2>2, QuantityFrame
<1>2. CASE UpdateGet(g)
  <2> DEFINE c == UpdateStatus(Decoded(orders[u.order]), u.status)
  <2>1. orders' = orders
    BY <1>2 DEF UpdateGet
  <2>2. CASE orders[u.order] # NoOrder
    <3>1. orders[u.order] \in Order /\ orders[u.order].filled <= orders[u.order].quantity
      BY <1>2, <1>a, <2>2 DEF UpdateGet, QuantityInv, NeverOverfilled, TypeOK
    <3>2. 1 \in Nat \ {0}
      OBVIOUS
    <3>3. Within(c)
      BY <1>2, <1>a, <3>1, <3>2, CopiesWithin DEF UpdateGet
    <3>4. (\E r \in BOOLEAN : UpdateFails(g, r)) \/ (\E pc : UpdateGoto(g, pc, c))
      BY <1>2 DEF UpdateGet
    <3>5. \A h \in Gens : orderTask'[h].order \in {orderTask[h].order, NoOrder, c}
      <4> HIDE DEF c
      <4> QED BY <3>4, FillCopies
    <3> HIDE DEF c
    <3> QED BY <1>b, <2>1, <3>3, <3>5, QuantityHeld
  <2>3. CASE orders[u.order] = NoOrder
    <3>1. \E r \in BOOLEAN : UpdateFails(g, r)
      BY <1>2, <2>3 DEF UpdateGet
    <3>2. \A h \in Gens : orderTask'[h].order \in {orderTask[h].order, NoOrder}
      BY <3>1, FillCopies
    <3> QED BY <1>b, <2>1, <3>2, QuantityFrame
  <2> QED BY <2>2, <2>3
<1>3. CASE UpdatePut(g)
  <2>1. u.order \in Orders /\ Within(orderTask[g].order)
    BY <1>3, <1>a DEF UpdatePut, QuantityInv
  <2>2. orders' \in {orders, [orders EXCEPT ![u.order] = orderTask[g].order]}
    BY <1>3 DEF UpdatePut
  <2>3. (\E r \in BOOLEAN : UpdateFails(g, r)) \/ (\E pc : UpdateGoto(g, pc, NoOrder))
    BY <1>3 DEF UpdatePut
  <2>4. \A h \in Gens : orderTask'[h].order \in {orderTask[h].order, NoOrder}
    BY <2>3, FillCopies
  <2> HIDE DEF u
  <2> QED BY <1>b, <2>1, <2>2, <2>4, QuantityStored
<1>4. CASE UpdatePublish(g)
  <2>1. orders' = orders
    BY <1>4 DEF UpdatePublish
  <2>2. orderTask' = [orderTask EXCEPT ![g] = IdleUpdate("recv")]
    BY <1>4 DEF UpdatePublish
  <2> QED BY <1>b, <2>1, <2>2, QuantityIdle DEF UpdatePcs
<1> QED BY <1>1, <1>2, <1>3, <1>4 DEF UpdateStep

LEMMA StepQuantity == TypeOK /\ QuantityInv /\ [Next]_vars => QuantityInv'
  BY ControlQuantity, FillQuantity, UpdateQuantity DEF Next

(* No stored order is ever filled beyond its quantity, whatever the number *)
(* of generations, retries, faults and duplicate deliveries.               *)
THEOREM OrdersNeverOverfilled == Spec => []NeverOverfilled
<1>1. QuantityInv => NeverOverfilled
  BY DEF QuantityInv
<1> QED BY <1>1, InitQuantity, StepQuantity, TypeCorrect, PTL DEF Spec
-----------------------------------------------------------------------------
(***************************************************************************)
(* The manager only rewrites orders.  A task that holds a copy has found   *)
(* the order it writes to, and nothing takes an order out.                 *)
(***************************************************************************)
StoresKnown == \A o \in Orders : orders'[o] = NoOrder <=> orders[o] = NoOrder

Known(o) == o \in Orders /\ orders[o] # NoOrder

KnownInv ==
  \A g \in Gens :
    /\ fillTask[g].order # NoOrder => Known(ExecOrder[fillTask[g].exec])
    /\ orderTask[g].order # NoOrder => Known(orderTask[g].update.order)

(* What a task holds after a step: nothing, what it held, or a copy of an  *)
(* order that there is.                                                    *)
FillKept(h) ==
  \/ fillTask'[h].order = NoOrder
  \/ fillTask'[h].order = fillTask[h].order /\ fillTask'[h].exec = fillTask[h].exec

UpdateKept(h) ==
  \/ orderTask'[h].order = NoOrder
  \/ orderTask'[h].order = orderTask[h].order /\ orderTask'[h].update = orderTask[h].update

LEMMA KnownFrame ==
  ASSUME KnownInv, StoresKnown,
         \A h \in Gens : FillKept(h) \/ Known(ExecOrder[fillTask'[h].exec]),
         \A h \in Gens : UpdateKept(h) \/ Known(orderTask'[h].update.order)
  PROVE  KnownInv'
<1>1. \A o : Known(o) => Known(o)'
  BY DEF Known, StoresKnown
<1>2. ASSUME NEW h \in Gens, fillTask'[h].order # NoOrder
      PROVE  Known(ExecOrder[fillTask'[h].exec])
  BY <1>2 DEF FillKept, KnownInv
<1>3. ASSUME NEW h \in Gens, orderTask'[h].order # NoOrder
      PROVE  Known(orderTask'[h].update.order)
  BY <1>3 DEF UpdateKept, KnownInv
<1> QED BY <1>1, <1>2, <1>3 DEF KnownInv, Known

(* Replacing one record, by an idle one or one that keeps its event.       *)
LEMMA FillReplaced ==
  ASSUME TypeOK, NEW g \in Gens, NEW t, fillTask' = [fillTask EXCEPT ![g] = t],
         t.order = NoOrder \/ (t.order = fillTask[g].order /\ t.exec = fillTask[g].exec)
  PROVE  \A h \in Gens : FillKept(h)
<1>1. fillTask \in [Gens -> FillTaskRecord]
  BY DEF TypeOK
<1>2. \A h \in Gens : fillTask'[h] = IF h = g THEN t ELSE fillTask[h]
  BY <1>1
<1> QED BY <1>2 DEF FillKept

LEMMA UpdateReplaced ==
  ASSUME TypeOK, NEW g \in Gens, NEW t, orderTask' = [orderTask EXCEPT ![g] = t],
         t.order = NoOrder \/ (t.order = orderTask[g].order /\ t.update = orderTask[g].update)
  PROVE  \A h \in Gens : UpdateKept(h)
<1>1. orderTask \in [Gens -> OrderTaskRecord]
  BY DEF TypeOK
<1>2. \A h \in Gens : orderTask'[h] = IF h = g THEN t ELSE orderTask[h]
  BY <1>1
<1> QED BY <1>2 DEF UpdateKept

LEMMA FillsKept ==
  ASSUME TypeOK, NEW g \in Gens
  PROVE  /\ \A r \in BOOLEAN : FillFails(g, r) => \A h \in Gens : FillKept(h)
         /\ \A pc, p : FillGoto(g, pc, NoOrder, p) => \A h \in Gens : FillKept(h)
         /\ \A r \in BOOLEAN : UpdateFails(g, r) => \A h \in Gens : UpdateKept(h)
         /\ \A pc : UpdateGoto(g, pc, NoOrder) => \A h \in Gens : UpdateKept(h)
<1>1. ASSUME NEW r \in BOOLEAN, FillFails(g, r) PROVE \A h \in Gens : FillKept(h)
  <2>1. CASE CanRetry(g, r)
    <3>1. fillTask' = [fillTask EXCEPT ![g] = Retried(g)] /\ Retried(g).order = NoOrder
      BY <1>1, <2>1, HeldOrders DEF FillFails, Retried
    <3> QED BY <3>1, FillReplaced
  <2>2. CASE ~CanRetry(g, r)
    <3>1. fillTask' = [fillTask EXCEPT ![g] = IdleFill("recv")]
      BY <1>1, <2>2 DEF FillFails
    <3> QED BY <3>1, HeldOrders, FillReplaced
  <2> QED BY <2>1, <2>2
<1>2. ASSUME NEW pc, NEW p, FillGoto(g, pc, NoOrder, p) PROVE \A h \in Gens : FillKept(h)
  <2> DEFINE t == FillTask(pc, fillTask[g].exec, fillTask[g].tries, NoOrder, p)
  <2>1. fillTask' = [fillTask EXCEPT ![g] = t] /\ t.order = NoOrder
    BY <1>2, HeldOrders DEF FillGoto
  <2> HIDE DEF t
  <2> QED BY <2>1, FillReplaced
<1>3. ASSUME NEW r \in BOOLEAN, UpdateFails(g, r) PROVE \A h \in Gens : UpdateKept(h)
  <2> DEFINE t == OrderTask("get", orderTask[g].update, orderTask[g].tries + 1, NoOrder)
  <2>1. t.order = NoOrder /\ IdleUpdate("recv").order = NoOrder
    BY HeldOrders
  <2>2. CASE r /\ orderTask[g].tries < MaxRetries
    <3>1. orderTask' = [orderTask EXCEPT ![g] = t]
      BY <1>3, <2>2 DEF UpdateFails
    <3> HIDE DEF t
    <3> QED BY <2>1, <3>1, UpdateReplaced
  <2>3. CASE ~(r /\ orderTask[g].tries < MaxRetries)
    <3>1. orderTask' = [orderTask EXCEPT ![g] = IdleUpdate("recv")]
      BY <1>3, <2>3 DEF UpdateFails
    <3> QED BY <2>1, <3>1, UpdateReplaced
  <2> QED BY <2>2, <2>3
<1>4. ASSUME NEW pc, UpdateGoto(g, pc, NoOrder) PROVE \A h \in Gens : UpdateKept(h)
  <2> DEFINE t == OrderTask(pc, orderTask[g].update, orderTask[g].tries, NoOrder)
  <2>1. orderTask' = [orderTask EXCEPT ![g] = t] /\ t.order = NoOrder
    BY <1>4, HeldOrders DEF UpdateGoto
  <2> HIDE DEF t
  <2> QED BY <2>1, UpdateReplaced
<1> QED BY <1>1, <1>2, <1>3, <1>4

LEMMA InitKnown == Init => KnownInv
<1> SUFFICES ASSUME Init PROVE KnownInv
  OBVIOUS
<1>1. \A g \in Gens : fillTask[g].order = NoOrder /\ orderTask[g].order = NoOrder
  BY HeldOrders DEF Init
<1> QED BY <1>1 DEF KnownInv

LEMMA ControlKnown ==
  ASSUME TypeOK, KnownInv,
         \/ \E g \in Gens : StartStep(g) \/ EndStep(g)
         \/ StopStep \/ GatewayStep \/ UNCHANGED vars
  PROVE  KnownInv' /\ StoresKnown
<1> USE DEF repos, tasks
<1>1. orders' = orders
  BY DEF StartStep, StartSwap, SubscribeFails, SubscribeOrders, SubscribeFillsAndSpawn,
     StoreOrderHandle, StoreFillHandle, StopStep, StopSwap, StopOrderTask, StopFillTask,
     EndStep, FillChannelEnds, OrderChannelEnds, GatewayStep, GatewayFill, GatewayUpdate, vars
<1>2. \/ fillTask' = fillTask
      \/ \E g \in Gens, pc \in FillPcs : fillTask' = [fillTask EXCEPT ![g] = IdleFill(pc)]
  BY DEF StartStep, StartSwap, SubscribeFails, SubscribeOrders, SubscribeFillsAndSpawn,
     StoreOrderHandle, StoreFillHandle, StopStep, StopSwap, StopOrderTask, StopFillTask,
     EndStep, FillChannelEnds, OrderChannelEnds, GatewayStep, GatewayFill, GatewayUpdate, vars, FillPcs, TypeOK
<1>3. \/ orderTask' = orderTask
      \/ \E g \in Gens, pc \in UpdatePcs : orderTask' = [orderTask EXCEPT ![g] = IdleUpdate(pc)]
  BY DEF StartStep, StartSwap, SubscribeFails, SubscribeOrders, SubscribeFillsAndSpawn,
     StoreOrderHandle, StoreFillHandle, StopStep, StopSwap, StopOrderTask, StopFillTask,
     EndStep, FillChannelEnds, OrderChannelEnds, GatewayStep, GatewayFill, GatewayUpdate, vars, UpdatePcs, TypeOK
<1>4. \A h \in Gens : FillKept(h)
  <2>1. CASE fillTask' = fillTask
    BY <2>1 DEF FillKept
  <2>2. ASSUME NEW g \in Gens, NEW pc, fillTask' = [fillTask EXCEPT ![g] = IdleFill(pc)]
        PROVE  \A h \in Gens : FillKept(h)
    BY <2>2, HeldOrders, FillReplaced
  <2> QED BY <1>2, <2>1, <2>2
<1>5. \A h \in Gens : UpdateKept(h)
  <2>1. CASE orderTask' = orderTask
    BY <2>1 DEF UpdateKept
  <2>2. ASSUME NEW g \in Gens, NEW pc, orderTask' = [orderTask EXCEPT ![g] = IdleUpdate(pc)]
        PROVE  \A h \in Gens : UpdateKept(h)
    BY <2>2, HeldOrders, UpdateReplaced
  <2> QED BY <1>3, <2>1, <2>2
<1>6. StoresKnown
  BY <1>1 DEF StoresKnown
<1> QED BY <1>4, <1>5, <1>6, KnownFrame

LEMMA FillKnown ==
  ASSUME TypeOK, KnownInv, NEW g \in Gens, FillStep(g)
  PROVE  KnownInv' /\ StoresKnown
<1> USE DEF repos, tasks
<1> DEFINE e == fillTask[g].exec
           o == ExecOrder[e]
<1>a. fillTask[g].pc \notin {"down", "recv"} => o \in Orders
  BY FillMoves, ConstantsAssumption
<1>b. \A h \in Gens : UpdateKept(h)
  BY DEF FillStep, FillRecv, FillSave, FillGetOrder, FillPutOrder, FillGetPosition,
     FillPutPosition, FillAnnounce, FillPublish, FillMark, UpdateKept
<1>1. CASE FillRecv(g)
  <2> DEFINE t == FillTask("save", Head(fillQ[g]), 0, NoOrder, NoPosition)
  <2>1. StoresKnown /\ fillTask' \in {fillTask, [fillTask EXCEPT ![g] = t]}
    BY <1>1 DEF FillRecv, StoresKnown
  <2>2. t.order = NoOrder
    BY HeldOrders
  <2> HIDE DEF t
  <2>3. \A h \in Gens : FillKept(h)
    BY <2>1, <2>2, FillReplaced DEF FillKept
  <2> QED BY <1>b, <2>1, <2>3, KnownFrame
<1>2. CASE FillSave(g) \/ FillGetPosition(g) \/ FillPutPosition(g) \/ FillAnnounce(g)
           \/ FillPublish(g)
  <2>1. StoresKnown
    BY <1>2 DEF FillSave, FillGetPosition, FillPutPosition, FillAnnounce, FillPublish, StoresKnown
  <2>2. (\E r \in BOOLEAN : FillFails(g, r)) \/ (\E pc, p : FillGoto(g, pc, NoOrder, p))
    BY <1>2 DEF FillSave, FillGetPosition, FillPutPosition, FillAnnounce, FillPublish
  <2> QED BY <1>b, <2>1, <2>2, FillsKept, KnownFrame
<1>3. CASE FillGetOrder(g)
  <2>1. StoresKnown
    BY <1>3 DEF FillGetOrder, StoresKnown
  <2>2. CASE orders[o] = NoOrder
    <3>1. \E r \in BOOLEAN : FillFails(g, r)
      BY <1>3, <2>2 DEF FillGetOrder
    <3> QED BY <1>b, <2>1, <3>1, FillsKept, KnownFrame
  <2>3. CASE orders[o] # NoOrder
    <3>1. CASE \E r \in BOOLEAN : FillFails(g, r)
      BY <1>b, <2>1, <3>1, FillsKept, KnownFrame
    <3>2. CASE \E pc, c, p : FillGoto(g, pc, c, p)
      <4>1. PICK pc, c, p : FillGoto(g, pc, c, p)
        BY <3>2
      <4> DEFINE t == FillTask(pc, e, fillTask[g].tries, c, p)
      <4>2. fillTask' = [fillTask EXCEPT ![g] = t] /\ t.exec = e
        BY <4>1 DEF FillGoto, FillTask
      <4>3. Known(o)
        BY <1>3, <1>a, <2>3 DEF FillGetOrder, Known
      <4>4. fillTask \in [Gens -> FillTaskRecord]
        BY DEF TypeOK
      <4> HIDE DEF t, e
      <4>5. \A h \in Gens : fillTask'[h] = IF h = g THEN t ELSE fillTask[h]
        BY <4>2, <4>4
      <4>6. \A h \in Gens : FillKept(h) \/ Known(ExecOrder[fillTask'[h].exec])
        BY <4>2, <4>3, <4>5 DEF FillKept
      <4> QED BY <1>b, <2>1, <4>6, KnownFrame
    <3> QED BY <1>3, <3>1, <3>2 DEF FillGetOrder
  <2> QED BY <2>2, <2>3
<1>4. CASE FillPutOrder(g)
  <2>1. fillTask[g].order # NoOrder
    BY <1>4 DEF FillPutOrder, TypeOK, FillTaskRecord
  <2>2. Known(o)
    BY <2>1 DEF KnownInv
  <2>3. orders' \in {orders, [orders EXCEPT ![o] = fillTask[g].order]}
    BY <1>4 DEF FillPutOrder
  <2>4. StoresKnown
    BY <2>1, <2>2, <2>3 DEF StoresKnown, Known, TypeOK
  <2>5. (\E r \in BOOLEAN : FillFails(g, r)) \/ (\E pc, p : FillGoto(g, pc, NoOrder, p))
    BY <1>4 DEF FillPutOrder
  <2> QED BY <1>b, <2>4, <2>5, FillsKept, KnownFrame
<1>5. CASE FillMark(g)
  <2>1. StoresKnown /\ fillTask' = [fillTask EXCEPT ![g] = IdleFill("recv")]
    BY <1>5 DEF FillMark, StoresKnown
  <2>2. \A h \in Gens : FillKept(h)
    BY <2>1, HeldOrders, FillReplaced
  <2> QED BY <1>b, <2>1, <2>2, KnownFrame
<1> QED BY <1>1, <1>2, <1>3, <1>4, <1>5 DEF FillStep

LEMMA UpdateKnown ==
  ASSUME TypeOK, KnownInv, NEW g \in Gens, UpdateStep(g)
  PROVE  KnownInv' /\ StoresKnown
<1> USE DEF repos, tasks
<1> DEFINE u == orderTask[g].update
<1>a. orderTask[g].pc \notin {"down", "recv"} => u.order \in Orders
  BY UpdateMoves, ConstantsAssumption DEF Update
<1>b. \A h \in Gens : FillKept(h)
  BY DEF UpdateStep, UpdateRecv, UpdateGet, UpdatePut, UpdatePublish, FillKept
<1>1. CASE UpdateRecv(g)
  <2> DEFINE t == OrderTask("get", Head(orderQ[g]), 0, NoOrder)
  <2>1. StoresKnown /\ orderTask' = [orderTask EXCEPT ![g] = t]
    BY <1>1 DEF UpdateRecv, StoresKnown
  <2>2. t.order = NoOrder
    BY HeldOrders
  <2> HIDE DEF t
  <2>3. \A h \in Gens : UpdateKept(h)
    BY <2>1, <2>2, UpdateReplaced
  <2> QED BY <1>b, <2>1, <2>3, KnownFrame
<1>2. CASE UpdateGet(g)
  <2>1. StoresKnown
    BY <1>2 DEF UpdateGet, StoresKnown
  <2>2. CASE orders[u.order] = NoOrder
    <3>1. \E r \in BOOLEAN : UpdateFails(g, r)
      BY <1>2, <2>2 DEF UpdateGet
    <3> QED BY <1>b, <2>1, <3>1, FillsKept, KnownFrame
  <2>3. CASE orders[u.order] # NoOrder
    <3>1. CASE \E r \in BOOLEAN : UpdateFails(g, r)
      BY <1>b, <2>1, <3>1, FillsKept, KnownFrame
    <3>2. CASE \E pc, c : UpdateGoto(g, pc, c)
      <4>1. PICK pc, c : UpdateGoto(g, pc, c)
        BY <3>2
      <4> DEFINE t == OrderTask(pc, u, orderTask[g].tries, c)
      <4>2. orderTask' = [orderTask EXCEPT ![g] = t] /\ t.update = u
        BY <4>1 DEF UpdateGoto, OrderTask
      <4>3. Known(u.order)
        BY <1>2, <1>a, <2>3 DEF UpdateGet, Known
      <4>4. orderTask \in [Gens -> OrderTaskRecord]
        BY DEF TypeOK
      <4> HIDE DEF t, u
      <4>5. \A h \in Gens : orderTask'[h] = IF h = g THEN t ELSE orderTask[h]
        BY <4>2, <4>4
      <4>6. \A h \in Gens : UpdateKept(h) \/ Known(orderTask'[h].update.order)
        BY <4>2, <4>3, <4>5 DEF UpdateKept
      <4> QED BY <1>b, <2>1, <4>6, KnownFrame
    <3> QED BY <1>2, <3>1, <3>2 DEF UpdateGet
  <2> QED BY <2>2, <2>3
<1>3. CASE UpdatePut(g)
  <2>1. orderTask[g].order # NoOrder
    BY <1>3 DEF UpdatePut, TypeOK, OrderTaskRecord
  <2>2. Known(u.order)
    BY <2>1 DEF KnownInv
  <2>3. orders' \in {orders, [orders EXCEPT ![u.order] = orderTask[g].order]}
    BY <1>3 DEF UpdatePut
  <2>4. StoresKnown
    BY <2>1, <2>2, <2>3 DEF StoresKnown, Known, TypeOK
  <2>5. (\E r \in BOOLEAN : UpdateFails(g, r)) \/ (\E pc : UpdateGoto(g, pc, NoOrder))
    BY <1>3 DEF UpdatePut
  <2> QED BY <1>b, <2>4, <2>5, FillsKept, KnownFrame
<1>4. CASE UpdatePublish(g)
  <2>1. StoresKnown /\ orderTask' = [orderTask EXCEPT ![g] = IdleUpdate("recv")]
    BY <1>4 DEF UpdatePublish, StoresKnown
  <2>2. \A h \in Gens : UpdateKept(h)
    BY <2>1, HeldOrders, UpdateReplaced
  <2> QED BY <1>b, <2>1, <2>2, KnownFrame
<1> QED BY <1>1, <1>2, <1>3, <1>4 DEF UpdateStep

LEMMA StepKnown == TypeOK /\ KnownInv /\ [Next]_vars => KnownInv' /\ StoresKnown
  BY ControlKnown, FillKnown, UpdateKnown DEF Next

(* Neither task adds an order to the repository or takes one out of it.    *)
THEOREM OrdersOnlyRewritten == Spec => [][StoresKnown]_vars
<1>1. Spec => []KnownInv
  BY InitKnown, StepKnown, TypeCorrect, PTL DEF Spec
<1>2. TypeOK /\ KnownInv /\ [Next]_vars => [StoresKnown]_vars
  BY StepKnown
<1> QED BY <1>1, <1>2, TypeCorrect, PTL DEF Spec
-----------------------------------------------------------------------------
(***************************************************************************)
(* The order in which a fill takes effect.  The counters alone do not say  *)
(* why a further effect may follow; the stage of the task does.            *)
(***************************************************************************)
Chain(g, e) ==
  /\ filledEvents[g][e] <= positionWrites[g][e]
  /\ positionWrites[g][e] <= orderWrites[g][e]
  /\ orderWrites[g][e] <= rows[g][e]

Stage(g, pc, e) ==
  /\ pc \in {"getOrder", "putOrder"} => orderWrites[g][e] < rows[g][e]
  /\ pc \in {"getPosition", "putPosition"} => positionWrites[g][e] < orderWrites[g][e]
  /\ pc \in {"announce", "publish"} => filledEvents[g][e] < positionWrites[g][e]
  /\ pc = "mark" => 0 < filledEvents[g][e]

GenInv(g) ==
  /\ \A e \in Execs : Chain(g, e)
  /\ Stage(g, fillTask[g].pc, fillTask[g].exec)

EffectsInv ==
  /\ \A g \in Gens : GenInv(g)
  /\ ProcessedOnlyAfterEffects

Idle == {"down", "recv", "save"}

LEMMA InitEffects == Init => EffectsInv
<1> SUFFICES ASSUME Init PROVE EffectsInv
  OBVIOUS
<1>1. ASSUME NEW g \in Gens, NEW e \in Execs PROVE Chain(g, e)
  BY <1>1 DEF Init, None, Chain
<1>2. ASSUME NEW g \in Gens PROVE fillTask[g].pc = "down"
  BY <1>2 DEF Init, IdleFill, FillTask
<1>3. ASSUME NEW g \in Gens PROVE Stage(g, fillTask[g].pc, fillTask[g].exec)
  BY <1>2 DEF Stage
<1>4. ProcessedOnlyAfterEffects
  BY DEF Init, ProcessedOnlyAfterEffects
<1> QED BY <1>1, <1>3, <1>4 DEF EffectsInv, GenInv

(* The stage that each way of building a task record leaves.               *)
LEMMA RecordStage ==
  /\ \A pc, e, n, o, p : FillTask(pc, e, n, o, p).pc = pc /\ FillTask(pc, e, n, o, p).exec = e
  /\ \A pc : IdleFill(pc).pc = pc
<1>1. \A pc, e, n, o, p : FillTask(pc, e, n, o, p).pc = pc /\ FillTask(pc, e, n, o, p).exec = e
  BY DEF FillTask
<1>2. \A pc : IdleFill(pc).pc = pc
  BY <1>1 DEF IdleFill
<1> QED BY <1>1, <1>2

(* The two ways a fill task moves on, seen by its own generation and by    *)
(* the others.                                                             *)
LEMMA FillStages ==
  ASSUME TypeOK, NEW g \in Gens
  PROVE  /\ \A r \in BOOLEAN : FillFails(g, r) =>
              /\ \A h \in Gens \ {g} : fillTask'[h] = fillTask[h]
              /\ fillTask'[g].pc \in Idle
         /\ \A pc, o, p : FillGoto(g, pc, o, p) =>
              /\ \A h \in Gens \ {g} : fillTask'[h] = fillTask[h]
              /\ fillTask'[g].pc = pc /\ fillTask'[g].exec = fillTask[g].exec
<1>a. fillTask \in [Gens -> FillTaskRecord]
  BY DEF TypeOK
<1>1. ASSUME NEW r \in BOOLEAN, FillFails(g, r)
      PROVE  /\ \A h \in Gens \ {g} : fillTask'[h] = fillTask[h]
             /\ fillTask'[g].pc \in Idle
  <2> DEFINE again == Retried(g)
             idle == IdleFill("recv")
  <2>1. again.pc = "save" /\ idle.pc = "recv"
    BY RecordStage DEF Retried
  <2>2. fillTask' \in {[fillTask EXCEPT ![g] = again], [fillTask EXCEPT ![g] = idle]}
    <3>1. CASE CanRetry(g, r)
      BY <1>1, <3>1 DEF FillFails
    <3>2. CASE ~CanRetry(g, r)
      BY <1>1, <3>2 DEF FillFails
    <3> QED BY <3>1, <3>2
  <2> HIDE DEF again, idle
  <2> QED BY <1>a, <2>1, <2>2 DEF Idle
<1>2. ASSUME NEW pc, NEW o, NEW p, FillGoto(g, pc, o, p)
      PROVE  /\ \A h \in Gens \ {g} : fillTask'[h] = fillTask[h]
             /\ fillTask'[g].pc = pc /\ fillTask'[g].exec = fillTask[g].exec
  <2> DEFINE t == FillTask(pc, fillTask[g].exec, fillTask[g].tries, o, p)
  <2>1. t.pc = pc /\ t.exec = fillTask[g].exec
    BY RecordStage
  <2>2. fillTask' = [fillTask EXCEPT ![g] = t]
    BY <1>2 DEF FillGoto
  <2> HIDE DEF t
  <2> QED BY <1>a, <2>1, <2>2
<1> QED BY <1>1, <1>2

(* Counting one more effect of execution e in generation g.                *)
LEMMA CounterGrows ==
  ASSUME NEW c \in Counters, NEW g \in Gens, NEW e \in Execs, NEW d,
         d = [c EXCEPT ![g][e] = @ + 1]
  PROVE  /\ \A h \in Gens \ {g} : d[h] = c[h]
         /\ \A f \in Execs \ {e} : d[g][f] = c[g][f]
         /\ d[g][e] = c[g][e] + 1
  BY DEF Counters

(* A generation whose task and counters a step leaves alone.               *)
LEMMA OtherGens ==
  ASSUME NEW h \in Gens, GenInv(h), fillTask'[h] = fillTask[h],
         rows'[h] = rows[h], orderWrites'[h] = orderWrites[h],
         positionWrites'[h] = positionWrites[h], filledEvents'[h] = filledEvents[h]
  PROVE  GenInv(h)'
  BY DEF GenInv, Chain, Stage

(* A generation whose counters a step leaves alone and whose task is idle. *)
LEMMA IdleGens ==
  ASSUME NEW h \in Gens, GenInv(h), fillTask'[h].pc \in Idle,
         rows'[h] = rows[h], orderWrites'[h] = orderWrites[h],
         positionWrites'[h] = positionWrites[h], filledEvents'[h] = filledEvents[h]
  PROVE  GenInv(h)'
  BY DEF GenInv, Chain, Stage, Idle

LEMMA ControlEffects ==
  ASSUME TypeOK, EffectsInv,
         (\E g \in Gens : StartStep(g) \/ UpdateStep(g) \/ EndStep(g)) \/ StopStep \/ GatewayStep
           \/ UNCHANGED vars
  PROVE  EffectsInv'
<1>1. /\ rows' = rows /\ orderWrites' = orderWrites /\ positionWrites' = positionWrites
      /\ filledEvents' = filledEvents /\ processed' = processed
  BY DEF StartStep, StartSwap, SubscribeFails, SubscribeOrders, SubscribeFillsAndSpawn,
     StoreOrderHandle, StoreFillHandle, UpdateStep, UpdateRecv, UpdateGet, UpdatePut,
     UpdatePublish, StopStep, StopSwap, StopOrderTask, StopFillTask,
     EndStep, FillChannelEnds, OrderChannelEnds, GatewayStep,
     GatewayFill, GatewayUpdate, vars, effects
<1>2. \/ fillTask' = fillTask
      \/ \E g \in Gens : fillTask' = [fillTask EXCEPT ![g] = IdleFill("recv")]
      \/ handles.fill # 0 /\ fillTask' = [fillTask EXCEPT ![handles.fill] = IdleFill("down")]
      \/ \E g \in Gens : fillTask' = [fillTask EXCEPT ![g] = IdleFill("down")]
  BY DEF StartStep, StartSwap, SubscribeFails, SubscribeOrders, SubscribeFillsAndSpawn,
     StoreOrderHandle, StoreFillHandle, UpdateStep, UpdateRecv, UpdateGet, UpdatePut,
     UpdatePublish, StopStep, StopSwap, StopOrderTask, StopFillTask,
     EndStep, FillChannelEnds, OrderChannelEnds, GatewayStep,
     GatewayFill, GatewayUpdate, vars, tasks
<1>3. ASSUME NEW h \in Gens PROVE GenInv(h)'
  <2>1. fillTask'[h] = fillTask[h] \/ fillTask'[h].pc \in Idle
    <3> DEFINE up == IdleFill("recv")
               down == IdleFill("down")
    <3>1. up.pc \in Idle /\ down.pc \in Idle
      BY RecordStage DEF Idle
    <3>2. fillTask \in [Gens -> FillTaskRecord] /\ (handles.fill # 0 => handles.fill \in Gens)
      BY DEF TypeOK
    <3>3. \/ fillTask' = fillTask
          \/ \E g \in Gens : fillTask' = [fillTask EXCEPT ![g] = up]
          \/ \E g \in Gens : fillTask' = [fillTask EXCEPT ![g] = down]
      BY <1>2, <3>2
    <3> HIDE DEF up, down
    <3> QED BY <3>1, <3>2, <3>3
  <2>2. GenInv(h)
    BY DEF EffectsInv
  <2> QED BY <1>1, <2>1, <2>2, OtherGens, IdleGens
<1>4. ProcessedOnlyAfterEffects'
  BY <1>1 DEF EffectsInv, ProcessedOnlyAfterEffects
<1> QED BY <1>3, <1>4 DEF EffectsInv

(* A step of a fill task that marks nothing keeps what processed says.     *)
LEMMA ProcessedFrame ==
  ASSUME TypeOK, ProcessedOnlyAfterEffects, processed' = processed,
         \/ filledEvents' = filledEvents
         \/ \E g \in Gens, e \in Execs : filledEvents' = [filledEvents EXCEPT ![g][e] = @ + 1]
  PROVE  ProcessedOnlyAfterEffects'
<1>1. ASSUME NEW h \in Gens, NEW f \in Execs, filledEvents[h][f] > 0
      PROVE  filledEvents'[h][f] > 0
  <2>1. filledEvents[h][f] \in Nat /\ filledEvents \in Counters
    BY DEF TypeOK, Counters
  <2>2. ASSUME NEW g \in Gens, NEW e \in Execs,
               filledEvents' = [filledEvents EXCEPT ![g][e] = @ + 1]
        PROVE  filledEvents'[h][f] \in {filledEvents[h][f], filledEvents[h][f] + 1}
    BY <2>1, <2>2, CounterGrows
  <2> QED BY <1>1, <2>1, <2>2
<1>2. ASSUME NEW k \in processed'
      PROVE  \E h \in Gens, f \in Execs : ExecKey[f] = k /\ filledEvents'[h][f] > 0
  BY <1>1, <1>2 DEF ProcessedOnlyAfterEffects
<1> QED BY <1>2 DEF ProcessedOnlyAfterEffects

LEMMA FillEffects ==
  ASSUME TypeOK, EffectsInv, NEW g \in Gens, FillStep(g)
  PROVE  EffectsInv'
<1> USE DEF effects
<1> DEFINE e == fillTask[g].exec
<1>a. fillTask[g].pc \notin {"down", "recv"} => e \in Execs
  BY FillMoves
<1>b. GenInv(g) /\ ProcessedOnlyAfterEffects /\ \A h \in Gens : GenInv(h)
  BY DEF EffectsInv
<1>c. /\ rows \in Counters /\ orderWrites \in Counters
      /\ positionWrites \in Counters /\ filledEvents \in Counters
      /\ fillTask \in [Gens -> FillTaskRecord]
  BY DEF TypeOK
<1>d. \A f \in Execs : /\ rows[g][f] \in Nat /\ orderWrites[g][f] \in Nat
                       /\ positionWrites[g][f] \in Nat /\ filledEvents[g][f] \in Nat
  BY <1>c DEF Counters
<1>e. (\A h \in Gens : GenInv(h)') /\ ProcessedOnlyAfterEffects' => EffectsInv'
  BY DEF EffectsInv
<1>1. ASSUME FillRecv(g) PROVE EffectsInv'
  <2> DEFINE t == FillTask("save", Head(fillQ[g]), 0, NoOrder, NoPosition)
  <2>1. t.pc \in Idle
    BY RecordStage DEF Idle
  <2>2. fillTask' \in {fillTask, [fillTask EXCEPT ![g] = t]}
    BY <1>1 DEF FillRecv
  <2>3. /\ rows' = rows /\ orderWrites' = orderWrites /\ positionWrites' = positionWrites
        /\ filledEvents' = filledEvents /\ processed' = processed
    BY <1>1 DEF FillRecv
  <2> HIDE DEF t
  <2>4. ASSUME NEW h \in Gens PROVE fillTask'[h] = fillTask[h] \/ fillTask'[h].pc \in Idle
    BY <1>c, <2>1, <2>2
  <2> QED BY <1>b, <1>e, <2>3, <2>4, OtherGens, IdleGens, ProcessedFrame
<1>2. ASSUME FillSave(g) PROVE EffectsInv'
  <2> DEFINE counted == [rows EXCEPT ![g][e] = @ + 1]
  <2>1. /\ orderWrites' = orderWrites /\ positionWrites' = positionWrites
        /\ filledEvents' = filledEvents /\ processed' = processed /\ e \in Execs
    BY <1>2, <1>a DEF FillSave
  <2>2. \/ /\ rows' = counted
           /\ FillGoto(g, "getOrder", NoOrder, NoPosition)
        \/ /\ rows' \in {rows, counted}
           /\ \E r \in BOOLEAN : FillFails(g, r)
    BY <1>2 DEF FillSave
  <2>3. /\ \A h \in Gens \ {g} : counted[h] = rows[h]
        /\ \A f \in Execs \ {e} : counted[g][f] = rows[g][f]
        /\ counted[g][e] = rows[g][e] + 1
    BY <2>1, <1>c DEF Counters
  <2> HIDE DEF counted
  <2>4. \A h \in Gens \ {g} : fillTask'[h] = fillTask[h] /\ rows'[h] = rows[h]
    <3>1. rows' \in {rows, counted}
      BY <2>2
    <3>2. \A h \in Gens \ {g} : fillTask'[h] = fillTask[h]
      BY <2>2, FillStages
    <3> QED BY <2>3, <3>1, <3>2
  <2>5. \A h \in Gens \ {g} : GenInv(h)'
    BY <1>b, <2>1, <2>4, OtherGens
  <2>6. \/ fillTask'[g].pc \in Idle
        \/ fillTask'[g].pc = "getOrder" /\ fillTask'[g].exec = e /\ rows' = counted
    <3>1. CASE rows' = counted /\ FillGoto(g, "getOrder", NoOrder, NoPosition)
      BY <3>1, FillStages
    <3>2. CASE \E r \in BOOLEAN : FillFails(g, r)
      BY <3>2, FillStages
    <3> QED BY <2>2, <3>1, <3>2
  <2>7. \A f \in Execs : Chain(g, f)'
    BY <1>b, <1>d, <2>1, <2>2, <2>3 DEF GenInv, Chain
  <2>8. Stage(g, fillTask[g].pc, fillTask[g].exec)'
    <3>1. fillTask'[g].pc = "getOrder" /\ fillTask'[g].exec = e /\ rows' = counted
            => orderWrites'[g][e] < rows'[g][e]
      BY <1>b, <1>d, <2>1, <2>3 DEF GenInv, Chain
    <3> QED BY <2>6, <3>1 DEF Stage, Idle
  <2>9. GenInv(g)'
    BY <2>7, <2>8 DEF GenInv
  <2> QED BY <1>b, <1>e, <2>1, <2>5, <2>9, ProcessedFrame
<1>3. ASSUME FillPutOrder(g) PROVE EffectsInv'
  <2> DEFINE counted == [orderWrites EXCEPT ![g][e] = @ + 1]
  <2>1. /\ rows' = rows /\ positionWrites' = positionWrites
        /\ filledEvents' = filledEvents /\ processed' = processed /\ e \in Execs
    BY <1>3, <1>a DEF FillPutOrder
  <2>2. \/ /\ orderWrites' = counted
           /\ FillGoto(g, "getPosition", NoOrder, NoPosition)
        \/ /\ orderWrites' \in {orderWrites, counted}
           /\ \E r \in BOOLEAN : FillFails(g, r)
    BY <1>3 DEF FillPutOrder
  <2>3. /\ \A h \in Gens \ {g} : counted[h] = orderWrites[h]
        /\ \A f \in Execs \ {e} : counted[g][f] = orderWrites[g][f]
        /\ counted[g][e] = orderWrites[g][e] + 1
    BY <2>1, <1>c DEF Counters
  <2>4. rows[g][e] > orderWrites[g][e]
    BY <1>3, <1>b, <1>d, <2>1 DEF FillPutOrder, GenInv, Stage
  <2> HIDE DEF counted
  <2>5. \A h \in Gens \ {g} : fillTask'[h] = fillTask[h] /\ orderWrites'[h] = orderWrites[h]
    <3>1. orderWrites' \in {orderWrites, counted}
      BY <2>2
    <3>2. \A h \in Gens \ {g} : fillTask'[h] = fillTask[h]
      BY <2>2, FillStages
    <3> QED BY <2>3, <3>1, <3>2
  <2>6. \A h \in Gens \ {g} : GenInv(h)'
    BY <1>b, <2>1, <2>5, OtherGens
  <2>7. \/ fillTask'[g].pc \in Idle
        \/ fillTask'[g].pc = "getPosition" /\ fillTask'[g].exec = e /\ orderWrites' = counted
    <3>1. CASE orderWrites' = counted /\ FillGoto(g, "getPosition", NoOrder, NoPosition)
      BY <3>1, FillStages
    <3>2. CASE \E r \in BOOLEAN : FillFails(g, r)
      BY <3>2, FillStages
    <3> QED BY <2>2, <3>1, <3>2
  <2>8. \A f \in Execs : Chain(g, f)'
    BY <1>b, <1>d, <2>1, <2>2, <2>3, <2>4 DEF GenInv, Chain
  <2>9. Stage(g, fillTask[g].pc, fillTask[g].exec)'
    <3>1. fillTask'[g].pc = "getPosition" /\ fillTask'[g].exec = e /\ orderWrites' = counted
            => positionWrites'[g][e] < orderWrites'[g][e]
      BY <1>b, <1>d, <2>1, <2>3 DEF GenInv, Chain
    <3> QED BY <2>7, <3>1 DEF Stage, Idle
  <2>10. GenInv(g)'
    BY <2>8, <2>9 DEF GenInv
  <2>11. \/ filledEvents' = filledEvents
         \/ filledEvents' = [filledEvents EXCEPT ![g][e] = @ + 1]
    BY <2>1, <2>2 DEF counted
  <2> QED BY <1>b, <1>e, <2>1, <2>6, <2>10, <2>11, ProcessedFrame
<1>4. ASSUME FillPutPosition(g) PROVE EffectsInv'
  <2> DEFINE counted == [positionWrites EXCEPT ![g][e] = @ + 1]
  <2>1. /\ rows' = rows /\ orderWrites' = orderWrites
        /\ filledEvents' = filledEvents /\ processed' = processed /\ e \in Execs
    BY <1>4, <1>a DEF FillPutPosition
  <2>2. \/ /\ positionWrites' = counted
           /\ FillGoto(g, "announce", NoOrder, NoPosition)
        \/ /\ positionWrites' \in {positionWrites, counted}
           /\ \E r \in BOOLEAN : FillFails(g, r)
    BY <1>4 DEF FillPutPosition
  <2>3. /\ \A h \in Gens \ {g} : counted[h] = positionWrites[h]
        /\ \A f \in Execs \ {e} : counted[g][f] = positionWrites[g][f]
        /\ counted[g][e] = positionWrites[g][e] + 1
    BY <2>1, <1>c DEF Counters
  <2>4. orderWrites[g][e] > positionWrites[g][e]
    BY <1>4, <1>b, <1>d, <2>1 DEF FillPutPosition, GenInv, Stage
  <2> HIDE DEF counted
  <2>5. \A h \in Gens \ {g} : fillTask'[h] = fillTask[h] /\ positionWrites'[h] = positionWrites[h]
    <3>1. positionWrites' \in {positionWrites, counted}
      BY <2>2
    <3>2. \A h \in Gens \ {g} : fillTask'[h] = fillTask[h]
      BY <2>2, FillStages
    <3> QED BY <2>3, <3>1, <3>2
  <2>6. \A h \in Gens \ {g} : GenInv(h)'
    BY <1>b, <2>1, <2>5, OtherGens
  <2>7. \/ fillTask'[g].pc \in Idle
        \/ fillTask'[g].pc = "announce" /\ fillTask'[g].exec = e /\ positionWrites' = counted
    <3>1. CASE positionWrites' = counted /\ FillGoto(g, "announce", NoOrder, NoPosition)
      BY <3>1, FillStages
    <3>2. CASE \E r \in BOOLEAN : FillFails(g, r)
      BY <3>2, FillStages
    <3> QED BY <2>2, <3>1, <3>2
  <2>8. \A f \in Execs : Chain(g, f)'
    BY <1>b, <1>d, <2>1, <2>2, <2>3, <2>4 DEF GenInv, Chain
  <2>9. Stage(g, fillTask[g].pc, fillTask[g].exec)'
    <3>1. fillTask'[g].pc = "announce" /\ fillTask'[g].exec = e /\ positionWrites' = counted
            => filledEvents'[g][e] < positionWrites'[g][e]
      BY <1>b, <1>d, <2>1, <2>3 DEF GenInv, Chain
    <3> QED BY <2>7, <3>1 DEF Stage, Idle
  <2>10. GenInv(g)'
    BY <2>8, <2>9 DEF GenInv
  <2>11. \/ filledEvents' = filledEvents
         \/ filledEvents' = [filledEvents EXCEPT ![g][e] = @ + 1]
    BY <2>1, <2>2 DEF counted
  <2> QED BY <1>b, <1>e, <2>1, <2>6, <2>10, <2>11, ProcessedFrame
<1>5. ASSUME FillPublish(g) PROVE EffectsInv'
  <2> DEFINE counted == [filledEvents EXCEPT ![g][e] = @ + 1]
  <2>1. /\ rows' = rows /\ orderWrites' = orderWrites
        /\ positionWrites' = positionWrites /\ processed' = processed /\ e \in Execs
    BY <1>5, <1>a DEF FillPublish
  <2>2. \/ /\ filledEvents' = counted
           /\ FillGoto(g, "mark", NoOrder, NoPosition)
        \/ /\ filledEvents' \in {filledEvents, counted}
           /\ \E r \in BOOLEAN : FillFails(g, r)
    BY <1>5 DEF FillPublish
  <2>3. /\ \A h \in Gens \ {g} : counted[h] = filledEvents[h]
        /\ \A f \in Execs \ {e} : counted[g][f] = filledEvents[g][f]
        /\ counted[g][e] = filledEvents[g][e] + 1
    BY <2>1, <1>c DEF Counters
  <2>4. positionWrites[g][e] > filledEvents[g][e]
    BY <1>5, <1>b, <1>d, <2>1 DEF FillPublish, GenInv, Stage
  <2> HIDE DEF counted
  <2>5. \A h \in Gens \ {g} : fillTask'[h] = fillTask[h] /\ filledEvents'[h] = filledEvents[h]
    <3>1. filledEvents' \in {filledEvents, counted}
      BY <2>2
    <3>2. \A h \in Gens \ {g} : fillTask'[h] = fillTask[h]
      BY <2>2, FillStages
    <3> QED BY <2>3, <3>1, <3>2
  <2>6. \A h \in Gens \ {g} : GenInv(h)'
    BY <1>b, <2>1, <2>5, OtherGens
  <2>7. \/ fillTask'[g].pc \in Idle
        \/ fillTask'[g].pc = "mark" /\ fillTask'[g].exec = e /\ filledEvents' = counted
    <3>1. CASE filledEvents' = counted /\ FillGoto(g, "mark", NoOrder, NoPosition)
      BY <3>1, FillStages
    <3>2. CASE \E r \in BOOLEAN : FillFails(g, r)
      BY <3>2, FillStages
    <3> QED BY <2>2, <3>1, <3>2
  <2>8. \A f \in Execs : Chain(g, f)'
    BY <1>b, <1>d, <2>1, <2>2, <2>3, <2>4 DEF GenInv, Chain
  <2>9. Stage(g, fillTask[g].pc, fillTask[g].exec)'
    <3>1. fillTask'[g].pc = "mark" /\ fillTask'[g].exec = e /\ filledEvents' = counted
            => 0 < filledEvents'[g][e]
      BY <1>b, <1>d, <2>1, <2>3 DEF GenInv, Chain
    <3> QED BY <2>7, <3>1 DEF Stage, Idle
  <2>10. GenInv(g)'
    BY <2>8, <2>9 DEF GenInv
  <2>11. \/ filledEvents' = filledEvents
         \/ filledEvents' = [filledEvents EXCEPT ![g][e] = @ + 1]
    BY <2>1, <2>2 DEF counted
  <2> QED BY <1>b, <1>e, <2>1, <2>6, <2>10, <2>11, ProcessedFrame
<1>6. ASSUME FillGetOrder(g) \/ FillGetPosition(g) \/ FillAnnounce(g) PROVE EffectsInv'
  <2>1. /\ rows' = rows /\ orderWrites' = orderWrites /\ positionWrites' = positionWrites
        /\ filledEvents' = filledEvents /\ processed' = processed
    BY <1>6 DEF FillGetOrder, FillGetPosition, FillAnnounce
  <2>2. \/ \E r \in BOOLEAN : FillFails(g, r)
        \/ fillTask[g].pc = "getOrder" /\ \E o, p : FillGoto(g, "putOrder", o, p)
        \/ fillTask[g].pc = "getPosition" /\ \E o, p : FillGoto(g, "putPosition", o, p)
        \/ fillTask[g].pc = "announce" /\ \E o, p : FillGoto(g, "publish", o, p)
    BY <1>6 DEF FillGetOrder, FillGetPosition, FillAnnounce
  <2>3. \A h \in Gens \ {g} : fillTask'[h] = fillTask[h]
    BY <2>2, FillStages
  <2>4. \A h \in Gens \ {g} : GenInv(h)'
    BY <1>b, <2>1, <2>3, OtherGens
  <2>5. \/ fillTask'[g].pc \in Idle
        \/ /\ fillTask'[g].exec = e
           /\ <<fillTask[g].pc, fillTask'[g].pc>> \in
                {<<"getOrder", "putOrder">>, <<"getPosition", "putPosition">>,
                 <<"announce", "publish">>}
    BY <2>2, FillStages
  <2>6. GenInv(g)'
    BY <1>b, <2>1, <2>5 DEF GenInv, Chain, Stage, Idle
  <2> QED BY <1>b, <1>e, <2>1, <2>4, <2>6, ProcessedFrame
<1>7. ASSUME FillMark(g) PROVE EffectsInv'
  <2>1. /\ rows' = rows /\ orderWrites' = orderWrites /\ positionWrites' = positionWrites
        /\ filledEvents' = filledEvents /\ e \in Execs
    BY <1>7, <1>a DEF FillMark
  <2> DEFINE t == IdleFill("recv")
  <2>2. t.pc \in Idle
    BY RecordStage DEF Idle
  <2>3. fillTask' = [fillTask EXCEPT ![g] = t]
    BY <1>7 DEF FillMark
  <2> HIDE DEF t
  <2>4. ASSUME NEW h \in Gens PROVE GenInv(h)'
    <3>1. fillTask'[h] = fillTask[h] \/ fillTask'[h].pc \in Idle
      BY <1>c, <2>2, <2>3
    <3> QED BY <1>b, <2>1, <3>1, OtherGens, IdleGens
  <2>5. processed' \subseteq processed \cup {ExecKey[e]}
    <3> DEFINE marked == processed \cup {ExecKey[e]}
    <3>1. CASE Cardinality(marked) > DedupCap
      <4>1. PICK gone \in SUBSET marked : processed' = marked \ gone
        BY <1>7, <3>1 DEF FillMark, Marked
      <4> QED BY <4>1
    <3>2. CASE ~(Cardinality(marked) > DedupCap)
      BY <1>7, <3>2 DEF FillMark, Marked
    <3> QED BY <3>1, <3>2
  <2>6. filledEvents[g][e] > 0
    BY <1>7, <1>b, <1>d, <2>1 DEF FillMark, GenInv, Stage
  <2>7. ProcessedOnlyAfterEffects'
    <3> SUFFICES ASSUME NEW k \in processed'
                 PROVE  \E h \in Gens, f \in Execs : ExecKey[f] = k /\ filledEvents'[h][f] > 0
      BY DEF ProcessedOnlyAfterEffects
    <3>1. CASE k \in processed
      BY <1>b, <2>1, <3>1 DEF ProcessedOnlyAfterEffects
    <3>2. CASE k = ExecKey[e]
      BY <2>1, <2>6, <3>2
    <3> QED BY <2>5, <3>1, <3>2
  <2> QED BY <1>e, <2>4, <2>7
<1> QED BY <1>1, <1>2, <1>3, <1>4, <1>5, <1>6, <1>7 DEF FillStep

LEMMA StepEffects == TypeOK /\ EffectsInv /\ [Next]_vars => EffectsInv'
  BY ControlEffects, FillEffects DEF Next

(* Every effect of a fill follows the one it depends on: row, order,       *)
(* position, event, in every generation and through every retry.           *)
THEOREM FillEffectsAlwaysInOrder == Spec => []FillEffectsInOrder
<1>1. EffectsInv => FillEffectsInOrder
  BY DEF EffectsInv, GenInv, Chain, FillEffectsInOrder
<1> QED BY <1>1, InitEffects, StepEffects, TypeCorrect, PTL DEF Spec

(* A fill is discarded as a duplicate only of one that was carried out.    *)
THEOREM ProcessedKeysHandled == Spec => []ProcessedOnlyAfterEffects
<1>1. EffectsInv => ProcessedOnlyAfterEffects
  BY DEF EffectsInv
<1> QED BY <1>1, InitEffects, StepEffects, TypeCorrect, PTL DEF Spec
-----------------------------------------------------------------------------
(***************************************************************************)
(* The manager writes only what it was told of.  Executions and updates    *)
(* come from the gateway's channels and pass from the queue to the task.   *)
(***************************************************************************)
ToldInv ==
  \A g \in Gens :
    /\ fillTask[g].exec # NoExec => delivered[fillTask[g].exec] > 0
    /\ \A i \in 1..Len(fillQ[g]) : delivered[fillQ[g][i]] > 0
    /\ orderTask[g].update # NoUpdate => orderTask[g].update \in updatesSent
    /\ \A i \in 1..Len(orderQ[g]) : orderQ[g][i] \in updatesSent

(* An order that changes is one that the gateway has reported on.          *)
WritesAreReports ==
  \A o \in Orders : orders'[o] # orders[o] =>
    \/ \E e \in Execs : ExecOrder[e] = o /\ delivered[e] > 0
    \/ \E u \in updatesSent : u.order = o

(* What the tasks take up and what remains in the queues.                  *)
FillTaken(h) ==
  \/ fillTask'[h].exec \in {NoExec, fillTask[h].exec}
  \/ fillQ[h] # << >> /\ fillTask'[h].exec = Head(fillQ[h])

UpdateTaken(h) ==
  \/ orderTask'[h].update \in {NoUpdate, orderTask[h].update}
  \/ orderQ[h] # << >> /\ orderTask'[h].update = Head(orderQ[h])

Shortened(after, before) == after \in {before, << >>} \/ (before # << >> /\ after = Tail(before))

LEMMA ShortenedHolds ==
  ASSUME NEW S, NEW T, NEW s \in Seq(S), NEW t, Shortened(t, s),
         \A i \in 1..Len(s) : s[i] \in T
  PROVE  \A i \in 1..Len(t) : t[i] \in T
<1>1. CASE t = s
  BY <1>1
<1>2. CASE t = << >>
  BY <1>2
<1>3. CASE s # << >> /\ t = Tail(s)
  <2>1. Len(t) = Len(s) - 1 /\ \A i \in 1..Len(t) : t[i] = s[i + 1]
    BY <1>3
  <2> QED BY <2>1
<1> QED BY <1>1, <1>2, <1>3 DEF Shortened

LEMMA ToldFrame ==
  ASSUME TypeOK, ToldInv, UNCHANGED gateway,
         \A h \in Gens : FillTaken(h) /\ UpdateTaken(h),
         \A h \in Gens : Shortened(fillQ'[h], fillQ[h]) /\ Shortened(orderQ'[h], orderQ[h])
  PROVE  ToldInv'
<1> DEFINE T == {e \in Execs : delivered[e] > 0}
<1> SUFFICES ASSUME NEW g \in Gens
             PROVE  /\ fillTask'[g].exec # NoExec => delivered[fillTask'[g].exec] > 0
                    /\ \A i \in 1..Len(fillQ'[g]) : delivered[fillQ'[g][i]] > 0
                    /\ orderTask'[g].update # NoUpdate => orderTask'[g].update \in updatesSent
                    /\ \A i \in 1..Len(orderQ'[g]) : orderQ'[g][i] \in updatesSent
  BY DEF ToldInv, gateway
<1>1. fillQ[g] \in Seq(Execs) /\ orderQ[g] \in Seq(Updates)
  BY DEF TypeOK
<1>2. \A i \in 1..Len(fillQ[g]) : fillQ[g][i] \in T
  BY <1>1 DEF ToldInv
<1>3. \A i \in 1..Len(orderQ[g]) : orderQ[g][i] \in updatesSent
  BY DEF ToldInv
<1>4. \A i \in 1..Len(fillQ'[g]) : fillQ'[g][i] \in T
  BY <1>1, <1>2, ShortenedHolds
<1>5. \A i \in 1..Len(orderQ'[g]) : orderQ'[g][i] \in updatesSent
  BY <1>1, <1>3, ShortenedHolds
<1>6. fillQ[g] # << >> => Head(fillQ[g]) = fillQ[g][1] /\ 1 \in 1..Len(fillQ[g])
  BY <1>1
<1>7. orderQ[g] # << >> => Head(orderQ[g]) = orderQ[g][1] /\ 1 \in 1..Len(orderQ[g])
  BY <1>1
<1>8. fillTask'[g].exec # NoExec => delivered[fillTask'[g].exec] > 0
  BY <1>2, <1>6 DEF FillTaken, ToldInv
<1>9. orderTask'[g].update # NoUpdate => orderTask'[g].update \in updatesSent
  BY <1>3, <1>7 DEF UpdateTaken, ToldInv
<1> QED BY <1>4, <1>5, <1>8, <1>9

(* How the tasks move on: with what they hold, or idle.                    *)
LEMMA TakenMoves ==
  ASSUME TypeOK, NEW g \in Gens
  PROVE  /\ \A pc : fillTask' = [fillTask EXCEPT ![g] = IdleFill(pc)] =>
              \A h \in Gens : FillTaken(h)
         /\ \A r \in BOOLEAN : FillFails(g, r) => \A h \in Gens : FillTaken(h)
         /\ \A pc, o, p : FillGoto(g, pc, o, p) => \A h \in Gens : FillTaken(h)
         /\ \A pc : orderTask' = [orderTask EXCEPT ![g] = IdleUpdate(pc)] =>
              \A h \in Gens : UpdateTaken(h)
         /\ \A r \in BOOLEAN : UpdateFails(g, r) => \A h \in Gens : UpdateTaken(h)
         /\ \A pc, o : UpdateGoto(g, pc, o) => \A h \in Gens : UpdateTaken(h)
<1>1. ASSUME NEW t, fillTask' = [fillTask EXCEPT ![g] = t], t.exec \in {NoExec, fillTask[g].exec}
      PROVE  \A h \in Gens : FillTaken(h)
  <2>1. \A h \in Gens : fillTask'[h] = IF h = g THEN t ELSE fillTask[h]
    BY <1>1 DEF TypeOK
  <2> QED BY <1>1, <2>1 DEF FillTaken
<1>2. ASSUME NEW t, orderTask' = [orderTask EXCEPT ![g] = t],
             t.update \in {NoUpdate, orderTask[g].update}
      PROVE  \A h \in Gens : UpdateTaken(h)
  <2>1. \A h \in Gens : orderTask'[h] = IF h = g THEN t ELSE orderTask[h]
    BY <1>2 DEF TypeOK
  <2> QED BY <1>2, <2>1 DEF UpdateTaken
<1>3. \A pc : IdleFill(pc).exec = NoExec /\ IdleUpdate(pc).update = NoUpdate
  BY DEF IdleFill, FillTask, IdleUpdate, OrderTask
<1>4. \A pc, e, n, o, p : FillTask(pc, e, n, o, p).exec = e
  BY DEF FillTask
<1>5. \A pc, u, n, o : OrderTask(pc, u, n, o).update = u
  BY DEF OrderTask
<1>6. ASSUME NEW r \in BOOLEAN, FillFails(g, r) PROVE \A h \in Gens : FillTaken(h)
  <2>1. \/ fillTask' = [fillTask EXCEPT ![g] = Retried(g)]
        \/ fillTask' = [fillTask EXCEPT ![g] = IdleFill("recv")]
    BY <1>6 DEF FillFails
  <2>2. Retried(g).exec = fillTask[g].exec
    BY <1>4 DEF Retried
  <2> QED BY <1>1, <1>3, <2>1, <2>2
<1>7. ASSUME NEW r \in BOOLEAN, UpdateFails(g, r) PROVE \A h \in Gens : UpdateTaken(h)
  <2>1. \/ orderTask' = [orderTask EXCEPT ![g] =
             OrderTask("get", orderTask[g].update, orderTask[g].tries + 1, NoOrder)]
        \/ orderTask' = [orderTask EXCEPT ![g] = IdleUpdate("recv")]
    BY <1>7 DEF UpdateFails
  <2> QED BY <1>2, <1>3, <1>5, <2>1
<1>8. ASSUME NEW pc, NEW o, NEW p, FillGoto(g, pc, o, p) PROVE \A h \in Gens : FillTaken(h)
  <2> DEFINE t == FillTask(pc, fillTask[g].exec, fillTask[g].tries, o, p)
  <2>1. fillTask' = [fillTask EXCEPT ![g] = t] /\ t.exec = fillTask[g].exec
    BY <1>4, <1>8 DEF FillGoto
  <2> HIDE DEF t
  <2> QED BY <1>1, <2>1
<1>9. ASSUME NEW pc, NEW o, UpdateGoto(g, pc, o) PROVE \A h \in Gens : UpdateTaken(h)
  <2> DEFINE t == OrderTask(pc, orderTask[g].update, orderTask[g].tries, o)
  <2>1. orderTask' = [orderTask EXCEPT ![g] = t] /\ t.update = orderTask[g].update
    BY <1>5, <1>9 DEF UpdateGoto
  <2> HIDE DEF t
  <2> QED BY <1>2, <2>1
<1> QED BY <1>1, <1>2, <1>3, <1>6, <1>7, <1>8, <1>9

LEMMA InitTold == Init => ToldInv
<1> SUFFICES ASSUME Init PROVE ToldInv
  OBVIOUS
<1>1. \A g \in Gens : /\ fillTask[g].exec = NoExec /\ orderTask[g].update = NoUpdate
                      /\ fillQ[g] = << >> /\ orderQ[g] = << >>
  BY DEF Init, IdleFill, FillTask, IdleUpdate, OrderTask
<1> QED BY <1>1 DEF ToldInv

LEMMA ControlTold ==
  ASSUME TypeOK, ToldInv, (\E g \in Gens : StartStep(g) \/ EndStep(g)) \/ StopStep \/ UNCHANGED vars
  PROVE  ToldInv' /\ WritesAreReports
<1> USE DEF repos, tasks, queues, gateway
<1>1. UNCHANGED gateway /\ WritesAreReports
  BY DEF StartStep, StartSwap, SubscribeFails, SubscribeOrders, SubscribeFillsAndSpawn,
     StoreOrderHandle, StoreFillHandle, StopStep, StopSwap, StopOrderTask, StopFillTask,
     EndStep, FillChannelEnds, OrderChannelEnds, vars, WritesAreReports
<1>2. \/ fillTask' = fillTask
      \/ \E g \in Gens, pc \in FillPcs : fillTask' = [fillTask EXCEPT ![g] = IdleFill(pc)]
  BY DEF StartStep, StartSwap, SubscribeFails, SubscribeOrders, SubscribeFillsAndSpawn,
     StoreOrderHandle, StoreFillHandle, StopStep, StopSwap, StopOrderTask, StopFillTask,
     EndStep, FillChannelEnds, OrderChannelEnds, vars, FillPcs, TypeOK
<1>3. \/ orderTask' = orderTask
      \/ \E g \in Gens, pc \in UpdatePcs : orderTask' = [orderTask EXCEPT ![g] = IdleUpdate(pc)]
  BY DEF StartStep, StartSwap, SubscribeFails, SubscribeOrders, SubscribeFillsAndSpawn,
     StoreOrderHandle, StoreFillHandle, StopStep, StopSwap, StopOrderTask, StopFillTask,
     EndStep, FillChannelEnds, OrderChannelEnds, vars, UpdatePcs, TypeOK
<1>4. \/ fillQ' = fillQ
      \/ \E g \in Gens : fillQ' = [fillQ EXCEPT ![g] = << >>]
  BY DEF StartStep, StartSwap, SubscribeFails, SubscribeOrders, SubscribeFillsAndSpawn,
     StoreOrderHandle, StoreFillHandle, StopStep, StopSwap, StopOrderTask, StopFillTask,
     EndStep, FillChannelEnds, OrderChannelEnds, vars, TypeOK
<1>5. \/ orderQ' = orderQ
      \/ \E g \in Gens : orderQ' = [orderQ EXCEPT ![g] = << >>]
  BY DEF StartStep, StartSwap, SubscribeFails, SubscribeOrders, SubscribeFillsAndSpawn,
     StoreOrderHandle, StoreFillHandle, StopStep, StopSwap, StopOrderTask, StopFillTask,
     EndStep, FillChannelEnds, OrderChannelEnds, vars, TypeOK
<1>6. \A h \in Gens : FillTaken(h)
  BY <1>2, TakenMoves DEF FillTaken
<1>7. \A h \in Gens : UpdateTaken(h)
  BY <1>3, TakenMoves DEF UpdateTaken
<1>8. \A h \in Gens : Shortened(fillQ'[h], fillQ[h]) /\ Shortened(orderQ'[h], orderQ[h])
  BY <1>4, <1>5 DEF Shortened, TypeOK
<1> QED BY <1>1, <1>6, <1>7, <1>8, ToldFrame

LEMMA GatewayTold ==
  ASSUME TypeOK, ToldInv, GatewayStep
  PROVE  ToldInv' /\ WritesAreReports
<1> USE DEF repos, tasks
<1>1. ASSUME NEW e \in Execs, GatewayFill(e) PROVE ToldInv' /\ WritesAreReports
  <2>1. /\ WritesAreReports /\ UNCHANGED <<tasks, orderQ, updatesSent>>
        /\ fillQ' = [g \in Gens |-> IF FillsSubscribed(g) THEN Append(fillQ[g], e) ELSE fillQ[g]]
    BY <1>1 DEF GatewayFill, WritesAreReports
  <2>2. delivered' = [delivered EXCEPT ![e] = @ + 1]
    BY <1>1 DEF GatewayFill
  <2>3. delivered'[e] > 0 /\ \A f \in Execs : delivered[f] > 0 => delivered'[f] > 0
    BY <2>2 DEF TypeOK
  <2>4. ASSUME NEW g \in Gens
        PROVE  /\ fillTask[g].exec \in Execs \cup {NoExec}
               /\ \A i \in 1..Len(fillQ'[g]) : delivered'[fillQ'[g][i]] > 0
    <3>1. fillQ[g] \in Seq(Execs) /\ fillTask[g].exec \in Execs \cup {NoExec}
      BY DEF TypeOK, FillTaskRecord
    <3>2. \A i \in 1..Len(fillQ[g]) : delivered'[fillQ[g][i]] > 0
      BY <2>3, <3>1 DEF ToldInv
    <3>3. fillQ'[g] \in {fillQ[g], Append(fillQ[g], e)}
      BY <2>1
    <3>4. \A i \in 1..Len(Append(fillQ[g], e)) : delivered'[Append(fillQ[g], e)[i]] > 0
      BY <2>3, <3>1, <3>2
    <3> QED BY <3>1, <3>2, <3>3, <3>4
  <2> QED BY <2>1, <2>3, <2>4 DEF ToldInv
<1>2. ASSUME NEW u \in Updates, GatewayUpdate(u) PROVE ToldInv' /\ WritesAreReports
  <2>1. /\ WritesAreReports /\ UNCHANGED <<tasks, fillQ, delivered>>
        /\ updatesSent' = updatesSent \cup {u}
        /\ orderQ' = [g \in Gens |-> IF OrdersSubscribed(g) THEN Append(orderQ[g], u) ELSE orderQ[g]]
    BY <1>2 DEF GatewayUpdate, WritesAreReports
  <2>2. ASSUME NEW g \in Gens
        PROVE  \A i \in 1..Len(orderQ'[g]) : orderQ'[g][i] \in updatesSent'
    <3>1. orderQ[g] \in Seq(Updates)
      BY DEF TypeOK
    <3>2. \A i \in 1..Len(orderQ[g]) : orderQ[g][i] \in updatesSent'
      BY <2>1 DEF ToldInv
    <3>3. orderQ'[g] \in {orderQ[g], Append(orderQ[g], u)}
      BY <2>1
    <3>4. \A i \in 1..Len(Append(orderQ[g], u)) : Append(orderQ[g], u)[i] \in updatesSent'
      BY <2>1, <3>1, <3>2
    <3> QED BY <3>2, <3>3, <3>4
  <2> QED BY <2>1, <2>2 DEF ToldInv
<1> QED BY <1>1, <1>2 DEF GatewayStep

LEMMA FillTold ==
  ASSUME TypeOK, ToldInv, NEW g \in Gens, FillStep(g)
  PROVE  ToldInv' /\ WritesAreReports
<1> USE DEF repos, tasks, queues, gateway
<1>1. UNCHANGED <<gateway, orderTask, orderQ>>
  BY DEF FillStep, FillRecv, FillSave, FillGetOrder, FillPutOrder, FillGetPosition,
     FillPutPosition, FillAnnounce, FillPublish, FillMark
<1>2. \A h \in Gens : FillTaken(h)
  <2>1. CASE FillRecv(g)
    <3> DEFINE t == FillTask("save", Head(fillQ[g]), 0, NoOrder, NoPosition)
    <3>1. fillQ[g] # << >> /\ fillTask' \in {fillTask, [fillTask EXCEPT ![g] = t]}
      BY <2>1 DEF FillRecv
    <3>2. t.exec = Head(fillQ[g])
      BY DEF FillTask
    <3> HIDE DEF t
    <3> QED BY <3>1, <3>2 DEF FillTaken, TypeOK
  <2>2. CASE FillMark(g)
    BY <2>2, TakenMoves DEF FillMark
  <2>3. CASE ~FillRecv(g) /\ ~FillMark(g)
    <3>1. (\E r \in BOOLEAN : FillFails(g, r)) \/ (\E pc, o, p : FillGoto(g, pc, o, p))
      BY <2>3 DEF FillStep, FillSave, FillGetOrder, FillPutOrder, FillGetPosition,
         FillPutPosition, FillAnnounce, FillPublish
    <3> QED BY <3>1, TakenMoves
  <2> QED BY <2>1, <2>2, <2>3
<1>3. \A h \in Gens : Shortened(fillQ'[h], fillQ[h])
  <2>1. fillQ' = fillQ \/ (fillQ[g] # << >> /\ fillQ' = [fillQ EXCEPT ![g] = Tail(@)])
    BY DEF FillStep, FillRecv, FillSave, FillGetOrder, FillPutOrder, FillGetPosition,
       FillPutPosition, FillAnnounce, FillPublish, FillMark
  <2> QED BY <2>1 DEF Shortened, TypeOK
<1>4. WritesAreReports
  <2> DEFINE e == fillTask[g].exec
  <2>1. \/ orders' = orders
        \/ FillPutOrder(g) /\ orders' = [orders EXCEPT ![ExecOrder[e]] = fillTask[g].order]
    BY DEF FillStep, FillRecv, FillSave, FillGetOrder, FillPutOrder, FillGetPosition,
       FillPutPosition, FillAnnounce, FillPublish, FillMark
  <2>2. FillPutOrder(g) => e \in Execs /\ e # NoExec
    BY FillMoves, ConstantsAssumption DEF FillPutOrder
  <2>3. FillPutOrder(g) => delivered[e] > 0
    BY <2>2 DEF ToldInv
  <2> HIDE DEF e
  <2> QED BY <2>1, <2>2, <2>3 DEF WritesAreReports, TypeOK
<1>5. \A h \in Gens : UpdateTaken(h) /\ Shortened(orderQ'[h], orderQ[h])
  BY <1>1 DEF UpdateTaken, Shortened
<1> QED BY <1>1, <1>2, <1>3, <1>4, <1>5, ToldFrame

LEMMA UpdateTold ==
  ASSUME TypeOK, ToldInv, NEW g \in Gens, UpdateStep(g)
  PROVE  ToldInv' /\ WritesAreReports
<1> USE DEF repos, tasks, queues, gateway
<1>1. UNCHANGED <<gateway, fillTask, fillQ>>
  BY DEF UpdateStep, UpdateRecv, UpdateGet, UpdatePut, UpdatePublish
<1>2. \A h \in Gens : UpdateTaken(h)
  <2>1. CASE UpdateRecv(g)
    <3> DEFINE t == OrderTask("get", Head(orderQ[g]), 0, NoOrder)
    <3>1. orderQ[g] # << >> /\ orderTask' = [orderTask EXCEPT ![g] = t]
      BY <2>1 DEF UpdateRecv
    <3>2. t.update = Head(orderQ[g])
      BY DEF OrderTask
    <3> HIDE DEF t
    <3> QED BY <3>1, <3>2 DEF UpdateTaken, TypeOK
  <2>2. CASE UpdatePublish(g)
    BY <2>2, TakenMoves DEF UpdatePublish
  <2>3. CASE UpdateGet(g) \/ UpdatePut(g)
    <3>1. (\E r \in BOOLEAN : UpdateFails(g, r)) \/ (\E pc, o : UpdateGoto(g, pc, o))
      BY <2>3 DEF UpdateGet, UpdatePut
    <3> QED BY <3>1, TakenMoves
  <2> QED BY <2>1, <2>2, <2>3 DEF UpdateStep
<1>3. \A h \in Gens : Shortened(orderQ'[h], orderQ[h])
  <2>1. orderQ' = orderQ \/ (orderQ[g] # << >> /\ orderQ' = [orderQ EXCEPT ![g] = Tail(@)])
    BY DEF UpdateStep, UpdateRecv, UpdateGet, UpdatePut, UpdatePublish
  <2> QED BY <2>1 DEF Shortened, TypeOK
<1>4. WritesAreReports
  <2> DEFINE u == orderTask[g].update
  <2>1. \/ orders' = orders
        \/ UpdatePut(g) /\ orders' = [orders EXCEPT ![u.order] = orderTask[g].order]
    BY DEF UpdateStep, UpdateRecv, UpdateGet, UpdatePut, UpdatePublish
  <2>2. UpdatePut(g) => u # NoUpdate
    BY DEF UpdatePut, TypeOK, OrderTaskRecord
  <2>3. UpdatePut(g) => u \in updatesSent
    BY <2>2 DEF ToldInv
  <2> HIDE DEF u
  <2> QED BY <2>1, <2>3 DEF WritesAreReports, TypeOK
<1>5. \A h \in Gens : FillTaken(h) /\ Shortened(fillQ'[h], fillQ[h])
  BY <1>1 DEF FillTaken, Shortened
<1> QED BY <1>1, <1>2, <1>3, <1>4, <1>5, ToldFrame

LEMMA StepTold == TypeOK /\ ToldInv /\ [Next]_vars => ToldInv' /\ WritesAreReports
  BY ControlTold, GatewayTold, FillTold, UpdateTold DEF Next

(* The manager rewrites no order of which the gateway has reported neither *)
(* an execution nor an update, however late its tasks write.               *)
THEOREM OnlyReportedRewritten == Spec => [][WritesAreReports]_vars
<1>1. Spec => []ToldInv
  BY InitTold, StepTold, TypeCorrect, PTL DEF Spec
<1>2. TypeOK /\ ToldInv /\ [Next]_vars => [WritesAreReports]_vars
  BY StepTold
<1> QED BY <1>1, <1>2, TypeCorrect, PTL DEF Spec
-----------------------------------------------------------------------------
(***************************************************************************)
(* What process_fill discards.  Besides the discarding branch of FillRecv  *)
(* nothing takes the head of a queue and leaves the task at its channel.   *)
(***************************************************************************)
Dropped(g) ==
  /\ fillTask[g].pc = "recv" /\ fillTask'[g].pc = "recv"
  /\ fillQ[g] # << >> /\ fillQ'[g] = Tail(fillQ[g])

LEMMA LengthChanges ==
  ASSUME NEW S, NEW s \in Seq(S), s # << >>
  PROVE  Tail(s) # s /\ \A x \in S : Append(s, x) # Tail(s)
<1>1. Len(Tail(s)) = Len(s) - 1 /\ Len(s) \in Nat
  OBVIOUS
<1>2. \A x \in S : Append(s, x) \in Seq(S) /\ Len(Append(s, x)) = Len(s) + 1
  OBVIOUS
<1>3. ASSUME Tail(s) = s PROVE FALSE
  <2>1. Len(Tail(s)) = Len(s)
    BY <1>3, Zenon
  <2> QED BY <1>1, <2>1
<1>4. ASSUME NEW x \in S, Append(s, x) = Tail(s) PROVE FALSE
  <2>1. Len(Append(s, x)) = Len(Tail(s))
    BY <1>4
  <2> QED BY <1>1, <1>2, <2>1
<1> QED BY <1>3, <1>4

LEMMA DroppedByRecv ==
  ASSUME TypeOK, [Next]_vars, NEW g \in Gens, Dropped(g)
  PROVE  AlreadyProcessed(Head(fillQ[g])) /\ Head(fillQ[g]) \in Execs
<1> USE DEF tasks, queues, repos
<1>1. /\ fillQ[g] \in Seq(Execs) /\ fillQ[g] # << >> /\ Head(fillQ[g]) \in Execs
      /\ fillQ'[g] # fillQ[g] /\ \A e \in Execs : fillQ'[g] # Append(fillQ[g], e)
  BY LengthChanges DEF TypeOK, Dropped
<1>2. ASSUME NEW h \in Gens, FillRecv(h), ~AlreadyProcessed(Head(fillQ[g])) PROVE FALSE
  <2>1. h = g
    BY <1>1, <1>2 DEF FillRecv, TypeOK
  <2>2. fillTask' = [fillTask EXCEPT ![g] = FillTask("save", Head(fillQ[g]), 0, NoOrder, NoPosition)]
    BY <1>2, <2>1 DEF FillRecv
  <2>3. fillTask'[g].pc = "save"
    BY <2>2 DEF TypeOK, FillTask
  <2> QED BY <2>3 DEF Dropped
<1>3. ASSUME NEW h \in Gens, FillStep(h), ~FillRecv(h) PROVE FALSE
  <2>1. fillQ' = fillQ
    BY <1>3 DEF FillStep, FillSave, FillGetOrder, FillPutOrder, FillGetPosition,
       FillPutPosition, FillAnnounce, FillPublish, FillMark
  <2> QED BY <1>1, <2>1
<1>4. ASSUME NEW h \in Gens, UpdateStep(h) \/ StartStep(h) \/ EndStep(h) PROVE FALSE
  <2>1. fillQ' = fillQ
    BY <1>4 DEF UpdateStep, UpdateRecv, UpdateGet, UpdatePut, UpdatePublish, StartStep, StartSwap,
       SubscribeFails, SubscribeOrders, SubscribeFillsAndSpawn, StoreOrderHandle, StoreFillHandle,
       EndStep, FillChannelEnds, OrderChannelEnds
  <2> QED BY <1>1, <2>1
<1>5. ASSUME StopStep PROVE FALSE
  <2>1. \/ fillQ' = fillQ
        \/ /\ fillTask' = [fillTask EXCEPT ![handles.fill] = IdleFill("down")]
           /\ fillQ' = [fillQ EXCEPT ![handles.fill] = << >>]
    BY <1>5 DEF StopStep, StopSwap, StopOrderTask, StopFillTask,
     EndStep, FillChannelEnds, OrderChannelEnds
  <2>2. CASE handles.fill = g /\ fillTask' = [fillTask EXCEPT ![handles.fill] = IdleFill("down")]
    <3>1. fillTask'[g].pc = "down"
      BY <2>2 DEF TypeOK, IdleFill, FillTask
    <3> QED BY <3>1 DEF Dropped
  <2>3. CASE handles.fill # g /\ fillQ' = [fillQ EXCEPT ![handles.fill] = << >>]
    BY <1>1, <2>3 DEF TypeOK
  <2> QED BY <1>1, <2>1, <2>2, <2>3
<1>6. ASSUME GatewayStep PROVE FALSE
  <2>1. fillQ'[g] = fillQ[g] \/ \E e \in Execs : fillQ'[g] = Append(fillQ[g], e)
    BY <1>6 DEF GatewayStep, GatewayFill, GatewayUpdate
  <2> QED BY <1>1, <2>1
<1>7. ~UNCHANGED vars
  BY <1>1 DEF vars
<1> QED BY <1>1, <1>2, <1>3, <1>4, <1>5, <1>6, <1>7 DEF Next

(* A fill is discarded only if one with its deduplication key was carried  *)
(* through to its event: by whichever generation, however the processed    *)
(* keys were trimmed.                                                      *)
DroppedByKey ==
  \A g \in Gens : Dropped(g) =>
    \E h \in Gens, f \in Execs :
      ExecKey[f] = ExecKey[Head(fillQ[g])] /\ filledEvents[h][f] > 0

THEOREM DroppedForAKey == Spec => [][DroppedByKey]_vars
<1>1. TypeOK /\ EffectsInv /\ [Next]_vars => DroppedByKey
  BY DroppedByRecv DEF DroppedByKey, AlreadyProcessed, EffectsInv, ProcessedOnlyAfterEffects
<1> QED BY <1>1, InitEffects, StepEffects, TypeCorrect, PTL DEF Spec
-----------------------------------------------------------------------------
(***************************************************************************)
(* stop() and what is left.  A live task is the one whose handle is stored *)
(* or is about to be, and no handle is overwritten: start() finds both     *)
(* empty, because running is cleared before the handles and start() waits  *)
(* for neither to be in use.                                               *)
(***************************************************************************)
InProgress(g) == startPc[g] \notin {"unused", "started", "failed"}

HandlesInv ==
  /\ \A g, h \in Gens : InProgress(g) /\ InProgress(h) => g = h
  /\ \A g \in Gens : InProgress(g) => running /\ stopPc = "idle" /\ handles.fill = 0
  /\ \A g \in Gens : startPc[g] \in {"subOrders", "subFills", "storeOrder"} => handles.order = 0
  /\ stopPc # "idle" => ~running
  /\ ~running /\ stopPc \in {"idle", "fill"} => handles.order = 0
  /\ ~running /\ stopPc = "idle" => handles.fill = 0
  /\ \A g \in Gens : orderTask[g].pc # "down" => handles.order = g \/ startPc[g] = "storeOrder"
  /\ \A g \in Gens : fillTask[g].pc # "down" =>
       handles.fill = g \/ startPc[g] \in {"storeOrder", "storeFill"}

(* A step of a task brings none to life.                                   *)
LEMMA TasksLive ==
  ASSUME TypeOK, NEW g \in Gens, FillStep(g) \/ UpdateStep(g) \/ EndStep(g)
  PROVE  /\ UNCHANGED control
         /\ \A h \in Gens : fillTask'[h].pc # "down" => fillTask[h].pc # "down"
         /\ \A h \in Gens : orderTask'[h].pc # "down" => orderTask[h].pc # "down"
<1> USE DEF tasks
<1>1. UNCHANGED control
  BY DEF FillStep, FillRecv, FillSave, FillGetOrder, FillPutOrder, FillGetPosition,
     FillPutPosition, FillAnnounce, FillPublish, FillMark, UpdateStep, UpdateRecv, UpdateGet,
     UpdatePut, UpdatePublish, EndStep, FillChannelEnds, OrderChannelEnds
<1>2. CASE FillStep(g)
  <2>1. fillTask[g].pc # "down" /\ UNCHANGED orderTask
    BY <1>2 DEF FillStep, FillRecv, FillSave, FillGetOrder, FillPutOrder, FillGetPosition,
       FillPutPosition, FillAnnounce, FillPublish, FillMark
  <2>2. fillTask' = fillTask \/ \E t : fillTask' = [fillTask EXCEPT ![g] = t]
    BY <1>2 DEF FillStep, FillRecv, FillSave, FillGetOrder, FillPutOrder, FillGetPosition,
       FillPutPosition, FillAnnounce, FillPublish, FillMark, FillGoto, FillFails
  <2> QED BY <1>1, <2>1, <2>2 DEF TypeOK
<1>3. CASE UpdateStep(g)
  <2>1. orderTask[g].pc # "down" /\ UNCHANGED fillTask
    BY <1>3 DEF UpdateStep, UpdateRecv, UpdateGet, UpdatePut, UpdatePublish
  <2>2. \E t : orderTask' = [orderTask EXCEPT ![g] = t]
    BY <1>3 DEF UpdateStep, UpdateRecv, UpdateGet, UpdatePut, UpdatePublish, UpdateGoto, UpdateFails
  <2> QED BY <1>1, <2>1, <2>2 DEF TypeOK
<1>4. CASE EndStep(g)
  <2>1. \/ UNCHANGED orderTask /\ fillTask' = [fillTask EXCEPT ![g] = IdleFill("down")]
        \/ UNCHANGED fillTask /\ orderTask' = [orderTask EXCEPT ![g] = IdleUpdate("down")]
    BY <1>4 DEF EndStep, FillChannelEnds, OrderChannelEnds
  <2>2. IdleFill("down").pc = "down" /\ IdleUpdate("down").pc = "down"
    BY DEF IdleFill, FillTask, IdleUpdate, OrderTask
  <2> QED BY <1>1, <2>1, <2>2 DEF TypeOK
<1> QED BY <1>2, <1>3, <1>4

LEMMA InitHandles == Init => HandlesInv
  BY DEF Init, HandlesInv, InProgress, IdleFill, FillTask, IdleUpdate, OrderTask

LEMMA StartHandles ==
  ASSUME SerialControl, TypeOK, HandlesInv, NEW g \in Gens, StartStep(g)
  PROVE  HandlesInv'
<1> USE DEF tasks, InProgress
<1>0. \A h \in Gens : h # 0
  BY ConstantsAssumption DEF Gens
<1>1. CASE StartSwap(g)
  <2>1. \A h \in Gens : ~InProgress(h)
    BY <1>1 DEF StartSwap, StartInProgress
  <2>2. /\ stopPc = "idle" /\ ~running /\ running' /\ UNCHANGED <<stopPc, handles, fillTask, orderTask>>
        /\ startPc' = [startPc EXCEPT ![g] = "subOrders"] /\ startPc[g] = "unused"
    BY <1>1 DEF StartSwap
  <2>3. \A h \in Gens : startPc'[h] = IF h = g THEN "subOrders" ELSE startPc[h]
    BY <2>2 DEF TypeOK
  <2> QED BY <2>1, <2>2, <2>3 DEF HandlesInv
<1>2. CASE SubscribeFails(g) \/ SubscribeOrders(g)
  <2>1. PICK pc \in {"subFills", "failed"} : startPc' = [startPc EXCEPT ![g] = pc]
    BY <1>2 DEF SubscribeFails, SubscribeOrders
  <2>2. /\ UNCHANGED <<running, stopPc, handles, fillTask, orderTask>>
        /\ startPc[g] \in {"subOrders", "subFills"}
    BY <1>2 DEF SubscribeFails, SubscribeOrders, Subscribing
  <2>3. \A h \in Gens : startPc'[h] = IF h = g THEN pc ELSE startPc[h]
    BY <2>1 DEF TypeOK
  <2> QED BY <2>2, <2>3 DEF HandlesInv
<1>3. CASE SubscribeFillsAndSpawn(g)
  <2>1. /\ UNCHANGED <<running, stopPc, handles>> /\ startPc[g] = "subFills"
        /\ startPc' = [startPc EXCEPT ![g] = "storeOrder"]
        /\ fillTask' = [fillTask EXCEPT ![g] = IdleFill("recv")]
        /\ orderTask' = [orderTask EXCEPT ![g] = IdleUpdate("recv")]
    BY <1>3 DEF SubscribeFillsAndSpawn
  <2>2. \A h \in Gens : /\ startPc'[h] = IF h = g THEN "storeOrder" ELSE startPc[h]
                        /\ h # g => fillTask'[h] = fillTask[h] /\ orderTask'[h] = orderTask[h]
    BY <2>1 DEF TypeOK
  <2> QED BY <2>1, <2>2 DEF HandlesInv
<1>4. CASE StoreOrderHandle(g)
  <2>1. /\ UNCHANGED <<running, stopPc, fillTask, orderTask>> /\ startPc[g] = "storeOrder"
        /\ startPc' = [startPc EXCEPT ![g] = "storeFill"]
        /\ handles' = [handles EXCEPT !.order = g]
    BY <1>4 DEF StoreOrderHandle
  <2>2. handles'.order = g /\ handles'.fill = handles.fill
    BY <2>1 DEF TypeOK
  <2>3. \A h \in Gens : startPc'[h] = IF h = g THEN "storeFill" ELSE startPc[h]
    BY <2>1 DEF TypeOK
  <2> HIDE DEF InProgress
  <2>4. \A h \in Gens : InProgress(h)' <=> InProgress(h)
    BY <2>1, <2>3 DEF InProgress
  <2>5. InProgress(g)
    BY <2>1 DEF InProgress
  <2>6. /\ \A h \in Gens : h # g => ~InProgress(h)
        /\ running /\ stopPc = "idle" /\ handles.fill = 0
    BY <2>5 DEF HandlesInv
  <2>7. \A h \in Gens : h # g => orderTask[h].pc = "down"
    BY <2>1, <2>6, <1>0 DEF HandlesInv, InProgress
  <2>8. \A h \in Gens : h # g => startPc[h] \notin {"subOrders", "subFills", "storeOrder", "storeFill"}
    BY <2>6 DEF InProgress
  <2> QED BY <1>0, <2>1, <2>2, <2>3, <2>4, <2>6, <2>7, <2>8 DEF HandlesInv
<1>5. CASE StoreFillHandle(g)
  <2>1. /\ UNCHANGED <<running, stopPc, fillTask, orderTask>> /\ startPc[g] = "storeFill"
        /\ startPc' = [startPc EXCEPT ![g] = "started"]
        /\ handles' = [handles EXCEPT !.fill = g]
    BY <1>5 DEF StoreFillHandle
  <2>2. handles'.order = handles.order /\ handles'.fill = g
    BY <2>1 DEF TypeOK
  <2>3. \A h \in Gens : startPc'[h] = IF h = g THEN "started" ELSE startPc[h]
    BY <2>1 DEF TypeOK
  <2>4. \A h \in Gens : h # g => startPc[h] \in {"unused", "started", "failed"}
    BY <2>1 DEF HandlesInv
  <2>5. \A h \in Gens : h # g => fillTask[h].pc = "down"
    BY <1>0, <2>1, <2>4 DEF HandlesInv
  <2>6. running /\ stopPc = "idle"
    BY <2>1 DEF HandlesInv
  <2> QED BY <1>0, <2>1, <2>2, <2>3, <2>4, <2>5, <2>6 DEF HandlesInv
<1> QED BY <1>1, <1>2, <1>3, <1>4, <1>5 DEF StartStep

LEMMA StopHandles ==
  ASSUME SerialControl, TypeOK, HandlesInv, StopStep
  PROVE  HandlesInv'
<1> USE DEF tasks
<1>0. \A g \in Gens : g # 0
  BY ConstantsAssumption DEF Gens
<1>1. CASE StopSwap
  <2>1. \A g \in Gens : ~InProgress(g)
    BY <1>1 DEF StopSwap, StartInProgress, InProgress
  <2>2. /\ stopPc' = "order" /\ ~running' /\ UNCHANGED <<startPc, handles, fillTask, orderTask>>
    BY <1>1 DEF StopSwap
  <2> QED BY <2>1, <2>2 DEF HandlesInv, InProgress
<1>2. ASSUME stopPc # "idle" PROVE \A g \in Gens : ~InProgress(g)
  BY <1>2 DEF HandlesInv
<1>3. CASE StopOrderTask
  <2>1. /\ stopPc = "order" /\ stopPc' = "fill" /\ UNCHANGED <<running, startPc, fillTask>>
        /\ \/ handles.order = 0 /\ UNCHANGED <<orderTask, handles>>
           \/ /\ orderTask' = [orderTask EXCEPT ![handles.order] = IdleUpdate("down")]
              /\ handles' = [handles EXCEPT !.order = 0]
    BY <1>3 DEF StopOrderTask
  <2>2. handles'.order = 0 /\ handles'.fill = handles.fill
    BY <2>1 DEF TypeOK
  <2>3. \A g \in Gens : orderTask'[g].pc # "down" =>
          orderTask[g].pc # "down" /\ g # handles.order
    BY <1>0, <2>1 DEF TypeOK, IdleUpdate, OrderTask
  <2>4. \A g \in Gens : ~InProgress(g) /\ ~InProgress(g)'
    BY <1>2, <2>1 DEF InProgress
  <2>5. \A g \in Gens : orderTask'[g].pc = "down"
    BY <2>3, <2>4 DEF HandlesInv, InProgress
  <2> QED BY <2>1, <2>2, <2>4, <2>5 DEF HandlesInv, InProgress
<1>4. CASE StopFillTask
  <2>1. /\ stopPc = "fill" /\ stopPc' = "idle" /\ UNCHANGED <<running, startPc, orderTask>>
        /\ \/ handles.fill = 0 /\ UNCHANGED <<fillTask, handles>>
           \/ /\ fillTask' = [fillTask EXCEPT ![handles.fill] = IdleFill("down")]
              /\ handles' = [handles EXCEPT !.fill = 0]
    BY <1>4 DEF StopFillTask
  <2>2. handles'.fill = 0 /\ handles'.order = handles.order
    BY <2>1 DEF TypeOK
  <2>3. \A g \in Gens : fillTask'[g].pc # "down" =>
          fillTask[g].pc # "down" /\ g # handles.fill
    BY <1>0, <2>1 DEF TypeOK, IdleFill, FillTask
  <2>4. \A g \in Gens : ~InProgress(g) /\ ~InProgress(g)'
    BY <1>2, <2>1 DEF InProgress
  <2>5. \A g \in Gens : fillTask'[g].pc = "down"
    BY <2>3, <2>4 DEF HandlesInv, InProgress
  <2> QED BY <2>1, <2>2, <2>4, <2>5 DEF HandlesInv, InProgress
<1> QED BY <1>1, <1>3, <1>4 DEF StopStep

LEMMA StepHandles ==
  ASSUME SerialControl
  PROVE  TypeOK /\ HandlesInv /\ [Next]_vars => HandlesInv'
<1> SUFFICES ASSUME TypeOK, HandlesInv, [Next]_vars PROVE HandlesInv'
  OBVIOUS
<1>1. ASSUME NEW g \in Gens, FillStep(g) \/ UpdateStep(g) \/ EndStep(g) PROVE HandlesInv'
  BY <1>1, TasksLive DEF HandlesInv, InProgress, control
<1>2. CASE GatewayStep \/ UNCHANGED vars
  <2>1. UNCHANGED <<tasks, control>>
    BY <1>2 DEF GatewayStep, GatewayFill, GatewayUpdate, vars
  <2> QED BY <2>1 DEF tasks, control, HandlesInv, InProgress
<1> QED BY <1>1, <1>2, StartHandles, StopHandles DEF Next

(* As long as start() and stop() are not called at once, no task survives  *)
(* stop(), whatever fails, in any number of generations and wherever the   *)
(* tasks are when they are aborted.                                        *)
THEOREM NoTaskLeft ==
  ASSUME SerialControl
  PROVE  Spec => []StopLeavesNoTask
<1>1. HandlesInv => StopLeavesNoTask
  <2> SUFFICES ASSUME HandlesInv, ~running, stopPc = "idle", ~StartInProgress, NEW g \in Gens
               PROVE  ~Alive(g)
    BY DEF StopLeavesNoTask
  <2>1. startPc[g] \in {"unused", "started", "failed"}
    BY DEF StartInProgress
  <2>2. g # 0
    BY ConstantsAssumption DEF Gens
  <2> QED BY <2>1, <2>2 DEF HandlesInv, Alive
<1> QED BY <1>1, InitHandles, StepHandles, TypeCorrect, PTL DEF Spec
-----------------------------------------------------------------------------
(***************************************************************************)
(* Who consumes fills.                                                     *)
(***************************************************************************)
Alone == SerialControl \/ MaxStarts = 1

(* While start() and stop() are called one after the other, or start() but *)
(* once, no two generations consume fills at a time.                       *)
LEMMA Consumers ==
  ASSUME Alone, SerialControl => HandlesInv
  PROVE  OneFillConsumer
<1>1. CASE MaxStarts = 1
  <2>1. \A g, h \in Gens : g = h
    BY <1>1 DEF Gens
  <2> QED BY <2>1 DEF OneFillConsumer
<1>2. CASE SerialControl
  <2> SUFFICES ASSUME NEW g \in Gens, NEW h \in Gens,
                      fillTask[g].pc # "down", fillTask[h].pc # "down"
               PROVE  g = h
    BY DEF OneFillConsumer
  <2>1. g # 0 /\ h # 0
    BY ConstantsAssumption DEF Gens
  <2>2. /\ handles.fill = g \/ InProgress(g)
        /\ handles.fill = h \/ InProgress(h)
    BY <1>2 DEF HandlesInv, InProgress
  <2>3. /\ InProgress(g) => handles.fill = 0
        /\ InProgress(h) => handles.fill = 0
        /\ InProgress(g) /\ InProgress(h) => g = h
    BY <1>2 DEF HandlesInv
  <2> QED BY <2>1, <2>2, <2>3
<1> QED BY <1>1, <1>2 DEF Alone

(* So every fill has one consumer, as long as nobody calls start() or      *)
(* stop() while another call of them is in progress.                       *)
THEOREM OneConsumer ==
  ASSUME Alone
  PROVE  Spec => []OneFillConsumer
<1> DEFINE Serial == SerialControl => HandlesInv
<1>1. Init => Serial
  BY InitHandles
<1>2. TypeOK /\ Serial /\ [Next]_vars => Serial'
  BY StepHandles
<1>3. Serial => OneFillConsumer
  BY Consumers
<1> HIDE DEF Serial
<1> QED BY <1>1, <1>2, <1>3, TypeCorrect, PTL DEF Spec

-----------------------------------------------------------------------------
(***************************************************************************)
(* What backs a filled quantity.  Tasks of any number of generations read, *)
(* change and write back orders over one another, so fills may be lost;    *)
(* none is made up.  A copy that a task holds was taken of an order that   *)
(* was backed, and what has been written only grows until it is put back.  *)
(***************************************************************************)
WritesOf(e) == [g \in Gens |-> orderWrites[g][e]]
Applied == [e \in Execs |-> ExecQty[e] * SumOver(WritesOf(e), Gens)]
ExecsOf(o) == {e \in Execs : ExecOrder[e] = o}
Written(o) == SumOver(Applied, ExecsOf(o))

(* Order c, stored or a copy, is filled by no more than what o came with,  *)
(* what was written to it and q, about to be written.                      *)
Backs(r, o, c, q) ==
  c # NoOrder => r[o] # NoOrder /\ c.filled <= r[o].filled + Written(o) + q

OrderBacked(r, o) == Backs(r, o, orders[o], 0)

FillBacked(r, g) ==
  fillTask[g].pc = "putOrder" =>
    Backs(r, ExecOrder[fillTask[g].exec], fillTask[g].order, ExecQty[fillTask[g].exec])

UpdateBacked(r, g) ==
  orderTask[g].pc = "put" => Backs(r, orderTask[g].update.order, orderTask[g].order, 0)

BackedInv(r) ==
  /\ \A o \in Orders : OrderBacked(r, o)
  /\ \A g \in Gens : FillBacked(r, g) /\ UpdateBacked(r, g)

LEMMA AppliedType ==
  ASSUME TypeOK
  PROVE  /\ IsFiniteSet(Gens)
         /\ \A e \in Execs : /\ ExecQty[e] \in Nat /\ SumOver(WritesOf(e), Gens) \in Nat
                             /\ Applied[e] \in Int
<1>1. IsFiniteSet(Gens)
  BY FS_Interval, ConstantsAssumption DEF Gens
<1>2. ASSUME NEW e \in Execs
      PROVE  /\ ExecQty[e] \in Nat /\ SumOver(WritesOf(e), Gens) \in Nat
             /\ Applied[e] \in Int
  <2>1. \A g \in Gens : WritesOf(e)[g] \in Nat
    BY <1>2 DEF TypeOK, Counters, WritesOf
  <2>2. SumOver(WritesOf(e), Gens) \in Nat
    BY <1>1, <2>1, SumType
  <2>3. ExecQty[e] \in Nat
    BY ConstantsAssumption
  <2>4. \A a, b \in Nat : a * b \in Int
    OBVIOUS
  <2>5. Applied[e] = ExecQty[e] * SumOver(WritesOf(e), Gens)
    BY <1>2 DEF Applied
  <2> QED BY <2>2, <2>3, <2>4, <2>5
<1> QED BY <1>1, <1>2

(* Where a step of a task leaves it.                                       *)
LEMMA FillGoes ==
  ASSUME TypeOK, NEW g \in Gens
  PROVE  /\ \A r \in BOOLEAN : FillFails(g, r) =>
              /\ fillTask'[g].pc # "putOrder"
              /\ \A h \in Gens : h # g => fillTask'[h] = fillTask[h]
         /\ \A pc, o, p : FillGoto(g, pc, o, p) =>
              /\ fillTask'[g] = FillTask(pc, fillTask[g].exec, fillTask[g].tries, o, p)
              /\ \A h \in Gens : h # g => fillTask'[h] = fillTask[h]
<1>1. fillTask \in [Gens -> FillTaskRecord]
  BY DEF TypeOK
<1>2. Retried(g).pc = "save" /\ IdleFill("recv").pc = "recv"
  BY DEF Retried, IdleFill, FillTask
<1>3. ASSUME NEW r \in BOOLEAN, FillFails(g, r)
      PROVE  /\ fillTask'[g].pc # "putOrder"
             /\ \A h \in Gens : h # g => fillTask'[h] = fillTask[h]
  <2>1. PICK t \in {Retried(g), IdleFill("recv")} : fillTask' = [fillTask EXCEPT ![g] = t]
    BY <1>3 DEF FillFails
  <2> QED BY <1>1, <1>2, <2>1
<1>4. ASSUME NEW pc, NEW o, NEW p, FillGoto(g, pc, o, p)
      PROVE  /\ fillTask'[g] = FillTask(pc, fillTask[g].exec, fillTask[g].tries, o, p)
             /\ \A h \in Gens : h # g => fillTask'[h] = fillTask[h]
  <2> DEFINE t == FillTask(pc, fillTask[g].exec, fillTask[g].tries, o, p)
  <2>1. fillTask' = [fillTask EXCEPT ![g] = t]
    BY <1>4 DEF FillGoto
  <2> HIDE DEF t
  <2>2. fillTask'[g] = t /\ \A h \in Gens : h # g => fillTask'[h] = fillTask[h]
    BY <1>1, <2>1
  <2> QED BY <2>2 DEF t
<1> QED BY <1>3, <1>4

(* One more write of a fill: the sums that it is in grow by its quantity.  *)
LEMMA WriteCounts ==
  ASSUME TypeOK, TypeOK', IsFiniteSet(Execs), NEW g \in Gens, NEW e \in Execs,
         orderWrites' = [orderWrites EXCEPT ![g][e] = @ + 1]
  PROVE  \A o \in Orders : SumOver(Applied', ExecsOf(o)) =
           SumOver(Applied, ExecsOf(o)) + IF ExecOrder[e] = o THEN ExecQty[e] ELSE 0
<1>1. PICK old, new : old = WritesOf(e) /\ new = WritesOf(e)'
  OBVIOUS
<1>2. \A h \in Gens : old[h] \in Int /\ new[h] \in Int
  BY <1>1 DEF TypeOK, Counters, WritesOf
<1>3. (\A h \in Gens \ {g} : new[h] = old[h]) /\ new[g] = old[g] + 1
  BY <1>1 DEF TypeOK, Counters, WritesOf
<1>4. SumOver(new, Gens) = SumOver(old, Gens) + 1
  <2>1. SumOver(new, Gens) = SumOver(old, Gens) + (new[g] - old[g])
    BY <1>2, <1>3, AppliedType, SumChange
  <2>2. SumOver(old, Gens) \in Nat /\ new[g] - old[g] = 1
    BY <1>1, <1>2, <1>3, AppliedType
  <2> QED BY <2>1, <2>2
<1>5. PICK f, k : f = Applied /\ k = Applied'
  OBVIOUS
<1>6. k[e] = f[e] + ExecQty[e] /\ f[e] \in Int /\ ExecQty[e] \in Nat
  <2>1. f[e] = ExecQty[e] * SumOver(old, Gens) /\ k[e] = ExecQty[e] * SumOver(new, Gens)
    BY <1>1, <1>5 DEF Applied
  <2>2. ExecQty[e] \in Nat /\ SumOver(old, Gens) \in Nat /\ f[e] \in Int
    BY <1>1, <1>5, AppliedType
  <2>3. \A a, b \in Nat : a * (b + 1) = a * b + a
    OBVIOUS
  <2> QED BY <1>4, <2>1, <2>2, <2>3
<1>7. \A d \in Execs \ {e} : k[d] = f[d]
  <2> SUFFICES ASSUME NEW d \in Execs, d # e PROVE k[d] = f[d]
    OBVIOUS
  <2>1. \A h \in Gens : orderWrites'[h][d] = orderWrites[h][d]
    BY DEF TypeOK, Counters
  <2>2. WritesOf(d)' = WritesOf(d)
    BY <2>1 DEF WritesOf
  <2> QED BY <1>5, <2>2 DEF Applied
<1>8. \A d \in Execs : f[d] \in Int /\ k[d] \in Int
  <2>1. \A d \in Execs : f[d] \in Int
    BY <1>5, AppliedType
  <2> QED BY <1>6, <1>7, <2>1
<1> SUFFICES ASSUME NEW o \in Orders
             PROVE  SumOver(k, ExecsOf(o)) =
                      SumOver(f, ExecsOf(o)) + IF ExecOrder[e] = o THEN ExecQty[e] ELSE 0
  BY <1>5
<1> DEFINE s == ExecsOf(o)
<1>9. IsFiniteSet(s) /\ s \subseteq Execs /\ (e \in s <=> ExecOrder[e] = o)
  BY FS_Subset DEF ExecsOf
<1> HIDE DEF s
<1>10. SumOver(f, s) \in Int
  BY <1>8, <1>9, SumType
<1>11. CASE e \in s
  <2>1. SumOver(k, s) = SumOver(f, s) + (k[e] - f[e])
    <3>1. (\A d \in s : f[d] \in Int /\ k[d] \in Int) /\ \A d \in s \ {e} : k[d] = f[d]
      BY <1>7, <1>8, <1>9
    <3> QED BY <1>9, <1>11, <3>1, SumChange
  <2> QED BY <1>6, <1>9, <1>11, <2>1 DEF s
<1>12. CASE e \notin s
  <2>1. \A d \in s : k[d] = f[d]
    BY <1>7, <1>9, <1>12
  <2>2. SumOver(f, s) = SumOver(k, s)
    BY <1>9, <2>1, SumSame
  <2> QED BY <1>9, <1>10, <1>12, <2>2 DEF s
<1> QED BY <1>11, <1>12

LEMMA UpdateGoes ==
  ASSUME TypeOK, NEW g \in Gens
  PROVE  /\ \A r \in BOOLEAN : UpdateFails(g, r) =>
              /\ orderTask'[g].pc # "put"
              /\ \A h \in Gens : h # g => orderTask'[h] = orderTask[h]
         /\ \A pc, o : UpdateGoto(g, pc, o) =>
              /\ orderTask'[g] = OrderTask(pc, orderTask[g].update, orderTask[g].tries, o)
              /\ \A h \in Gens : h # g => orderTask'[h] = orderTask[h]
<1>1. orderTask \in [Gens -> OrderTaskRecord]
  BY DEF TypeOK
<1>2. ASSUME NEW r \in BOOLEAN, UpdateFails(g, r)
      PROVE  /\ orderTask'[g].pc # "put"
             /\ \A h \in Gens : h # g => orderTask'[h] = orderTask[h]
  <2> DEFINE again == OrderTask("get", orderTask[g].update, orderTask[g].tries + 1, NoOrder)
             idle == IdleUpdate("recv")
  <2>1. again.pc = "get" /\ idle.pc = "recv"
    BY DEF IdleUpdate, OrderTask
  <2>2. PICK t \in {again, idle} : orderTask' = [orderTask EXCEPT ![g] = t]
    BY <1>2 DEF UpdateFails
  <2> HIDE DEF again, idle
  <2> QED BY <1>1, <2>1, <2>2
<1>3. ASSUME NEW pc, NEW o, UpdateGoto(g, pc, o)
      PROVE  /\ orderTask'[g] = OrderTask(pc, orderTask[g].update, orderTask[g].tries, o)
             /\ \A h \in Gens : h # g => orderTask'[h] = orderTask[h]
  <2> DEFINE t == OrderTask(pc, orderTask[g].update, orderTask[g].tries, o)
  <2>1. orderTask' = [orderTask EXCEPT ![g] = t]
    BY <1>3 DEF UpdateGoto
  <2> HIDE DEF t
  <2>2. orderTask'[g] = t /\ \A h \in Gens : h # g => orderTask'[h] = orderTask[h]
    BY <1>1, <2>1
  <2> QED BY <2>2 DEF t
<1> QED BY <1>2, <1>3

(* What was written to an order is a number.                               *)
LEMMA WrittenType ==
  ASSUME TypeOK, IsFiniteSet(Execs), NEW o \in Orders
  PROVE  Written(o) \in Int
<1>1. IsFiniteSet(ExecsOf(o)) /\ \A e \in ExecsOf(o) : Applied[e] \in Int
  BY FS_Subset, AppliedType DEF ExecsOf
<1> QED BY <1>1, SumType DEF Written

(* A step that takes nothing back of what was written: what is not changed *)
(* stays backed, so what is stored or taken up has to be.                  *)
LEMMA BackedKept ==
  ASSUME TypeOK, TypeOK', NEW r \in InitOrders, BackedInv(r),
         \A o \in Orders : Written(o) \in Int /\ Written(o)' \in Int /\ Written(o) <= Written(o)',
         \A o \in Orders : orders'[o] = orders[o] \/ OrderBacked(r, o)',
         \A h \in Gens : fillTask'[h] = fillTask[h] \/ FillBacked(r, h)',
         \A h \in Gens : orderTask'[h] = orderTask[h] \/ UpdateBacked(r, h)'
  PROVE  BackedInv(r)'
<1>1. ASSUME NEW o \in Orders, NEW c \in Order \cup {NoOrder}, NEW q \in Nat, Backs(r, o, c, q)
      PROVE  c # NoOrder => r[o] # NoOrder /\ c.filled <= r[o].filled + Written(o)' + q
  <2> SUFFICES ASSUME c # NoOrder
               PROVE  r[o] # NoOrder /\ c.filled <= r[o].filled + Written(o)' + q
    OBVIOUS
  <2>1. r[o] # NoOrder /\ c.filled <= r[o].filled + Written(o) + q
    BY <1>1 DEF Backs
  <2>2. r[o] \in Order
    BY <2>1, ConstantsAssumption
  <2>3. PICK w, x : w = Written(o) /\ x = Written(o)' /\ w \in Int /\ x \in Int /\ w <= x
    OBVIOUS
  <2>4. c.filled \in Nat /\ r[o].filled \in Nat
    BY <2>2 DEF Order
  <2>5. c.filled <= r[o].filled + x + q
    BY <2>1, <2>3, <2>4
  <2> QED BY <2>1, <2>3, <2>5
<1>2. ASSUME NEW o \in Orders PROVE OrderBacked(r, o)'
  <2>1. orders[o] \in Order \cup {NoOrder} /\ Backs(r, o, orders[o], 0)
    BY DEF TypeOK, BackedInv, OrderBacked
  <2>2. CASE orders'[o] = orders[o]
    BY <1>1, <2>1, <2>2 DEF OrderBacked, Backs
  <2> QED BY <2>2
<1>3. ASSUME NEW h \in Gens PROVE FillBacked(r, h)'
  <2> SUFFICES ASSUME fillTask'[h] = fillTask[h], fillTask[h].pc = "putOrder" PROVE FillBacked(r, h)'
    BY DEF FillBacked
  <2>1. /\ fillTask[h].order \in Order \cup {NoOrder}
        /\ ExecOrder[fillTask[h].exec] \in Orders /\ ExecQty[fillTask[h].exec] \in Nat
    BY ConstantsAssumption DEF TypeOK, FillTaskRecord
  <2>2. Backs(r, ExecOrder[fillTask[h].exec], fillTask[h].order, ExecQty[fillTask[h].exec])
    BY DEF BackedInv, FillBacked
  <2> QED BY <1>1, <2>1, <2>2 DEF FillBacked, Backs
<1>4. ASSUME NEW h \in Gens PROVE UpdateBacked(r, h)'
  <2> SUFFICES ASSUME orderTask'[h] = orderTask[h], orderTask[h].pc = "put" PROVE UpdateBacked(r, h)'
    <3>1. CASE orderTask'[h].pc # "put"
      BY <3>1 DEF UpdateBacked
    <3>2. CASE orderTask'[h] # orderTask[h]
      BY <3>2
    <3> QED BY <3>1, <3>2
  <2>1. orderTask[h].order \in Order \cup {NoOrder} /\ orderTask[h].update.order \in Orders
    <3>1. orderTask[h] \in OrderTaskRecord
      BY DEF TypeOK
    <3>2. orderTask[h].order \in Order \cup {NoOrder} /\ orderTask[h].update \in Updates
      BY <3>1 DEF OrderTaskRecord
    <3> QED BY <3>2, ConstantsAssumption DEF Update
  <2>2. Backs(r, orderTask[h].update.order, orderTask[h].order, 0)
    BY DEF BackedInv, UpdateBacked
  <2> QED BY <1>1, <2>1, <2>2 DEF UpdateBacked, Backs
<1> QED BY <1>2, <1>3, <1>4 DEF BackedInv

(* The fill task puts back a copy with the fill, and that is now counted.  *)
LEMMA PutBacked ==
  ASSUME TypeOK, TypeOK', IsFiniteSet(Execs), NEW r \in InitOrders, BackedInv(r),
         NEW g \in Gens, FillPutOrder(g)
  PROVE  BackedInv(r)'
<1>0. /\ fillTask[g].pc = "putOrder" /\ fillTask[g].exec \in Execs
      /\ ExecOrder[fillTask[g].exec] \in Orders /\ fillTask[g].order \in Order \cup {NoOrder}
  BY FillMoves, ConstantsAssumption DEF FillPutOrder, TypeOK, FillTaskRecord
<1> PICK e \in Execs, o \in Orders, c \in Order \cup {NoOrder} :
      e = fillTask[g].exec /\ o = ExecOrder[e] /\ c = fillTask[g].order
  BY <1>0
<1>1. ExecQty[e] \in Nat
  BY ConstantsAssumption
<1>2. Backs(r, o, c, ExecQty[e])
  BY <1>0 DEF BackedInv, FillBacked
<1>3. /\ (\E b \in BOOLEAN : FillFails(g, b)) \/ (\E p : FillGoto(g, "getPosition", NoOrder, p))
      /\ \/ UNCHANGED <<orders, orderWrites>>
         \/ /\ orders' = [orders EXCEPT ![o] = c]
            /\ orderWrites' = [orderWrites EXCEPT ![g][e] = @ + 1]
      /\ UNCHANGED orderTask
  BY DEF FillPutOrder
<1>4. \A h \in Gens : fillTask'[h] = fillTask[h] \/ FillBacked(r, h)'
  <2>1. \A p : FillTask("getPosition", fillTask[g].exec, fillTask[g].tries, NoOrder, p).pc
                 = "getPosition"
    BY DEF FillTask
  <2>2. fillTask'[g].pc # "putOrder" /\ \A h \in Gens : h # g => fillTask'[h] = fillTask[h]
    BY <1>3, <2>1, FillGoes
  <2> QED BY <2>2 DEF FillBacked
<1>5. \A d \in Orders : Written(d) \in Int
  BY WrittenType
<1>6. CASE UNCHANGED <<orders, orderWrites>>
  <2>1. \A d \in Orders : Written(d)' = Written(d)
    BY <1>6 DEF Written, Applied, WritesOf, ExecsOf
  <2>2. \A d \in Orders : Written(d) \in Int /\ Written(d)' \in Int /\ Written(d) <= Written(d)'
    BY <1>5, <2>1
  <2> QED BY <1>3, <1>4, <1>6, <2>2, BackedKept
<1>7. CASE /\ orders' = [orders EXCEPT ![o] = c]
           /\ orderWrites' = [orderWrites EXCEPT ![g][e] = @ + 1]
  <2>1. \A d \in Orders : Written(d)' = Written(d) + IF o = d THEN ExecQty[e] ELSE 0
    <3>1. \A d \in Orders : SumOver(Applied', ExecsOf(d)) =
             SumOver(Applied, ExecsOf(d)) + IF ExecOrder[e] = d THEN ExecQty[e] ELSE 0
      BY <1>7, WriteCounts
    <3>2. \A d \in Orders : ExecsOf(d)' = ExecsOf(d)
      BY DEF ExecsOf
    <3> QED BY <3>1, <3>2 DEF Written
  <2>2. \A d \in Orders : orders'[d] = IF d = o THEN c ELSE orders[d]
    BY <1>7 DEF TypeOK
  <2>3. \A d \in Orders : Written(d) \in Int /\ Written(d)' \in Int /\ Written(d) <= Written(d)'
    BY <1>1, <1>5, <2>1
  <2>4. OrderBacked(r, o)'
    <3>1. c # NoOrder => r[o] # NoOrder /\ c.filled <= r[o].filled + Written(o) + ExecQty[e]
      BY <1>2 DEF Backs
    <3>2. Written(o)' = Written(o) + ExecQty[e] /\ Written(o) \in Int /\ ExecQty[e] \in Nat
      BY <1>1, <1>5, <2>1
    <3>3. orders'[o] = c
      BY <1>1, <2>2
    <3>4. r[o] # NoOrder => r[o].filled \in Nat
      BY <1>1, ConstantsAssumption DEF Order
    <3>5. PICK w, x : w = Written(o) /\ x = Written(o)' /\ x = w + ExecQty[e] /\ w \in Int
      BY <3>2
    <3>6. c # NoOrder => c.filled \in Nat
      BY DEF Order
    <3>7. c # NoOrder => r[o] # NoOrder /\ c.filled <= r[o].filled + x + 0
      BY <3>1, <3>2, <3>4, <3>5, <3>6
    <3> QED BY <3>3, <3>5, <3>7 DEF OrderBacked, Backs
  <2>5. \A d \in Orders : orders'[d] = orders[d] \/ OrderBacked(r, d)'
    BY <2>2, <2>4
  <2> QED BY <1>3, <1>4, <2>3, <2>5, BackedKept
<1> QED BY <1>3, <1>6, <1>7

(* Decoding an order does not add to what it is filled with.               *)
LEMMA DecodedLess ==
  ASSUME NEW c \in Order
  PROVE  Decoded(c).filled \in Nat /\ Decoded(c).filled <= c.filled
  BY DEF Decoded, OrderNewWithId, Order

(* A step of a task that leaves the orders alone.                          *)
LEMMA UnwrittenBacked ==
  ASSUME TypeOK, TypeOK', IsFiniteSet(Execs), NEW r \in InitOrders, BackedInv(r),
         UNCHANGED <<orders, orderWrites>>,
         \A h \in Gens : fillTask'[h] = fillTask[h] \/ FillBacked(r, h)',
         \A h \in Gens : orderTask'[h] = orderTask[h] \/ UpdateBacked(r, h)'
  PROVE  BackedInv(r)'
<1>1. \A d \in Orders : Written(d)' = Written(d)
  BY DEF Written, Applied, WritesOf, ExecsOf
<1>2. \A d \in Orders : Written(d) \in Int /\ Written(d)' \in Int /\ Written(d) <= Written(d)'
  BY <1>1, WrittenType
<1> QED BY <1>2, BackedKept

(* A copy of a stored order, with q more, is filled by no more than that.  *)
LEMMA TakenBacked ==
  ASSUME TypeOK, IsFiniteSet(Execs), NEW r \in InitOrders, BackedInv(r),
         UNCHANGED orderWrites, NEW o \in Orders, orders[o] \in Order, NEW q \in Nat, NEW f,
         f = Decoded(orders[o]).filled + q
  PROVE  r[o] # NoOrder /\ f <= r[o].filled + Written(o)' + q
<1>1. Decoded(orders[o]).filled \in Nat /\ Decoded(orders[o]).filled <= orders[o].filled
  BY DecodedLess
<1>2. r[o] # NoOrder /\ orders[o].filled <= r[o].filled + Written(o) + 0
  BY ConstantsAssumption DEF BackedInv, OrderBacked, Backs
<1>3. r[o] \in Order
  BY <1>2, ConstantsAssumption
<1>4. Written(o) \in Int
  BY WrittenType
<1>5. Written(o)' = Written(o)
  BY DEF Written, Applied, WritesOf, ExecsOf
<1>6. PICK w, x, y : w = Written(o) /\ x = orders[o].filled /\ y = Decoded(orders[o]).filled
  OBVIOUS
<1>7. PICK z : z = r[o].filled
  OBVIOUS
<1>8. x \in Nat /\ z \in Nat /\ w \in Int /\ y \in Nat /\ y <= x /\ x <= z + w + 0 /\ f = y + q
  BY <1>1, <1>2, <1>3, <1>4, <1>6, <1>7 DEF Order
<1>9. f <= z + w + q
  BY <1>8
<1> QED BY <1>2, <1>5, <1>6, <1>7, <1>9

(* The other steps of a fill task: one takes a copy of what is stored.     *)
LEMMA FillsBacked ==
  ASSUME TypeOK, TypeOK', IsFiniteSet(Execs), NEW r \in InitOrders, BackedInv(r),
         NEW g \in Gens, FillStep(g), ~FillPutOrder(g)
  PROVE  BackedInv(r)'
<1>1. fillTask \in [Gens -> FillTaskRecord]
  BY DEF TypeOK
<1>2. UNCHANGED <<orders, orderWrites, orderTask>>
  BY DEF FillStep, FillRecv, FillSave, FillGetOrder, FillGetPosition, FillPutPosition,
     FillAnnounce, FillPublish, FillMark, repos, effects
<1>3. CASE FillRecv(g) \/ FillMark(g)
  <2> DEFINE taken == FillTask("save", Head(fillQ[g]), 0, NoOrder, NoPosition)
             idle == IdleFill("recv")
  <2>1. taken.pc = "save" /\ idle.pc = "recv"
    BY DEF IdleFill, FillTask
  <2>2. fillTask' \in {fillTask, [fillTask EXCEPT ![g] = taken], [fillTask EXCEPT ![g] = idle]}
    BY <1>3 DEF FillRecv, FillMark
  <2> HIDE DEF taken, idle
  <2>3. \A h \in Gens : fillTask'[h] = fillTask[h] \/ fillTask'[h].pc # "putOrder"
    BY <1>1, <2>1, <2>2
  <2>4. \A h \in Gens : fillTask'[h] = fillTask[h] \/ FillBacked(r, h)'
    BY <2>3 DEF FillBacked
  <2> QED BY <1>2, <2>4, UnwrittenBacked
<1>4. CASE FillSave(g) \/ FillGetPosition(g) \/ FillPutPosition(g) \/ FillAnnounce(g)
           \/ FillPublish(g)
  <2>1. \/ \E b \in BOOLEAN : FillFails(g, b)
        \/ \E pc \in {"getOrder", "putPosition", "announce", "publish", "mark"} :
             \E o, p : FillGoto(g, pc, o, p)
    BY <1>4 DEF FillSave, FillGetPosition, FillPutPosition, FillAnnounce, FillPublish
  <2>2. \A pc, x, n, o, p : FillTask(pc, x, n, o, p).pc = pc
    BY DEF FillTask
  <2>3. fillTask'[g].pc # "putOrder" /\ \A h \in Gens : h # g => fillTask'[h] = fillTask[h]
    BY <2>1, <2>2, FillGoes
  <2>4. \A h \in Gens : fillTask'[h] = fillTask[h] \/ FillBacked(r, h)'
    BY <2>3 DEF FillBacked
  <2> QED BY <1>2, <2>4, UnwrittenBacked
<1>5. CASE FillGetOrder(g)
  <2>0. fillTask[g].exec \in Execs /\ ExecOrder[fillTask[g].exec] \in Orders
    BY <1>5, FillMoves, ConstantsAssumption DEF FillGetOrder
  <2> PICK e \in Execs, o \in Orders : e = fillTask[g].exec /\ o = ExecOrder[e]
    BY <2>0
  <2>1. CASE \E b \in BOOLEAN : FillFails(g, b)
    <3>1. fillTask'[g].pc # "putOrder" /\ \A h \in Gens : h # g => fillTask'[h] = fillTask[h]
      BY <2>1, FillGoes
    <3>2. \A h \in Gens : fillTask'[h] = fillTask[h] \/ FillBacked(r, h)'
      BY <3>1 DEF FillBacked
    <3> QED BY <1>2, <3>2, UnwrittenBacked
  <2>2. CASE /\ orders[o] # NoOrder
             /\ FillGoto(g, "putOrder", FillOrder(Decoded(orders[o]), ExecQty[e]), NoPosition)
    <3>1. orders[o] \in Order
      BY <2>2 DEF TypeOK
    <3>2. PICK c : c = FillOrder(Decoded(orders[o]), ExecQty[e])
      OBVIOUS
    <3>3. c.filled = Decoded(orders[o]).filled + ExecQty[e]
      BY <3>2 DEF FillOrder
    <3>4. /\ fillTask'[g] = FillTask("putOrder", e, fillTask[g].tries, c, NoPosition)
          /\ \A h \in Gens : h # g => fillTask'[h] = fillTask[h]
      BY <2>2, <3>2, FillGoes
    <3>5. fillTask'[g].exec = e /\ fillTask'[g].order = c
      BY <3>4 DEF FillTask
    <3>6. r[o] # NoOrder /\ c.filled <= r[o].filled + Written(o)' + ExecQty[e]
      <4>1. ExecQty[e] \in Nat
        BY ConstantsAssumption
      <4> QED BY <1>2, <3>1, <3>3, <4>1, TakenBacked
    <3>7. FillBacked(r, g)'
      BY <3>5, <3>6 DEF FillBacked, Backs
    <3> QED BY <1>2, <3>4, <3>7, UnwrittenBacked
  <2> QED BY <1>5, <2>1, <2>2 DEF FillGetOrder
<1> QED BY <1>3, <1>4, <1>5 DEF FillStep

(* The update task adds nothing to what an order is filled with.           *)
LEMMA UpdatesBacked ==
  ASSUME TypeOK, TypeOK', IsFiniteSet(Execs), NEW r \in InitOrders, BackedInv(r),
         NEW g \in Gens, UpdateStep(g)
  PROVE  BackedInv(r)'
<1>1. orderTask \in [Gens -> OrderTaskRecord]
  BY DEF TypeOK
<1>2. UNCHANGED <<orderWrites, fillTask>>
  BY DEF UpdateStep, UpdateRecv, UpdateGet, UpdatePut, UpdatePublish, effects
<1>3. CASE UpdateRecv(g) \/ UpdatePublish(g)
  <2> DEFINE taken == OrderTask("get", Head(orderQ[g]), 0, NoOrder)
             idle == IdleUpdate("recv")
  <2>1. taken.pc = "get" /\ idle.pc = "recv"
    BY DEF IdleUpdate, OrderTask
  <2>2. UNCHANGED orders /\ orderTask' \in {[orderTask EXCEPT ![g] = taken], [orderTask EXCEPT ![g] = idle]}
    BY <1>3 DEF UpdateRecv, UpdatePublish, repos
  <2> HIDE DEF taken, idle
  <2>3. \A h \in Gens : orderTask'[h] = orderTask[h] \/ orderTask'[h].pc # "put"
    BY <1>1, <2>1, <2>2
  <2>4. \A h \in Gens : orderTask'[h] = orderTask[h] \/ UpdateBacked(r, h)'
    BY <2>3 DEF UpdateBacked
  <2> QED BY <1>2, <2>2, <2>4, UnwrittenBacked
<1>4. CASE UpdateGet(g)
  <2>0. /\ orderTask[g].update \in Updates /\ orderTask[g].update.order \in Orders
        /\ UNCHANGED orders
    BY <1>4, UpdateMoves, ConstantsAssumption DEF UpdateGet, Update, repos
  <2> PICK u \in Updates, o \in Orders : u = orderTask[g].update /\ o = u.order
    BY <2>0
  <2>1. CASE \E b \in BOOLEAN : UpdateFails(g, b)
    <3>1. orderTask'[g].pc # "put" /\ \A h \in Gens : h # g => orderTask'[h] = orderTask[h]
      BY <2>1, UpdateGoes
    <3>2. \A h \in Gens : orderTask'[h] = orderTask[h] \/ UpdateBacked(r, h)'
      BY <3>1 DEF UpdateBacked
    <3> QED BY <1>2, <2>0, <3>2, UnwrittenBacked
  <2>2. CASE /\ orders[o] # NoOrder
             /\ UpdateGoto(g, "put", UpdateStatus(Decoded(orders[o]), u.status))
    <3>1. orders[o] \in Order
      BY <2>2 DEF TypeOK
    <3>2. PICK c : c = UpdateStatus(Decoded(orders[o]), u.status)
      OBVIOUS
    <3>3. c.filled = Decoded(orders[o]).filled + 0
      <4>1. Decoded(orders[o]) \in Order
        BY <3>1, OrderOps DEF Order, Decoded, OrderNewWithId, OrderStatus
      <4> QED BY <3>2, <4>1 DEF UpdateStatus, Order
    <3>4. /\ orderTask'[g] = OrderTask("put", u, orderTask[g].tries, c)
          /\ \A h \in Gens : h # g => orderTask'[h] = orderTask[h]
      BY <2>2, <3>2, UpdateGoes
    <3>5. orderTask'[g].update = u /\ orderTask'[g].order = c
      BY <3>4 DEF OrderTask
    <3>6. r[o] # NoOrder /\ c.filled <= r[o].filled + Written(o)' + 0
      BY <1>2, <3>1, <3>3, TakenBacked
    <3>7. UpdateBacked(r, g)'
      BY <3>5, <3>6 DEF UpdateBacked, Backs
    <3> QED BY <1>2, <2>0, <3>4, <3>7, UnwrittenBacked
  <2> QED BY <1>4, <2>1, <2>2 DEF UpdateGet
<1>5. CASE UpdatePut(g)
  <2>0. /\ orderTask[g].pc = "put" /\ orderTask[g].update.order \in Orders
        /\ orderTask[g].order \in Order \cup {NoOrder}
    <3>1. orderTask[g].pc = "put" /\ orderTask[g].update \in Updates
      BY <1>5, UpdateMoves DEF UpdatePut
    <3>2. orderTask[g].order \in Order \cup {NoOrder}
      BY <1>1 DEF OrderTaskRecord
    <3> QED BY <3>1, <3>2, ConstantsAssumption DEF Update
  <2> PICK o \in Orders, c \in Order \cup {NoOrder} :
        o = orderTask[g].update.order /\ c = orderTask[g].order
    BY <2>0
  <2>1. Backs(r, o, c, 0)
    BY <2>0 DEF BackedInv, UpdateBacked
  <2>2. /\ (\E b \in BOOLEAN : UpdateFails(g, b)) \/ UpdateGoto(g, "publish", NoOrder)
        /\ orders' \in {orders, [orders EXCEPT ![o] = c]}
    BY <1>5 DEF UpdatePut
  <2>3. \A h \in Gens : orderTask'[h] = orderTask[h] \/ UpdateBacked(r, h)'
    <3>1. \A u, n : OrderTask("publish", u, n, NoOrder).pc = "publish"
      BY DEF OrderTask
    <3>2. orderTask'[g].pc # "put" /\ \A h \in Gens : h # g => orderTask'[h] = orderTask[h]
      BY <2>2, <3>1, UpdateGoes
    <3> QED BY <3>2 DEF UpdateBacked
  <2>4. \A d \in Orders : Written(d)' = Written(d)
    BY <1>2 DEF Written, Applied, WritesOf, ExecsOf
  <2>5. \A d \in Orders : orders'[d] = orders[d] \/ OrderBacked(r, d)'
    <3>1. \A d \in Orders : orders'[d] = orders[d] \/ (d = o /\ orders'[d] = c)
      BY <2>2 DEF TypeOK
    <3> SUFFICES ASSUME orders'[o] = c PROVE OrderBacked(r, o)'
      BY <3>1
    <3> QED BY <2>1, <2>4 DEF OrderBacked, Backs
  <2>6. \A d \in Orders : Written(d) \in Int /\ Written(d)' \in Int /\ Written(d) <= Written(d)'
    BY <2>4, WrittenType
  <2> QED BY <1>2, <2>3, <2>5, <2>6, BackedKept
<1> QED BY <1>3, <1>4, <1>5 DEF UpdateStep

LEMMA ControlBacked ==
  ASSUME TypeOK, TypeOK', IsFiniteSet(Execs), NEW r \in InitOrders, BackedInv(r),
         (\E g \in Gens : StartStep(g) \/ EndStep(g)) \/ StopStep \/ GatewayStep \/ UNCHANGED vars
  PROVE  BackedInv(r)'
<1>1. UNCHANGED <<orders, orderWrites>>
  BY DEF StartStep, StartSwap, SubscribeFails, SubscribeOrders, SubscribeFillsAndSpawn,
     StoreOrderHandle, StoreFillHandle, StopStep, StopSwap, StopOrderTask, StopFillTask,
     EndStep, FillChannelEnds, OrderChannelEnds, GatewayStep, GatewayFill, GatewayUpdate, vars,
     repos, effects
<1>2. \/ UNCHANGED fillTask
      \/ \E pc \in {"recv", "down"} :
           \E h : fillTask' = [fillTask EXCEPT ![h] = IdleFill(pc)]
  BY DEF StartStep, StartSwap, SubscribeFails, SubscribeOrders, SubscribeFillsAndSpawn,
     StoreOrderHandle, StoreFillHandle, StopStep, StopSwap, StopOrderTask, StopFillTask,
     EndStep, FillChannelEnds, OrderChannelEnds, GatewayStep, GatewayFill, GatewayUpdate, vars, tasks
<1>3. \/ UNCHANGED orderTask
      \/ \E pc \in {"recv", "down"} :
           \E h : orderTask' = [orderTask EXCEPT ![h] = IdleUpdate(pc)]
  BY DEF StartStep, StartSwap, SubscribeFails, SubscribeOrders, SubscribeFillsAndSpawn,
     StoreOrderHandle, StoreFillHandle, StopStep, StopSwap, StopOrderTask, StopFillTask,
     EndStep, FillChannelEnds, OrderChannelEnds, GatewayStep, GatewayFill, GatewayUpdate, vars, tasks
<1>4. \A pc : IdleFill(pc).pc = pc /\ IdleUpdate(pc).pc = pc
  BY DEF IdleFill, FillTask, IdleUpdate, OrderTask
<1>5. \A h \in Gens : fillTask'[h] = fillTask[h] \/ fillTask'[h].pc # "putOrder"
  BY <1>2, <1>4 DEF TypeOK
<1>6. \A h \in Gens : orderTask'[h] = orderTask[h] \/ orderTask'[h].pc # "put"
  BY <1>3, <1>4 DEF TypeOK
<1>7. \A h \in Gens : fillTask'[h] = fillTask[h] \/ FillBacked(r, h)'
  BY <1>5 DEF FillBacked
<1>8. \A h \in Gens : orderTask'[h] = orderTask[h] \/ UpdateBacked(r, h)'
  BY <1>6 DEF UpdateBacked
<1> QED BY <1>1, <1>7, <1>8, UnwrittenBacked

LEMMA BackedStep ==
  ASSUME TypeOK, TypeOK', IsFiniteSet(Execs), NEW r \in InitOrders, BackedInv(r), [Next]_vars
  PROVE  BackedInv(r)'
BY PutBacked, FillsBacked, UpdatesBacked, ControlBacked DEF Next

(* At first the orders are those of the repository, and nothing is written. *)
LEMMA InitBacked ==
  ASSUME Init, TypeOK, IsFiniteSet(Execs)
  PROVE  orders \in InitOrders /\ BackedInv(orders)
<1>1. \A g \in Gens, e \in Execs : orderWrites[g][e] = 0
  BY DEF Init, None
<1>2. \A e \in Execs : Applied[e] = 0
  <2> SUFFICES ASSUME NEW e \in Execs PROVE Applied[e] = 0
    OBVIOUS
  <2>1. \A g \in Gens : WritesOf(e)[g] = 0
    BY <1>1 DEF WritesOf
  <2>2. SumOver(WritesOf(e), Gens) = 0
    BY <2>1, AppliedType, SumZero
  <2>3. Applied[e] = ExecQty[e] * SumOver(WritesOf(e), Gens)
    BY DEF Applied
  <2>4. \A n \in Nat : n * 0 = 0
    OBVIOUS
  <2> QED BY <2>2, <2>3, <2>4, AppliedType
<1>3. ASSUME NEW o \in Orders PROVE Written(o) = 0
  <2>1. IsFiniteSet(ExecsOf(o)) /\ \A e \in ExecsOf(o) : Applied[e] = 0
    BY <1>2, FS_Subset DEF ExecsOf
  <2> QED BY <2>1, SumZero DEF Written
<1>4. ASSUME NEW o \in Orders PROVE OrderBacked(orders, o)
  <2>1. orders[o] # NoOrder => orders[o].filled \in Nat
    BY DEF TypeOK, Order
  <2> QED BY <1>3, <2>1 DEF OrderBacked, Backs
<1>5. \A g \in Gens : FillBacked(orders, g) /\ UpdateBacked(orders, g)
  BY DEF Init, IdleFill, FillTask, IdleUpdate, OrderTask, FillBacked, UpdateBacked
<1> QED BY <1>4, <1>5 DEF BackedInv, Init

(* The sums of the property are those of the invariant.                    *)
LEMMA WritesSum ==
  ASSUME IsFiniteSet(Gens), NEW e \in Execs
  PROVE  OrderWrites(e) = SumOver(WritesOf(e), Gens)
<1> DEFINE f == WritesOf(e)
           Adds(g) ==
             g = [t \in SUBSET Gens |->
                    IF t = {} THEN 0 ELSE orderWrites[First(t)][e] + g[t \ {First(t)}]]
           h == CHOOSE g : Adds(g)
<1>1. OrderWrites(e) = h[Gens]
  BY Zenon DEF OrderWrites, MapThenSumSet, MapThenFoldSet, First
<1>2. ASSUME NEW t \in SUBSET Gens, t # {} PROVE f[First(t)] = orderWrites[First(t)][e]
  BY <1>2, FirstIsIn DEF WritesOf
<1> HIDE DEF f
<1>3. ASSUME NEW g PROVE Adds(g) <=> Sums(f, Gens, g)
  BY <1>2 DEF Sums
<1> HIDE DEF Adds
<1>4. Adds(h)
  BY <1>3, SumsExist
<1>5. Sums(f, Gens, h)
  BY <1>3, <1>4
<1> HIDE DEF h
<1>6. PICK g : g = (CHOOSE k : Sums(f, Gens, k)) /\ Sums(f, Gens, g)
  BY SumsExist
<1>7. h[Gens] = g[Gens]
  BY <1>5, <1>6, SumsAgree
<1>8. OrderWrites(e) = SumOver(f, Gens)
  BY <1>1, <1>6, <1>7, SumIsChosen
<1> QED BY <1>8 DEF f

FilledBy(S) == MapThenSumSet(LAMBDA e : ExecQty[e] * OrderWrites(e), S)

LEMMA AppliedSum ==
  ASSUME IsFiniteSet(Gens), NEW S, S \subseteq Execs, IsFiniteSet(S)
  PROVE  FilledBy(S) = SumOver(Applied, S)
<1> DEFINE Adds(g) ==
             g = [t \in SUBSET S |->
                    IF t = {} THEN 0
                    ELSE ExecQty[First(t)] * OrderWrites(First(t)) + g[t \ {First(t)}]]
           h == CHOOSE g : Adds(g)
<1>1. FilledBy(S) = h[S]
  BY Zenon DEF FilledBy, MapThenSumSet, MapThenFoldSet, First
<1>2. ASSUME NEW t \in SUBSET S, t # {}
      PROVE  Applied[First(t)] = ExecQty[First(t)] * OrderWrites(First(t))
  <2>1. First(t) \in Execs
    BY <1>2, FirstIsIn
  <2> QED BY <2>1, WritesSum DEF Applied
<1>3. ASSUME NEW g PROVE Adds(g) <=> Sums(Applied, S, g)
  BY <1>2 DEF Sums
<1> HIDE DEF Adds
<1>4. Adds(h)
  BY <1>3, SumsExist
<1>5. Sums(Applied, S, h)
  BY <1>3, <1>4
<1> HIDE DEF h
<1>6. PICK g : g = (CHOOSE k : Sums(Applied, S, k)) /\ Sums(Applied, S, g)
  BY SumsExist
<1>7. h[S] = g[S]
  BY <1>5, <1>6, SumsAgree
<1> QED BY <1>1, <1>6, <1>7, SumIsChosen

(* However the tasks of any number of generations write over one another,  *)
(* whatever is retried, repeated, lost or aborted, and also where reading  *)
(* an order forgets its fills: a stored order is never filled by more than *)
(* it came with and what the fill tasks wrote to it.                       *)
THEOREM FillsAreBacked ==
  ASSUME IsFiniteSet(Execs)
  PROVE  Spec => []FilledIsBacked
<1> DEFINE Inv == \E r \in InitOrders : BackedInv(r)
<1>1. Init => Inv
  BY InitType, InitBacked
<1>2. TypeOK /\ TypeOK' /\ Inv /\ [Next]_vars => Inv'
  BY BackedStep
<1>3. TypeOK /\ Inv => FilledIsBacked
  <2> SUFFICES ASSUME TypeOK, NEW r \in InitOrders, BackedInv(r)
               PROVE  \A o \in Orders : orders[o] # NoOrder =>
                        r[o] # NoOrder /\ orders[o].filled <= r[o].filled + FilledBy(ExecsOf(o))
    BY Zenon DEF FilledIsBacked, FilledBy, ExecsOf
  <2> SUFFICES ASSUME NEW o \in Orders, orders[o] # NoOrder
               PROVE  r[o] # NoOrder /\ orders[o].filled <= r[o].filled + FilledBy(ExecsOf(o))
    OBVIOUS
  <2>1. IsFiniteSet(Gens) /\ IsFiniteSet(ExecsOf(o)) /\ ExecsOf(o) \subseteq Execs
    BY AppliedType, FS_Subset DEF ExecsOf
  <2>2. FilledBy(ExecsOf(o)) = Written(o)
    BY <2>1, AppliedSum DEF Written
  <2>3. r[o] # NoOrder /\ orders[o].filled <= r[o].filled + Written(o) + 0
    BY DEF BackedInv, OrderBacked, Backs
  <2>4. r[o] \in Order /\ Written(o) \in Int
    BY <2>3, ConstantsAssumption, WrittenType
  <2> QED BY <2>2, <2>3, <2>4 DEF Order
<1> HIDE DEF Inv
<1> QED BY <1>1, <1>2, <1>3, TypeCorrect, PTL DEF Spec
=============================================================================
