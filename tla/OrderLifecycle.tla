--------------------------- MODULE OrderLifecycle ---------------------------
(***************************************************************************)
(* OrderLifecycleManager of crates/application/src/order_lifecycle.rs.     *)
(*                                                                         *)
(* start() subscribes to the execution gateway and spawns two tasks, one   *)
(* for order updates and one for fills; stop() aborts the tasks whose      *)
(* handles are stored.  A "generation" is one call of start(): its channel *)
(* receivers and its pair of tasks.  Both tasks read an order, change      *)
(* their copy and write it back; every repository call is one step here,   *)
(* so the two tasks, and the tasks of two generations, interleave exactly  *)
(* at the await points of the code.                                        *)
(***************************************************************************)
EXTENDS OrderEntity, Sequences, FiniteSetsExt

CONSTANTS
  Orders,         \* order identifiers
  Execs,          \* executions at the broker, one per partial fill
  ExecOrder,      \* the order an execution belongs to
  ExecQty,        \* its quantity
  ExecKey,        \* the deduplication key order-timestamp-quantity
  OrderSide,      \* "Buy" or "Sell"
  InitOrders,     \* possible initial contents of the order repository
  InitPositions,  \* possible initial positions, all orders being on one symbol
  Updates,        \* order updates the gateway may emit, [order, status]
  Decoding,       \* "memory" or "timescale": what order_repo.get() returns
  MaxStarts,      \* bound: calls of start()
  MaxDeliveries,  \* bound: times the gateway emits one execution
  MaxFaults,      \* bound: failing repository or subscription calls
  MaxRetries,     \* LifecycleConfig.max_retries
  DedupCap,       \* size of processed_fills above which it is trimmed
  DedupTrim,      \* how many keys a trim removes
  SerialControl,  \* TRUE: start() and stop() are never called concurrently
  NoOrder, NoPosition, NoExec, NoUpdate

Gens == 1..MaxStarts

Side == {"Buy", "Sell"}

Position == [side : Side, quantity : Nat \ {0}, realized : Nat]

Update == [order : Orders, status : OrderStatus]

ASSUME ConstantsAssumption ==
  /\ NoOrder \notin Order /\ NoPosition \notin Position
  /\ NoExec \notin Execs /\ NoUpdate \notin Update
  /\ ExecOrder \in [Execs -> Orders]
  /\ ExecQty \in [Execs -> Nat \ {0}]
  /\ \A e, f \in Execs : ExecKey[e] = ExecKey[f] =>
       ExecOrder[e] = ExecOrder[f] /\ ExecQty[e] = ExecQty[f]
  /\ OrderSide \in [Orders -> Side]
  /\ \A r \in InitOrders : r \in [Orders -> Order \cup {NoOrder}]
  /\ \A r \in InitOrders, o \in Orders : r[o] # NoOrder => WellFormed(r[o])
  /\ InitPositions \subseteq Position \cup {NoPosition}
  /\ Updates \subseteq Update
  /\ Decoding \in {"memory", "timescale"}
  /\ MaxStarts \in Nat /\ MaxDeliveries \in Nat /\ MaxFaults \in Nat
  /\ MaxRetries \in Nat
  /\ DedupCap \in Nat /\ DedupTrim \in Nat /\ DedupTrim <= DedupCap + 1
  /\ SerialControl \in BOOLEAN

VARIABLES
  orders,       \* the order repository
  position,     \* the position repository, for the one symbol
  rows, orderWrites, positionWrites, filledEvents,
                \* per generation and execution: fill rows saved, order updates,
                \* position upserts and OrderFilled events so far
  processed,    \* processed_fills
  givenUp,      \* per generation: executions execute_with_retry gave up
  failures,     \* per generation and execution: how often handle_fill failed
  statusEvents, \* events published by the order update task
  fillTask, orderTask, fillQ, orderQ,
  running, startPc, stopPc, handles,
  delivered, updatesSent, faults

repos   == <<orders, position>>
effects == <<rows, orderWrites, positionWrites, filledEvents>>
attempts == <<givenUp, failures>>
tasks   == <<fillTask, orderTask>>
queues  == <<fillQ, orderQ>>
control == <<running, startPc, stopPc, handles>>
gateway == <<delivered, updatesSent>>
vars    == <<repos, effects, processed, attempts, statusEvents, tasks, queues,
             control, gateway, faults>>

FillTask(pc, e, n, o, p) == [pc |-> pc, exec |-> e, tries |-> n, order |-> o, position |-> p]

IdleFill(pc) == FillTask(pc, NoExec, 0, NoOrder, NoPosition)

OrderTask(pc, u, n, o) == [pc |-> pc, update |-> u, tries |-> n, order |-> o]

IdleUpdate(pc) == OrderTask(pc, NoUpdate, 0, NoOrder)

None == [g \in Gens |-> [e \in Execs |-> 0]]

Init ==
  /\ orders \in InitOrders
  /\ position \in InitPositions
  /\ rows = None /\ orderWrites = None /\ positionWrites = None /\ filledEvents = None
  /\ processed = {}
  /\ givenUp = [g \in Gens |-> {}] /\ failures = None /\ statusEvents = {}
  /\ fillTask = [g \in Gens |-> IdleFill("down")]
  /\ orderTask = [g \in Gens |-> IdleUpdate("down")]
  /\ fillQ = [g \in Gens |-> << >>]
  /\ orderQ = [g \in Gens |-> << >>]
  /\ running = FALSE
  /\ startPc = [g \in Gens |-> "unused"]
  /\ stopPc = "idle"
  /\ handles = [order |-> 0, fill |-> 0]
  /\ delivered = [e \in Execs |-> 0]
  /\ updatesSent = {}
  /\ faults = 0
-----------------------------------------------------------------------------
(* What order_repo.get() hands back.  The in-memory repository clones the  *)
(* order; TimescaleOrderRepository::row_to_order rebuilds it with          *)
(* new_with_id, so that it comes back Created and unfilled.                *)
Decoded(o) == IF Decoding = "memory" THEN o ELSE OrderNewWithId(o.quantity)

(* A repository call that fails; writes may fail after taking effect.      *)
Fault == faults < MaxFaults /\ faults' = faults + 1

NoFault == UNCHANGED faults

(* A position update that succeeds, as update_position computes it: the    *)
(* three branches add, partially reduce (the new quantity is computed and  *)
(* dropped) and flip (a fresh Position replaces the old one).              *)
PositionAfter(p, side, q) ==
  IF p.side = side THEN [p EXCEPT !.quantity = @ + q]
  ELSE IF q < p.quantity THEN [p EXCEPT !.realized = @ + q]
  ELSE [side |-> side, quantity |-> q - p.quantity, realized |-> 0]

(* Opening and closing exactly both need Quantity::new(ZERO), which fails. *)
PositionUpdatable(p, side, q) ==
  p # NoPosition /\ (p.side # side => q # p.quantity)
-----------------------------------------------------------------------------
(* start() *)

Subscribing(g) == startPc[g] \in {"subOrders", "subFills"}

StartInProgress == \E g \in Gens : startPc[g] \notin {"unused", "started", "failed"}

StartSwap(g) ==
  /\ startPc[g] = "unused"
  /\ \A h \in Gens : h < g => startPc[h] # "unused"
  /\ SerialControl => stopPc = "idle" /\ ~StartInProgress
  /\ ~running
  /\ running' = TRUE
  /\ startPc' = [startPc EXCEPT ![g] = "subOrders"]
  /\ UNCHANGED <<stopPc, handles, repos, effects, processed, attempts, statusEvents,
                 tasks, queues, gateway, faults>>

(* A subscription that fails returns from start() with running still true. *)
SubscribeFails(g) ==
  /\ Subscribing(g)
  /\ Fault
  /\ startPc' = [startPc EXCEPT ![g] = "failed"]
  /\ orderQ' = [orderQ EXCEPT ![g] = << >>]
  /\ UNCHANGED <<running, stopPc, handles, repos, effects, processed, attempts,
                 statusEvents, tasks, fillQ, gateway>>

SubscribeOrders(g) ==
  /\ startPc[g] = "subOrders"
  /\ startPc' = [startPc EXCEPT ![g] = "subFills"]
  /\ UNCHANGED <<running, stopPc, handles, repos, effects, processed, attempts,
                 statusEvents, tasks, queues, gateway, faults>>

(* The second subscription and both spawns happen without an await between. *)
SubscribeFillsAndSpawn(g) ==
  /\ startPc[g] = "subFills"
  /\ startPc' = [startPc EXCEPT ![g] = "storeOrder"]
  /\ fillTask' = [fillTask EXCEPT ![g] = IdleFill("recv")]
  /\ orderTask' = [orderTask EXCEPT ![g] = IdleUpdate("recv")]
  /\ UNCHANGED <<running, stopPc, handles, repos, effects, processed, attempts,
                 statusEvents, queues, gateway, faults>>

(* Each handle is stored under its own tokio mutex, which stop() holds     *)
(* while it waits for the task it aborted.                                 *)
StoreOrderHandle(g) ==
  /\ startPc[g] = "storeOrder"
  /\ startPc' = [startPc EXCEPT ![g] = "storeFill"]
  /\ handles' = [handles EXCEPT !.order = g]
  /\ UNCHANGED <<running, stopPc, repos, effects, processed, attempts, statusEvents,
                 tasks, queues, gateway, faults>>

StoreFillHandle(g) ==
  /\ startPc[g] = "storeFill"
  /\ startPc' = [startPc EXCEPT ![g] = "started"]
  /\ handles' = [handles EXCEPT !.fill = g]
  /\ UNCHANGED <<running, stopPc, repos, effects, processed, attempts, statusEvents,
                 tasks, queues, gateway, faults>>
-----------------------------------------------------------------------------
(* stop() *)

StopSwap ==
  /\ stopPc = "idle"
  /\ SerialControl => ~StartInProgress
  /\ running
  /\ running' = FALSE
  /\ stopPc' = "order"
  /\ UNCHANGED <<startPc, handles, repos, effects, processed, attempts, statusEvents,
                 tasks, queues, gateway, faults>>

(* abort() drops the task at the await it is suspended at, whatever it was *)
(* doing, together with its channel receiver.                              *)
StopOrderTask ==
  /\ stopPc = "order"
  /\ stopPc' = "fill"
  /\ IF handles.order = 0 THEN UNCHANGED <<orderTask, orderQ, handles>>
     ELSE /\ orderTask' = [orderTask EXCEPT ![handles.order] = IdleUpdate("down")]
          /\ orderQ' = [orderQ EXCEPT ![handles.order] = << >>]
          /\ handles' = [handles EXCEPT !.order = 0]
  /\ UNCHANGED <<running, startPc, repos, effects, processed, attempts, statusEvents,
                 fillTask, fillQ, gateway, faults>>

StopFillTaskDetached ==  \* seeded fault: the handle is dropped, which does not abort
  /\ stopPc = "fill"
  /\ stopPc' = "idle"
  /\ handles' = [handles EXCEPT !.fill = 0]
  /\ UNCHANGED <<running, startPc, repos, effects, processed, attempts, statusEvents,
                 tasks, queues, gateway, faults>>

StopFillTask ==
  /\ stopPc = "fill"
  /\ stopPc' = "idle"
  /\ IF handles.fill = 0 THEN UNCHANGED <<fillTask, fillQ, handles>>
     ELSE /\ fillTask' = [fillTask EXCEPT ![handles.fill] = IdleFill("down")]
          /\ fillQ' = [fillQ EXCEPT ![handles.fill] = << >>]
          /\ handles' = [handles EXCEPT !.fill = 0]
  /\ UNCHANGED <<running, startPc, repos, effects, processed, attempts, statusEvents,
                 orderTask, orderQ, gateway, faults>>
-----------------------------------------------------------------------------
(* The fill task: process_fill, execute_with_retry and handle_fill.        *)

(* Move on with the same execution, holding a copy to write back, if any.  *)
FillGoto(g, pc, o, p) ==
  /\ fillTask' = [fillTask EXCEPT ![g] =
                    FillTask(pc, fillTask[g].exec, fillTask[g].tries, o, p)]
  /\ UNCHANGED attempts

CanRetry(g, retryable) == retryable /\ fillTask[g].tries < MaxRetries

(* seeded fault: a retry does not save the row again                       *)
RetriedAfterSave(g) ==
  FillTask("getOrder", fillTask[g].exec, fillTask[g].tries + 1, NoOrder, NoPosition)

Retried(g) == FillTask("save", fillTask[g].exec, fillTask[g].tries + 1, NoOrder, NoPosition)

(* execute_with_retry on an error of handle_fill: start over, or give up.  *)
(* What is given up goes to the dead letter queue only if there is one     *)
(* (new() sets none) and its send() succeeds (an error is only logged), so *)
(* no dead letter is recorded here.                                        *)
FillFails(g, retryable) ==
  /\ failures' = [failures EXCEPT ![g][fillTask[g].exec] = @ + 1]
  /\ IF CanRetry(g, retryable)
     THEN /\ fillTask' = [fillTask EXCEPT ![g] = Retried(g)]
          /\ UNCHANGED givenUp
     ELSE /\ fillTask' = [fillTask EXCEPT ![g] = IdleFill("recv")]
          /\ givenUp' = [givenUp EXCEPT ![g] = @ \cup {fillTask[g].exec}]

AlreadyProcessed(e) == ExecKey[e] \in processed

FillRecvMarks(g) ==  \* seeded fault: the key is entered on receipt, not after the effects
  /\ fillTask[g].pc = "recv"
  /\ fillQ[g] # << >>
  /\ fillQ' = [fillQ EXCEPT ![g] = Tail(@)]
  /\ processed' = processed \cup {ExecKey[Head(fillQ[g])]}
  /\ IF AlreadyProcessed(Head(fillQ[g])) THEN UNCHANGED fillTask
     ELSE fillTask' = [fillTask EXCEPT ![g] =
                         FillTask("save", Head(fillQ[g]), 0, NoOrder, NoPosition)]
  /\ UNCHANGED <<repos, effects, attempts, statusEvents, orderTask, orderQ,
                 control, gateway, faults>>

FillRecv(g) ==
  /\ fillTask[g].pc = "recv"
  /\ fillQ[g] # << >>
  /\ fillQ' = [fillQ EXCEPT ![g] = Tail(@)]
  /\ IF AlreadyProcessed(Head(fillQ[g])) THEN UNCHANGED fillTask
     ELSE fillTask' = [fillTask EXCEPT ![g] =
                         FillTask("save", Head(fillQ[g]), 0, NoOrder, NoPosition)]
  /\ UNCHANGED <<repos, effects, processed, attempts, statusEvents, orderTask, orderQ,
                 control, gateway, faults>>

(* A repository that has the fill already may refuse it as a DuplicateKey, *)
(* which is not retried.                                                   *)
FillSave(g) ==
  LET counted == [rows EXCEPT ![g][fillTask[g].exec] = @ + 1]
  IN /\ fillTask[g].pc = "save"
     /\ \/ /\ NoFault
           /\ rows' = counted
           /\ FillGoto(g, "getOrder", NoOrder, NoPosition)
        \/ /\ Fault
           /\ rows' \in {rows, counted}
           /\ FillFails(g, TRUE)
        \/ /\ NoFault
           /\ \E h \in Gens : rows[h][fillTask[g].exec] > 0
           /\ UNCHANGED rows
           /\ FillFails(g, FALSE)
     /\ UNCHANGED <<repos, orderWrites, positionWrites, filledEvents, processed,
                    statusEvents, orderTask, queues, control, gateway>>

FillGetOrder(g) ==
  LET found == orders[ExecOrder[fillTask[g].exec]]
      qty == ExecQty[fillTask[g].exec]
  IN /\ fillTask[g].pc = "getOrder"
     /\ \/ /\ Fault
           /\ FillFails(g, TRUE)
        \/ /\ NoFault
           /\ found = NoOrder
           /\ FillFails(g, FALSE)
        \/ /\ NoFault
           /\ found # NoOrder
           /\ ~CanFill(Decoded(found), qty)
           /\ FillFails(g, FALSE)
        \/ /\ NoFault
           /\ found # NoOrder
           /\ CanFill(Decoded(found), qty)
           /\ FillGoto(g, "putOrder", FillOrder(Decoded(found), qty), NoPosition)
     /\ UNCHANGED <<repos, effects, processed, statusEvents, orderTask,
                    queues, control, gateway>>

FillPutOrder(g) ==
  LET e == fillTask[g].exec
      stored == [orders EXCEPT ![ExecOrder[e]] = fillTask[g].order]
      counted == [orderWrites EXCEPT ![g][e] = @ + 1]
  IN /\ fillTask[g].pc = "putOrder"
     /\ \/ /\ NoFault
           /\ orders' = stored /\ orderWrites' = counted
           /\ FillGoto(g, "getPosition", NoOrder, NoPosition)
        \/ /\ Fault
           /\ \/ UNCHANGED <<orders, orderWrites>>
              \/ orders' = stored /\ orderWrites' = counted
           /\ FillFails(g, TRUE)
     /\ UNCHANGED <<position, rows, positionWrites, filledEvents, processed,
                    statusEvents, orderTask, queues, control, gateway>>

(* update_position: read the position and compute the new one.             *)
FillGetPosition(g) ==
  LET side == OrderSide[ExecOrder[fillTask[g].exec]]
      qty == ExecQty[fillTask[g].exec]
  IN /\ fillTask[g].pc = "getPosition"
     /\ \/ /\ Fault
           /\ FillFails(g, TRUE)
        \/ /\ NoFault
           /\ ~PositionUpdatable(position, side, qty)
           /\ FillFails(g, TRUE)
        \/ /\ NoFault
           /\ PositionUpdatable(position, side, qty)
           /\ FillGoto(g, "putPosition", NoOrder, PositionAfter(position, side, qty))
     /\ UNCHANGED <<repos, effects, processed, statusEvents, orderTask,
                    queues, control, gateway>>

FillPutPosition(g) ==
  LET counted == [positionWrites EXCEPT ![g][fillTask[g].exec] = @ + 1]
  IN /\ fillTask[g].pc = "putPosition"
     /\ \/ /\ NoFault
           /\ position' = fillTask[g].position /\ positionWrites' = counted
           /\ FillGoto(g, "announce", NoOrder, NoPosition)
        \/ /\ Fault
           /\ \/ UNCHANGED <<position, positionWrites>>
              \/ position' = fillTask[g].position /\ positionWrites' = counted
           /\ FillFails(g, TRUE)
     /\ UNCHANGED <<orders, rows, orderWrites, filledEvents, processed,
                    statusEvents, orderTask, queues, control, gateway>>

FillAnnounceOnly(g) ==  \* seeded fault: OrderFilled is never published
  /\ fillTask[g].pc = "announce"
  /\ NoFault
  /\ FillGoto(g, "mark", NoOrder, NoPosition)
  /\ UNCHANGED <<repos, effects, processed, statusEvents, orderTask,
                 queues, control, gateway>>

(* Reads the position back for PositionUpdated; this read may fail too.    *)
FillAnnounce(g) ==
  /\ fillTask[g].pc = "announce"
  /\ \/ NoFault /\ FillGoto(g, "publish", NoOrder, NoPosition)
     \/ Fault /\ FillFails(g, TRUE)
  /\ UNCHANGED <<repos, effects, processed, statusEvents, orderTask,
                 queues, control, gateway>>

FillPublish(g) ==
  /\ fillTask[g].pc = "publish"
  /\ filledEvents' = [filledEvents EXCEPT ![g][fillTask[g].exec] = @ + 1]
  /\ FillGoto(g, "mark", NoOrder, NoPosition)
  /\ UNCHANGED <<repos, rows, orderWrites, positionWrites, processed,
                 statusEvents, orderTask, queues, control, gateway, faults>>

Marked(e) == processed \cup {ExecKey[e]}

(* Mark the key processed; above the cap an arbitrary part is forgotten.   *)
FillMark(g) ==
  LET marked == Marked(fillTask[g].exec)
  IN /\ fillTask[g].pc = "mark"
     /\ IF Cardinality(marked) > DedupCap
        THEN \E gone \in SUBSET marked : /\ Cardinality(gone) = DedupTrim
                                         /\ processed' = marked \ gone
        ELSE processed' = marked
     /\ fillTask' = [fillTask EXCEPT ![g] = IdleFill("recv")]
     /\ UNCHANGED <<repos, effects, attempts, statusEvents, orderTask, queues, control,
                    gateway, faults>>
-----------------------------------------------------------------------------
(* The order update task: process_order_update and handle_order_update.    *)

UpdateGoto(g, pc, o) ==
  orderTask' = [orderTask EXCEPT ![g] =
                  OrderTask(pc, orderTask[g].update, orderTask[g].tries, o)]

UpdateFailsForever(g, retryable) ==  \* seeded fault: neither classified nor counted
  orderTask' = [orderTask EXCEPT ![g] =
                  OrderTask("get", orderTask[g].update, orderTask[g].tries, NoOrder)]

UpdateFails(g, retryable) ==
  orderTask' = [orderTask EXCEPT ![g] =
                  IF retryable /\ orderTask[g].tries < MaxRetries
                  THEN OrderTask("get", orderTask[g].update, orderTask[g].tries + 1, NoOrder)
                  ELSE IdleUpdate("recv")]

UpdateRecv(g) ==
  /\ orderTask[g].pc = "recv"
  /\ orderQ[g] # << >>
  /\ orderQ' = [orderQ EXCEPT ![g] = Tail(@)]
  /\ orderTask' = [orderTask EXCEPT ![g] = OrderTask("get", Head(orderQ[g]), 0, NoOrder)]
  /\ UNCHANGED <<repos, effects, processed, attempts, statusEvents, fillTask, fillQ,
                 control, gateway, faults>>

UpdateGet(g) ==
  LET u == orderTask[g].update
      found == orders[u.order]
  IN /\ orderTask[g].pc = "get"
     /\ \/ /\ Fault
           /\ UpdateFails(g, TRUE)
        \/ /\ NoFault
           /\ found = NoOrder
           /\ UpdateFails(g, FALSE)
        \/ /\ NoFault
           /\ found # NoOrder
           /\ ~IsValidTransition(Decoded(found).status, u.status)
           /\ UpdateFails(g, FALSE)
        \/ /\ NoFault
           /\ found # NoOrder
           /\ IsValidTransition(Decoded(found).status, u.status)
           /\ UpdateGoto(g, "put", UpdateStatus(Decoded(found), u.status))
     /\ UNCHANGED <<repos, effects, processed, attempts, statusEvents, fillTask,
                    queues, control, gateway>>

UpdatePutDeletes(g) ==  \* seeded fault: a completed order is removed
  LET u == orderTask[g].update
      put == IF IsTerminal(u.status) THEN NoOrder ELSE orderTask[g].order
  IN /\ orderTask[g].pc = "put"
     /\ orders' = [orders EXCEPT ![u.order] = put]
     /\ UpdateGoto(g, "publish", NoOrder)
     /\ UNCHANGED <<position, effects, processed, attempts, statusEvents,
                    fillTask, queues, control, gateway, faults>>

UpdatePut(g) ==
  LET stored == [orders EXCEPT ![orderTask[g].update.order] = orderTask[g].order]
  IN /\ orderTask[g].pc = "put"
     /\ \/ /\ NoFault
           /\ orders' = stored
           /\ UpdateGoto(g, "publish", NoOrder)
        \/ /\ Fault
           /\ orders' \in {orders, stored}
           /\ UpdateFails(g, TRUE)
     /\ UNCHANGED <<position, effects, processed, attempts, statusEvents, fillTask,
                    queues, control, gateway>>

(* Filled, Cancelled and Rejected are published, the others are not.       *)
UpdatePublish(g) ==
  LET u == orderTask[g].update
  IN /\ orderTask[g].pc = "publish"
     /\ statusEvents' = statusEvents \cup {v \in {u} : IsTerminal(v.status)}
     /\ orderTask' = [orderTask EXCEPT ![g] = IdleUpdate("recv")]
     /\ UNCHANGED <<repos, effects, processed, attempts, fillTask, queues, control,
                    gateway, faults>>
-----------------------------------------------------------------------------
(* The execution gateway: it sends to every receiver that is alive, and    *)
(* what nobody has subscribed to is lost.                                  *)

FillsSubscribed(g) == fillTask[g].pc # "down"

OrdersSubscribed(g) == orderTask[g].pc # "down" \/ startPc[g] = "subFills"

GatewayFill(e) ==
  /\ delivered[e] < MaxDeliveries
  /\ delivered' = [delivered EXCEPT ![e] = @ + 1]
  /\ fillQ' = [g \in Gens |-> IF FillsSubscribed(g) THEN Append(fillQ[g], e) ELSE fillQ[g]]
  /\ UNCHANGED <<repos, effects, processed, attempts, statusEvents, tasks, orderQ,
                 control, updatesSent, faults>>

GatewayUpdate(u) ==
  /\ u \notin updatesSent
  /\ updatesSent' = updatesSent \cup {u}
  /\ orderQ' = [g \in Gens |-> IF OrdersSubscribed(g) THEN Append(orderQ[g], u)
                               ELSE orderQ[g]]
  /\ UNCHANGED <<repos, effects, processed, attempts, statusEvents, tasks, fillQ,
                 control, delivered, faults>>

(* A gateway keeps the sender of the latest subscription only: when it     *)
(* drops an older one, that channel ends and so does the task reading it.  *)
FillChannelEnds(g) ==
  /\ fillTask[g].pc = "recv" /\ fillQ[g] = << >>
  /\ fillTask' = [fillTask EXCEPT ![g] = IdleFill("down")]
  /\ UNCHANGED <<repos, effects, processed, attempts, statusEvents, orderTask, queues,
                 control, gateway, faults>>

OrderChannelEnds(g) ==
  /\ orderTask[g].pc = "recv" /\ orderQ[g] = << >>
  /\ orderTask' = [orderTask EXCEPT ![g] = IdleUpdate("down")]
  /\ UNCHANGED <<repos, effects, processed, attempts, statusEvents, fillTask, queues,
                 control, gateway, faults>>
-----------------------------------------------------------------------------
FillStep(g) ==
  \/ FillRecv(g) \/ FillSave(g) \/ FillGetOrder(g) \/ FillPutOrder(g)
  \/ FillGetPosition(g) \/ FillPutPosition(g) \/ FillAnnounce(g)
  \/ FillPublish(g) \/ FillMark(g)

UpdateStep(g) == UpdateRecv(g) \/ UpdateGet(g) \/ UpdatePut(g) \/ UpdatePublish(g)

StartStep(g) ==
  \/ StartSwap(g) \/ SubscribeFails(g) \/ SubscribeOrders(g)
  \/ SubscribeFillsAndSpawn(g) \/ StoreOrderHandle(g) \/ StoreFillHandle(g)

StopStep == StopSwap \/ StopOrderTask \/ StopFillTask

EndStep(g) == FillChannelEnds(g) \/ OrderChannelEnds(g)

GatewayStep == (\E e \in Execs : GatewayFill(e)) \/ (\E u \in Updates : GatewayUpdate(u))

Next ==
  \/ \E g \in Gens : StartStep(g) \/ FillStep(g) \/ UpdateStep(g) \/ EndStep(g)
  \/ StopStep
  \/ GatewayStep

Spec == Init /\ [][Next]_vars

(* The runtime keeps polling a spawned task and repository calls return.   *)
Fairness == \A g \in Gens : WF_vars(FillStep(g)) /\ WF_vars(UpdateStep(g))

FairSpec == Spec /\ Fairness
-----------------------------------------------------------------------------
(***************************************************************************)
(* Properties.                                                             *)
(***************************************************************************)
FillPcs == {"down", "recv", "save", "getOrder", "putOrder", "getPosition",
            "putPosition", "announce", "publish", "mark"}

UpdatePcs == {"down", "recv", "get", "put", "publish"}

Counters == [Gens -> [Execs -> Nat]]

(* A task that is handling an event holds it, and holds the copy of the    *)
(* order or position that it is about to write back.                       *)
FillTaskRecord ==
  {t \in [pc : FillPcs, exec : Execs \cup {NoExec}, tries : 0..MaxRetries,
          order : Order \cup {NoOrder}, position : Position \cup {NoPosition}] :
     /\ t.pc \notin {"down", "recv"} => t.exec # NoExec
     /\ t.pc = "putOrder" => t.order # NoOrder
     /\ t.pc = "putPosition" => t.position # NoPosition}

OrderTaskRecord ==
  {t \in [pc : UpdatePcs, update : Updates \cup {NoUpdate}, tries : 0..MaxRetries,
          order : Order \cup {NoOrder}] :
     /\ t.pc \notin {"down", "recv"} => t.update # NoUpdate
     /\ t.pc = "put" => t.order # NoOrder}

(* The types of the state, and what the tasks hold.                        *)
TypeOK ==
  /\ orders \in [Orders -> Order \cup {NoOrder}]
  /\ position \in Position \cup {NoPosition}
  /\ rows \in Counters /\ orderWrites \in Counters
  /\ positionWrites \in Counters /\ filledEvents \in Counters
  /\ processed \subseteq {ExecKey[e] : e \in Execs}
  /\ givenUp \in [Gens -> SUBSET Execs]
  /\ failures \in Counters
  /\ statusEvents \subseteq Updates
  /\ fillTask \in [Gens -> FillTaskRecord]
  /\ orderTask \in [Gens -> OrderTaskRecord]
  /\ fillQ \in [Gens -> Seq(Execs)]
  /\ orderQ \in [Gens -> Seq(Updates)]
  /\ running \in BOOLEAN
  /\ startPc \in [Gens -> {"unused", "subOrders", "subFills", "storeOrder", "storeFill",
                            "started", "failed"}]
  /\ stopPc \in {"idle", "order", "fill"}
  /\ handles \in [order : Gens \cup {0}, fill : Gens \cup {0}]
  /\ delivered \in [Execs -> Nat]
  /\ updatesSent \subseteq Updates
  /\ faults \in Nat

(* Whatever the interleaving of retries, duplicate fills, stale writes and *)
(* restarts, no stored order is ever filled beyond its quantity: the       *)
(* "construction invariant" remaining_quantity() relies on.                *)
NeverOverfilled ==
  \A o \in Orders : orders[o] # NoOrder => orders[o].filled <= orders[o].quantity

(* The audit trail leads: a fill reaches an order only after its row is    *)
(* saved, the position only after the order, and OrderFilled is published  *)
(* only for a position update that was written, counting every retry.      *)
FillEffectsInOrder ==
  \A g \in Gens, e \in Execs :
    /\ filledEvents[g][e] <= positionWrites[g][e]
    /\ positionWrites[g][e] <= orderWrites[g][e]
    /\ orderWrites[g][e] <= rows[g][e]

(* A key enters processed_fills only when some execution with that key was *)
(* carried through to its OrderFilled event.                               *)
ProcessedOnlyAfterEffects ==
  \A k \in processed : \E g \in Gens, e \in Execs :
    ExecKey[e] = k /\ filledEvents[g][e] > 0

(* Every application of an execution but the last is owed to a failed      *)
(* handling of it: no duplicate delivery alone applies a fill again.       *)
OncePerHandling ==
  \A g \in Gens, e \in Execs : orderWrites[g][e] <= failures[g][e] + 1

(* An order and its position see each execution at most once, however      *)
(* often the gateway emits it ("Duplicate fills are detected and ignored", *)
(* order_lifecycle.rs:32).                                                 *)
AppliedAtMostOnce ==
  \A e \in Execs, g, h \in Gens :
    /\ orderWrites[g][e] <= 1
    /\ g # h => orderWrites[g][e] + orderWrites[h][e] <= 1

OrderWrites(e) == MapThenSumSet(LAMBDA g : orderWrites[g][e], Gens)

(* The filled quantity of a stored order accounts for every fill written   *)
(* to it, retries included: no write of the fill task is lost.             *)
OrderAccountsForFills ==
  \A o \in Orders : orders[o] # NoOrder =>
    orders[o].filled = MapThenSumSet(LAMBDA e : ExecQty[e] * OrderWrites(e),
                                     {e \in Execs : ExecOrder[e] = o})

(* No write, however stale, makes a fill up: a stored order is filled by   *)
(* no more than it came with and what the fill tasks wrote to it, whatever *)
(* copies the tasks of any generation put back over one another.           *)
FilledIsBacked ==
  \E r \in InitOrders : \A o \in Orders : orders[o] # NoOrder =>
    /\ r[o] # NoOrder
    /\ orders[o].filled <= r[o].filled
         + MapThenSumSet(LAMBDA e : ExecQty[e] * OrderWrites(e),
                         {e \in Execs : ExecOrder[e] = o})

(* "Order state transitions are validated before applying"                 *)
(* (order_lifecycle.rs:33): no stored order leaves a terminal status.      *)
TerminalIsFinal ==
  [][\A o \in Orders : orders[o] # NoOrder /\ IsTerminal(orders[o].status)
       => orders'[o].status = orders[o].status]_vars

(* No fill that was written to an order disappears from it again when the  *)
(* other task writes back the copy it read before.                         *)
FilledNeverShrinks ==
  [][\A o \in Orders : orders[o] # NoOrder => orders'[o].filled >= orders[o].filled]_vars

Alive(g) == fillTask[g].pc # "down" \/ orderTask[g].pc # "down"

(* stop() "aborts the processing tasks and waits for them to complete"     *)
(* (order_lifecycle.rs:433): once it has returned and nothing is being     *)
(* started, no task of any generation is left.                             *)
StopLeavesNoTask ==
  ~running /\ stopPc = "idle" /\ ~StartInProgress => \A g \in Gens : ~Alive(g)

(* "Returns true if the manager is running": is_running() with no call in  *)
(* progress means that both tasks of some generation exist.                *)
RunningMeansTasks ==
  running /\ stopPc = "idle" /\ ~StartInProgress =>
    \E g \in Gens : fillTask[g].pc # "down" /\ orderTask[g].pc # "down"

(* One consumer of fills at a time: two would each apply every fill.       *)
OneFillConsumer ==
  \A g, h \in Gens : fillTask[g].pc # "down" /\ fillTask[h].pc # "down" => g = h

Queued(g, e) == \E i \in 1..Len(fillQ[g]) : fillQ[g][i] = e

(* "Processing continues even if individual events fail": every fill in a  *)
(* live channel is in the end handled, under its key, or given up after    *)
(* its retries, unless the task is aborted.  A fill that was given up may  *)
(* leave no dead letter.                                                   *)
FillsSettle ==
  \A g \in Gens, e \in Execs :
    Queued(g, e) ~> \/ fillTask[g].pc = "down"
                    \/ e \in givenUp[g]
                    \/ \E h \in Gens, f \in Execs : ExecKey[f] = ExecKey[e] /\ filledEvents[h][f] > 0

(* The order update task always comes back to its channel.                 *)
UpdatesSettle ==
  \A g \in Gens : orderTask[g].pc = "get" ~> orderTask[g].pc \in {"recv", "down"}
=============================================================================
