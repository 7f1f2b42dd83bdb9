------------------------------ MODULE UseCases ------------------------------
(***************************************************************************)
(* The use cases of crates/application/src/order_use_cases.rs and          *)
(* position_use_cases.rs on the SQL repositories: callers create, fill and *)
(* cancel orders and close a position, each a chain of calls to ports and  *)
(* repositories any of which may fail.  Nothing locks an order between the *)
(* read and the write of a use case.                                       *)
(***************************************************************************)
EXTENDS Repositories, FiniteSets

CONSTANTS
  Orders, Callers,
  OrderQty,    \* quantity of every order
  PositionQty, \* quantity of the position at the start
  NoDraft,
  MaxRetries,  \* MAX_RETRIES of the repositories
  MaxCalls,    \* bound: use cases that are executed
  MaxFaults    \* bound: calls to ports and repositories that fail

ASSUME UseCaseAssumption ==
  /\ Orders # {}
  /\ OrderQty \in Nat \ {0} /\ PositionQty \in Nat \ {0}
  /\ MaxRetries \in Nat \ {0} /\ MaxCalls \in Nat /\ MaxFaults \in Nat

VARIABLES
  orderRows,   \* the table orders
  positionRow, \* the row of the table positions
  sent,        \* orders the market was asked to work
  withdrawn,   \* orders the market was asked to cancel
  created,     \* what creating each order came to
  caller,      \* what each caller is executing
  attempt,     \* the attempt at a write each caller is at
  made,        \* bound: use cases executed
  faults       \* bound: failures

tables == <<orderRows, positionRow>>
market == <<sent, withdrawn>>
vars == <<tables, market, created, caller, attempt, made, faults>>

Call == [pc : {"idle", "find", "open", "save", "submit", "withdraw", "price", "notify"},
         kind : {"create", "fill", "cancel", "close"},
         order : Orders, qty : Nat,
         draft : Order \cup [side : {"Long", "Short"}, quantity : Nat, realized : Int]
                 \cup {NoDraft}]

Idle(o) == [pc |-> "idle", kind |-> "fill", order |-> o, qty |-> 0, draft |-> NoDraft]

Init ==
  /\ orderRows = [o \in Orders |-> NoRow]
  /\ positionRow \in {[side |-> s, quantity |-> PositionQty, realized |-> 0, open |-> TRUE] :
                        s \in {"Long", "Short"}}
  /\ sent = {} /\ withdrawn = {}
  /\ created = [o \in Orders |-> "no"]
  /\ caller \in [Callers -> {Idle(CHOOSE o \in Orders : TRUE)}]
  /\ attempt = [c \in Callers |-> 1]
  /\ made = 0 /\ faults = 0
-----------------------------------------------------------------------------
(* The next step of a use case, or its return.                             *)
Goto(c, pc, draft) ==
  caller' = [caller EXCEPT ![c] = [pc |-> pc, kind |-> @.kind, order |-> @.order,
                                   qty |-> @.qty, draft |-> draft]]

Creating(c) == caller[c].kind = "create"

Return(c, outcome) ==
  /\ Goto(c, "idle", NoDraft)
  /\ created' = IF Creating(c) THEN [created EXCEPT ![caller[c].order] = outcome] ELSE created

Faulty == faults < MaxFaults /\ faults' = faults + 1

Begin(c, pc, kind, o, qty) ==
  /\ caller[c].pc = "idle" /\ made < MaxCalls
  /\ made' = made + 1
  /\ caller' = [caller EXCEPT ![c] = [pc |-> pc, kind |-> kind, order |-> o, qty |-> qty,
                                      draft |-> NoDraft]]
  /\ attempt' = [attempt EXCEPT ![c] = 1]
  /\ UNCHANGED <<tables, market, faults>>

Create(c) ==
  \E o \in Orders :
    /\ created[o] = "no" /\ created' = [created EXCEPT ![o] = "working"]
    /\ Begin(c, "open", "create", o, OrderQty)

(* The id may be of an order that is still being created, or of none.      *)
Fill(c) ==
  \E o \in Orders, qty \in 1..OrderQty + 1 :
    Begin(c, "find", "fill", o, qty) /\ UNCHANGED created

Cancel(c) ==
  \E o \in Orders : Begin(c, "find", "cancel", o, OrderQty) /\ UNCHANGED created

Close(c) ==
  \E qty \in 1..PositionQty :
    /\ Begin(c, "find", "close", CHOOSE o \in Orders : TRUE, qty)
    /\ UNCHANGED created

(* A port or a query fails: the use case returns the error.                *)
PortFails(c) ==
  /\ caller[c].pc \in {"open", "find", "price", "notify"}
  /\ Faulty /\ Return(c, "failed")
  /\ UNCHANGED <<tables, market, attempt, made>>

MarketOpenSubmits(c) ==  \* seeded fault: an order is submitted before it is saved
  /\ caller[c].pc = "open"
  /\ Goto(c, "submit", OrderNew(caller[c].qty))
  /\ UNCHANGED <<tables, market, created, attempt, made, faults>>

MarketOpen(c) ==
  /\ caller[c].pc = "open"
  /\ Goto(c, "save", OrderNew(caller[c].qty))
  /\ UNCHANGED <<tables, market, created, attempt, made, faults>>

MarketClosed(c) ==
  /\ caller[c].pc = "open"
  /\ Return(c, "failed")
  /\ UNCHANGED <<tables, market, attempt, made, faults>>

NoSuchOrder(c) ==
  /\ caller[c].pc = "find" /\ caller[c].kind \in {"fill", "cancel"}
  /\ ~Found(orderRows, caller[c].order)
  /\ Return(c, "failed")
  /\ UNCHANGED <<tables, market, attempt, made, faults>>

(* What was found is decoded, checked and changed in memory.               *)
FindToFill(c) ==
  LET order == OrderOf(orderRows[caller[c].order])
      qty == caller[c].qty
  IN /\ caller[c].pc = "find" /\ caller[c].kind = "fill"
     /\ Found(orderRows, caller[c].order)
     /\ IF CanFill(order, qty) THEN Goto(c, "save", FillOrder(order, qty))
                               ELSE Goto(c, "idle", NoDraft)
     /\ UNCHANGED <<tables, market, created, attempt, made, faults>>

FindToCancel(c) ==
  LET order == OrderOf(orderRows[caller[c].order])
  IN /\ caller[c].pc = "find" /\ caller[c].kind = "cancel"
     /\ Found(orderRows, caller[c].order)
     /\ IF IsActive(order.status) THEN Goto(c, "withdraw", CancelOrder(order))
                                  ELSE Goto(c, "idle", NoDraft)
     /\ UNCHANGED <<tables, market, created, attempt, made, faults>>

FindPosition(c) ==
  /\ caller[c].pc = "find" /\ caller[c].kind = "close"
  /\ Goto(c, "price", PositionOf(positionRow))
  /\ UNCHANGED <<tables, market, created, attempt, made, faults>>

(* The price is above or below the average entry price.                    *)
PriceAndClose(c) ==
  /\ caller[c].pc = "price"
  /\ IF caller[c].qty > caller[c].draft.quantity
       THEN Goto(c, "idle", NoDraft)
       ELSE \E gain \in {-1, 1} : Goto(c, "save", Booked(caller[c].draft, caller[c].qty, gain))
  /\ UNCHANGED <<tables, market, created, attempt, made, faults>>

WithdrawUnanswered(c) ==  \* seeded fault: the row is written without the market
  /\ caller[c].pc = "withdraw"
  /\ Goto(c, "save", caller[c].draft)
  /\ UNCHANGED <<tables, market, created, attempt, made, faults>>

Withdraw(c) ==
  /\ caller[c].pc = "withdraw"
  /\ withdrawn' = withdrawn \cup {caller[c].order}
  /\ Goto(c, "save", caller[c].draft)
  /\ UNCHANGED <<tables, sent, created, attempt, made, faults>>

WithdrawFails(c) ==
  /\ caller[c].pc = "withdraw" /\ Faulty
  /\ withdrawn' \in {withdrawn, withdrawn \cup {caller[c].order}}
  /\ Return(c, "failed")
  /\ UNCHANGED <<tables, sent, attempt, made>>
-----------------------------------------------------------------------------
(* A write: save() of either repository.                                   *)

Written(c) ==
  IF caller[c].kind = "close"
    THEN positionRow' = UpsertPosition(caller[c].draft) /\ UNCHANGED orderRows
    ELSE /\ orderRows' = SaveOrder(orderRows, caller[c].order, caller[c].draft)
         /\ UNCHANGED positionRow

AfterSave(c) == IF Creating(c) THEN "submit" ELSE "notify"

Save(c) ==
  /\ caller[c].pc = "save"
  /\ Written(c)
  /\ Goto(c, AfterSave(c), caller[c].draft)
  /\ UNCHANGED <<market, created, attempt, made, faults>>

SaveFails(c) ==
  /\ caller[c].pc = "save" /\ Faulty
  /\ Return(c, "failed")
  /\ UNCHANGED <<tables, market, attempt, made>>

(* An order is written again after a pool error, which comes before the    *)
(* statement is sent, and after an input or output error, which may come   *)
(* after it was carried out.  A position is written again only after a     *)
(* pool error.                                                             *)
MayBeWritten(c) == caller[c].kind # "close"

Attempts(c) == IF caller[c].kind = "close" THEN MaxRetries + 1 ELSE MaxRetries

SaveTransient(c) ==
  /\ caller[c].pc = "save" /\ Faulty
  /\ \/ MayBeWritten(c) /\ Written(c)
     \/ UNCHANGED tables
  /\ IF attempt[c] < Attempts(c)
       THEN attempt' = [attempt EXCEPT ![c] = @ + 1] /\ UNCHANGED <<caller, created>>
       ELSE Return(c, "failed") /\ UNCHANGED attempt
  /\ UNCHANGED <<market, made>>

(* The answer to the write of a position is lost: that is not retried.     *)
PositionAnswerLost(c) ==
  /\ caller[c].pc = "save" /\ caller[c].kind = "close" /\ Faulty
  /\ Written(c)
  /\ Return(c, "failed")
  /\ UNCHANGED <<market, attempt, made>>

Submit(c) ==
  /\ caller[c].pc = "submit"
  /\ sent' = sent \cup {caller[c].order}
  /\ Goto(c, "notify", caller[c].draft)
  /\ UNCHANGED <<tables, withdrawn, created, attempt, made, faults>>

(* The order stays stored, as Pending.                                     *)
SubmitFails(c) ==
  /\ caller[c].pc = "submit" /\ Faulty
  /\ sent' \in {sent, sent \cup {caller[c].order}}
  /\ Return(c, "failed")
  /\ UNCHANGED <<tables, withdrawn, attempt, made>>

Notify(c) ==
  /\ caller[c].pc = "notify"
  /\ Return(c, "ok")
  /\ UNCHANGED <<tables, market, attempt, made, faults>>

Step(c) ==
  \/ PortFails(c) \/ NoSuchOrder(c) \/ MarketOpen(c) \/ MarketClosed(c) \/ FindToFill(c)
  \/ FindToCancel(c) \/ FindPosition(c) \/ PriceAndClose(c) \/ Withdraw(c) \/ WithdrawFails(c)
  \/ Save(c) \/ SaveFails(c)
  \/ SaveTransient(c) \/ PositionAnswerLost(c) \/ Submit(c) \/ SubmitFails(c) \/ Notify(c)

Next ==
  \E c \in Callers : Create(c) \/ Fill(c) \/ Cancel(c) \/ Close(c) \/ Step(c)

Spec == Init /\ [][Next]_vars
-----------------------------------------------------------------------------
TypeOK ==
  /\ orderRows \in [Orders -> Order \cup {NoRow}] /\ positionRow \in PositionRow
  /\ sent \subseteq Orders /\ withdrawn \subseteq Orders
  /\ created \in [Orders -> {"no", "working", "ok", "failed"}]
  /\ caller \in [Callers -> Call] /\ attempt \in [Callers -> 1..MaxRetries + 1]
  /\ made \in 0..MaxCalls /\ faults \in 0..MaxFaults

(* CreateOrderUseCase saves and then submits, and nothing takes the row    *)
(* back.  Whatever fails or is repeated: an order that the market may work *)
(* is stored, one that is stored and was never sent is one whose creation  *)
(* returned an error, and a creation that succeeded has done both.         *)
StoredThenSubmitted ==
  \A o \in Orders :
    /\ o \in sent => Found(orderRows, o)
    /\ Found(orderRows, o) /\ o \notin sent => created[o] \in {"working", "failed"}
    /\ created[o] = "ok" => Found(orderRows, o) /\ o \in sent

(* However cancellations, fills and repeated writes overlap, a row says    *)
(* Cancelled only if the market has been asked to cancel the order.        *)
CancelledAtMarket ==
  \A o \in Orders :
    Found(orderRows, o) /\ orderRows[o].status = "Cancelled" => o \in withdrawn

(* "Closes a position (full or partial)": once a close of everything has   *)
(* been written, the row holds nothing open.                               *)
FullCloseCloses ==
  [][\A c \in Callers :
       /\ caller[c].kind = "close" /\ caller[c].qty = PositionQty
       /\ caller[c].pc = "save" /\ caller'[c].pc = "notify"
       => positionRow'.quantity = 0 \/ ~positionRow'.open]_vars
=============================================================================
