----------------------------- MODULE OrderTable -----------------------------
(***************************************************************************)
(* The statements of TimescaleOrderRepository of                           *)
(* crates/infrastructure/src/database/order_repo.rs as functions of the    *)
(* table, a function from the ids of orders to rows.  A text column holds  *)
(* a plain text or the JSON that OrderStatusJson makes of a status; times  *)
(* and prices are numbers, and what a query answers is ok or an error.     *)
(***************************************************************************)
EXTENDS OrderEntity, Integers, Sequences, FiniteSets
LOCAL INSTANCE SequencesExt
LOCAL INSTANCE TLC

Ok(v) == [ok |-> v]
Failed(error) == [err |-> error]
IsOk(answer) == "ok" \in DOMAIN answer

Plain(text) == [plain |-> text]
Json(status) == [json |-> status]

(* The fields of a variant.  The reason of a cancellation or a rejection   *)
(* is left out: a text without one is read as an empty reason.             *)
StatusFields(variant) ==
  CASE variant = "Created" -> {}
    [] variant = "PartiallyFilled" -> {"filled", "remaining", "avg_price"}
    [] OTHER -> {"at"}

FromStatus(status) == Json(status)

(* to_status(): an unknown variant, a missing field or a quantity or price *)
(* that Quantity::new() and Price::new() refuse is an error.               *)
ToStatus(text) ==
  LET s == text.json
  IN IF /\ "json" \in DOMAIN text /\ s.variant \in OrderStatus
        /\ StatusFields(s.variant) \subseteq DOMAIN s
        /\ s.variant = "PartiallyFilled" =>
             \A field \in StatusFields(s.variant) : s[field] > 0
     THEN Ok([field \in {"variant"} \cup StatusFields(s.variant) |-> s[field]])
     ELSE Failed("serialization")

(* row_to_order(): the status is parsed, and the order is a new one.       *)
RowToOrder(id, row) ==
  IF row.quantity > 0 /\ IsOk(ToStatus(row.status))
  THEN Ok([id |-> id, account |-> row.account, symbol |-> row.symbol] @@ OrderNewWithId(row.quantity))
  ELSE Failed("serialization")

(* A query reads every row it selects, the latest first, or fails.         *)
Select(table, Where(_)) ==
  LET ids == SetToSortSeq({id \in DOMAIN table : Where(table[id])},
                          LAMBDA a, b : table[a].created > table[b].created)
      read == [i \in DOMAIN ids |-> RowToOrder(ids[i], table[ids[i]])]
  IN IF \A i \in DOMAIN read : IsOk(read[i]) THEN Ok([i \in DOMAIN read |-> read[i].ok])
     ELSE Failed("serialization")
-----------------------------------------------------------------------------
(* The columns of an order.  The account's is given the order's own id.    *)
Columns(id, order, status) ==
  [account |-> id, symbol |-> order.symbol, quantity |-> order.quantity,
   status |-> FromStatus(status)]

(* save() makes a row or overwrites all of it but its creation.            *)
OrderSave(table, id, order, status, now) ==
  LET created == IF id \in DOMAIN table THEN table[id].created ELSE now
  IN (id :> (Columns(id, order, status) @@ [created |-> created, updated |-> now])) @@ table

OrderUpdate(table, id, order, status, now) ==
  IF id \in DOMAIN table THEN Ok(OrderSave(table, id, order, status, now))
  ELSE Failed("not found")

OrderDelete(table, id) ==
  IF id \in DOMAIN table THEN Ok([other \in DOMAIN table \ {id} |-> table[other]])
  ELSE Failed("not found")

(* get() and find_by_id().                                                 *)
OrderGet(table, id) ==
  IF id \in DOMAIN table THEN RowToOrder(id, table[id]) ELSE Failed("none")

OpenTexts == {Plain(s) : s \in {t \in OrderStatus : IsActive(t)}}

OrdersOf(table, account) == Select(table, LAMBDA row : row.account = account)
ActiveOrdersOf(table, account) ==
  Select(table, LAMBDA row : row.account = account /\ row.status \in OpenTexts)
OpenOrders(table) == Select(table, LAMBDA row : row.status \in OpenTexts)
OrdersBySymbol(table, symbol) == Select(table, LAMBDA row : row.symbol = symbol)
OrderHistory(table, start, end) == Select(table, LAMBDA row : row.created \in start..end)

(* The texts that LIKE variant || '%' matches; a JSON text begins with {.  *)
StartsWith(text, variant) == text = Plain(variant)
CountByStatus(table, variant) ==
  Cardinality({id \in DOMAIN table : StartsWith(table[id].status, variant)})
-----------------------------------------------------------------------------
LOCAL Statuses ==
  {[variant |-> "Created"]}
    \cup [variant : {"Submitted", "Pending", "Filled", "Cancelled", "Rejected"}, at : 1..2]
    \cup [variant : {"PartiallyFilled"}, filled : 0..2, remaining : 0..2, avg_price : 1..2]
LOCAL Readable(status) ==
  status.variant = "PartiallyFilled" => status.filled > 0 /\ status.remaining > 0
LOCAL Sample == [symbol |-> "x", quantity |-> 3]

(* Two orders saved one after the other, with any statuses.                *)
LOCAL SampleTable(s, t) ==
  OrderSave(OrderSave(<<>>, "a", Sample, s, 1), "b", Sample, t, 2)

(* A status that is stored is read as what it was, but for the two kinds   *)
(* of partial fills the type does not exclude: nothing filled (the gateway *)
(* gives such a status to an order its API still holds) or nothing left.   *)
ASSUME StatusRoundTrip ==
  \A s \in Statuses : ToStatus(FromStatus(s)) = IF Readable(s) THEN Ok(s) ELSE Failed("serialization")

(* One row that cannot be read makes every query that selects it fail, and *)
(* with it the rows that can.                                              *)
ASSUME OneRowFailsTheQuery ==
  \A s, t \in Statuses :
    LET table == SampleTable(s, t) IN
      /\ IsOk(OrdersBySymbol(table, "x")) <=> Readable(s) /\ Readable(t)
      /\ OrderHistory(table, 2, 2) = OrdersOf(table, "b")
      /\ IsOk(OrderGet(table, "a")) <=> Readable(s)
      /\ Readable(s) /\ Readable(t) =>
           LET orders == OrdersBySymbol(table, "x").ok IN
             [i \in DOMAIN orders |-> orders[i].id] = <<"b", "a">>

(* Every order comes back as one that was just created, and the queries    *)
(* that compare the column with the name of a variant find none, since it  *)
(* holds a JSON text: no stored order is open, active or counted.          *)
ASSUME NothingIsFoundOpen ==
  \A s, t \in {u \in Statuses : Readable(u)} :
    LET table == SampleTable(s, t) IN
      /\ OpenOrders(table) = Ok(<<>>) /\ ActiveOrdersOf(table, "a") = Ok(<<>>)
      /\ \A variant \in OrderStatus : CountByStatus(table, variant) = 0
      /\ OrderGet(table, "a").ok.status = "Created" /\ OrderGet(table, "a").ok.filled = 0
      /\ OrdersOf(table, "account") = Ok(<<>>)

(* save() and update() agree on a row there is, which keeps its creation;  *)
(* a row that is gone cannot be updated or deleted but is saved anew.      *)
ASSUME UpdateNeedsARow ==
  \A s, t \in {u \in Statuses : Readable(u)} :
    LET one == OrderSave(<<>>, "a", Sample, s, 1)
        gone == OrderDelete(one, "a").ok
    IN /\ OrderUpdate(one, "a", Sample, t, 2) = Ok(OrderSave(one, "a", Sample, t, 2))
       /\ OrderSave(one, "a", Sample, t, 2)["a"].created = 1
       /\ OrderGet(gone, "a") = Failed("none")
       /\ OrderUpdate(gone, "a", Sample, t, 2) = Failed("not found")
       /\ OrderDelete(gone, "a") = Failed("not found")
       /\ OrderSave(gone, "a", Sample, t, 2)["a"].created = 2
=============================================================================
