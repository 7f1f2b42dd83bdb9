---------------------------- MODULE Repositories ----------------------------
(***************************************************************************)
(* The rows that TimescaleOrderRepository and TimescalePositionRepository  *)
(* of crates/infrastructure/src/database keep, what their statements do to *)
(* them, and what a row becomes when it is read back.  The tables are      *)
(* functions from keys to rows.                                            *)
(***************************************************************************)
EXTENDS OrderEntity, Integers

CONSTANT NoRow

ASSUME RowAssumption == NoRow \notin [status : OrderStatus, quantity : Nat \ {0}, filled : Nat]

(* The status column is the JSON of the status, and only the one of a      *)
(* partial fill holds quantities: there is no column for filled_quantity.  *)
OrderRow(order) ==
  [status |-> order.status, quantity |-> order.quantity,
   filled |-> IF order.status = "PartiallyFilled" THEN order.filled ELSE 0]

(* row_to_order() checks that the status parses and builds a new order.    *)
OrderOf(row) == OrderNewWithId(row.quantity)

(* save(): INSERT ... ON CONFLICT (id) DO UPDATE of every column.          *)
SaveOrder(table, o, order) == [table EXCEPT ![o] = OrderRow(order)]

Found(table, o) == table[o] # NoRow

PositionRow == [side : {"Long", "Short"}, quantity : Nat, realized : Int, open : BOOLEAN]

(* try_upsert(): the row of the symbol is opened, whatever it was.         *)
UpsertPosition(p) ==
  [side |-> p.side, quantity |-> p.quantity, realized |-> p.realized, open |-> TRUE]

(* row_to_position() reads both profits of the row and builds a position   *)
(* that has none.                                                          *)
PositionOf(row) == [side |-> row.side, quantity |-> row.quantity, realized |-> 0]

(* close_position() of the domain service books the profit; nothing        *)
(* changes the quantity of the position it was given.                      *)
Booked(p, qty, gain) ==
  [p EXCEPT !.realized = @ + (IF p.side = "Long" THEN gain ELSE 0 - gain) * qty]
=============================================================================
