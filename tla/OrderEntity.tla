----------------------------- MODULE OrderEntity -----------------------------
(***************************************************************************)
(* The Order aggregate of crates/domain/src/entities.rs: the status, the   *)
(* state machine that update_status() guards, and the mutators fill(),     *)
(* cancel() and reject(), which set the status directly without consulting *)
(* that machine.  Prices, timestamps and reasons are abstracted away.      *)
(***************************************************************************)
EXTENDS Naturals

OrderStatus == {"Created", "Submitted", "Pending", "PartiallyFilled",
                "Filled", "Cancelled", "Rejected"}

IsActive(s) == s \in {"Created", "Submitted", "Pending", "PartiallyFilled"}

IsTerminal(s) == s \in {"Filled", "Cancelled", "Rejected"}

CanCancel(s) == IsActive(s)

(* The transitions update_status() accepts.  The first arm of the match,   *)
(* "same variant", also covers the terminal variants.                      *)
IsValidTransition(from, to) ==
  \/ from = to
  \/ from = "Created" /\ to \in {"Submitted", "Cancelled", "Rejected"}
  \/ from = "Submitted" /\ to \in {"Pending", "Rejected", "Cancelled"}
  \/ from = "Pending" /\ to \in {"PartiallyFilled", "Filled", "Rejected", "Cancelled"}
  \/ from = "PartiallyFilled" /\ to \in {"Filled", "Cancelled", "Rejected"}

Order == [status : OrderStatus, quantity : Nat \ {0}, filled : Nat]

(* Order::new() builds an order that is already Pending; only              *)
(* Order::new_with_id() builds one that is Created.                        *)
OrderNew(qty)       == [status |-> "Pending", quantity |-> qty, filled |-> 0]
OrderNewWithId(qty) == [status |-> "Created", quantity |-> qty, filled |-> 0]

(* validate_for_submission(): the checks on symbol, prices and time in     *)
(* force concern data that is abstracted; the state check remains.         *)
ValidForSubmission(o) == o.quantity > 0 /\ o.status = "Created"

RemainingQuantity(o) == o.quantity - o.filled

(* seeded fault: an order reported as Filled is taken to be filled up      *)
UpdateStatusFills(o, s) ==
  [o EXCEPT !.status = s, !.filled = IF s = "Filled" THEN o.quantity ELSE @]

UpdateStatus(o, s) == [o EXCEPT !.status = s]

(* seeded faults: one of the two checks of fill() is missing               *)
CanFillActive(o, q) == IsActive(o.status)
CanFillFitting(o, q) == q <= RemainingQuantity(o)

(* fill() fails unless the order is active and the fill fits.              *)
CanFill(o, q) == IsActive(o.status) /\ q <= RemainingQuantity(o)

(* seeded fault: the fill replaces the filled quantity                     *)
FillOrderLast(o, q) ==
  [status |-> IF q = o.quantity THEN "Filled" ELSE "PartiallyFilled",
   quantity |-> o.quantity,
   filled |-> q]

(* The status after a fill depends only on what remains: a Created or      *)
(* Submitted order jumps straight to Filled or PartiallyFilled.            *)
FillOrder(o, q) ==
  [status |-> IF o.filled + q = o.quantity THEN "Filled" ELSE "PartiallyFilled",
   quantity |-> o.quantity,
   filled |-> o.filled + q]

CancelOrder(o) == [o EXCEPT !.status = "Cancelled"]

RejectOrder(o) == [o EXCEPT !.status = "Rejected"]

(* remaining_quantity() relies on "filled_quantity <= quantity by          *)
(* construction invariant" when it skips the check of Quantity::new.       *)
WellFormed(o) == o \in Order /\ o.filled <= o.quantity
=============================================================================
