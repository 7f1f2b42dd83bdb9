---------------------------- MODULE TradingCommand ----------------------------
(***************************************************************************)
(* The commands on orders and positions of crates/cli/src/commands/        *)
(* trading.rs, the errors they show (crates/domain/src/errors.rs and       *)
(* TradingError of trading_service.rs), and the changes and updates of an  *)
(* order in crates/domain/src/execution.rs.  Every command is a process    *)
(* with repositories of its own, which are empty when it begins.  Tables   *)
(* are functions; an option is a set of at most one value.                 *)
(***************************************************************************)
EXTENDS Values, TLC

E == INSTANCE OrderEntity

(* The variants of the errors of the domain, by the layer they come from.  *)
ValidationError == {"InvalidPrice", "InvalidQuantity", "InvalidSymbol", "InvalidTimeRange",
                    "InvalidState", "MissingField", "OutOfRange"}
ProviderError == {"ConnectionFailed", "Disconnected", "Timeout", "AuthenticationFailed",
                  "RateLimited", "InvalidResponse", "SubscriptionFailed", "NotSupported"}
RepositoryError == {"ConnectionFailed", "QueryFailed", "NotFound", "DuplicateKey",
                    "ConstraintViolation", "SerializationFailed", "TransactionFailed"}
ExecutionError == {"OrderRejected", "OrderNotFound", "InvalidOrderState", "InsufficientFunds",
                   "MarketClosed", "PriceOutOfRange", "QuantityTooLarge", "ExchangeError"}
StrategyError == {"InvalidConfiguration", "InitializationFailed", "ExecutionFailed",
                  "InvalidSignal", "RiskViolation"}

(* DomainError: a variant for each layer, and those kept from before.      *)
DomainError ==
  [layer : {"Validation"}, kind : ValidationError] \cup [layer : {"Provider"}, kind : ProviderError]
    \cup [layer : {"Repository"}, kind : RepositoryError]
    \cup [layer : {"Execution"}, kind : ExecutionError]
    \cup [layer : {"Strategy"}, kind : StrategyError]
    \cup [layer : {"legacy"},
          kind : {"Unknown", "InvalidPrice", "InvalidQuantity", "OrderValidation",
                  "InvalidStateTransition", "PositionNotFound", "SymbolNotFound", "NotImplemented"}]

TradingError == {"Validation", "RiskRejected", "Execution", "Repository", "OrderNotFound",
                 "InvalidState", "CancellationFailed"}

FromRepository(kind) == IF kind = "NotFound" THEN "OrderNotFound" ELSE "Repository"

FromExecution(kind) ==
  CASE kind = "OrderNotFound" -> "OrderNotFound"
    [] kind = "InvalidOrderState" -> "InvalidState"
    [] OTHER -> "Execution"

(* From<DomainError>: what is wrapped by Repository or Execution does not  *)
(* go through the conversion of its own kind.                              *)
FromDomain(e) ==
  CASE e.layer = "Validation" -> "Validation"
    [] e.layer = "Repository" -> "Repository"
    [] e.kind \in {"InvalidStateTransition"} -> "InvalidState"
    [] e.layer = "legacy" /\ e.kind \in {"OrderValidation", "InvalidPrice", "InvalidQuantity",
                                         "SymbolNotFound"} -> "Validation"
    [] e.kind = "PositionNotFound" -> "OrderNotFound"
    [] OTHER -> "Execution"

IsRetryable(error) == error \in {"Execution", "Repository"}
-----------------------------------------------------------------------------
(* OrderModifications: the fields that are to change.                      *)
NoModifications == [quantity |-> {}, limit_price |-> {}, stop_price |-> {}, time_in_force |-> {}]
WithModification(mods, field, v) == [mods EXCEPT ![field] = {v}]
HasNoModification(mods) == \A field \in DOMAIN mods : mods[field] = {}

(* OrderUpdate::new() and what may be added to it.                         *)
NewUpdate(order, status, filled, remaining) ==
  [order |-> order, status |-> status, filled |-> filled, remaining |-> remaining,
   avg_fill_price |-> {}, last_fill |-> {}, commission |-> {}, reason |-> {}]
WithField(update, field, v) == [update EXCEPT ![field] = {v}]
UpdateIsFilled(update) == update.status = "Filled"
UpdateIsTerminal(update) == E!IsTerminal(update.status)
-----------------------------------------------------------------------------
(* MockOrderRepository: save() and update() insert, whether or not the     *)
(* order is there, and delete() does not say whether it was.               *)
NoOrders == <<>>
MockInsert(orders, id, order) == (id :> order) @@ orders
MockDelete(orders, id) == [other \in DOMAIN orders \ {id} |-> orders[other]]
MockGet(orders, id) == IF id \in DOMAIN orders THEN {orders[id]} ELSE {}
MockOpen(orders) == {id \in DOMAIN orders : E!IsActive(orders[id].status)}
MockBySymbol(orders, symbol) == {id \in DOMAIN orders : orders[id].symbol = symbol}
MockHistory(orders, start, end) == DOMAIN orders

(* MockPositionRepository: one position per symbol; closing and deleting   *)
(* answer Ok and do nothing, and ids are never found.                      *)
MockUpsert(positions, position) == (position.symbol :> position) @@ positions
MockFindBySymbol(positions, symbol) ==
  IF symbol \in DOMAIN positions THEN {positions[symbol]} ELSE {}
MockOpenPositions(positions) == DOMAIN positions
MockClose(positions, id) == positions
MockExists(positions, id) == FALSE

(* init_trading_service(): what a command starts from.                     *)
FreshService == [orders |-> NoOrders, positions |-> <<>>]
-----------------------------------------------------------------------------
StatusFilter == {"Open", "Filled", "Cancelled", "Rejected", "All"}

FilterMatches(filter, status) ==
  CASE filter = "Open" -> E!IsActive(status)
    [] filter = "All" -> TRUE
    [] OTHER -> status = filter

(* validate_place_order_args() and the same checks of Order::new().        *)
ArgumentsOk(args) ==
  /\ RequiresLimitPrice(args.type) => args.price # {}
  /\ RequiresStopPrice(args.type) => args.stop_price # {}

(* Order::new() sets the status and the time in force, and the command     *)
(* does not pass on the time in force it was given.                        *)
OrderFromArgs(args) ==
  E!OrderNew(args.quantity) @@ [symbol |-> args.symbol, time_in_force |-> "Day"]

(* place_order() of the service as far as its first answer: an order that  *)
(* is not Created is refused before anything is read.                      *)
ExecutePlaceOrder(args) ==
  IF ~ArgumentsOk(args) THEN "bad arguments"
  ELSE LET order == OrderFromArgs(args)
       IN IF order.status = "Created" THEN "placed" ELSE "Validation"

ServiceCancel(service, id) ==
  LET found == MockGet(service.orders, id)
  IN IF found = {} THEN "OrderNotFound"
     ELSE IF \A order \in found : E!CanCancel(order.status) THEN "cancelled" ELSE "InvalidState"

ExecuteCancelOrder(id) == ServiceCancel(FreshService, id)

(* get_orders: every filter is applied to the open orders.                 *)
OrdersListed(service, filters, symbols) ==
  {id \in MockOpen(service.orders) :
     /\ \A filter \in filters : FilterMatches(filter, service.orders[id].status)
     /\ \A symbol \in symbols : service.orders[id].symbol = symbol}

PositionsListed(service, symbols) ==
  {s \in MockOpenPositions(service.positions) : \A symbol \in symbols : s = symbol}

(* print_positions_table(): the side is read off the sign of the quantity, *)
(* which is never negative.                                                *)
SideShown(position) == IF position.quantity > 0 THEN "Long" ELSE "Short"
-----------------------------------------------------------------------------
LOCAL Samples ==
  [symbol : {"ES", "NQ"}, quantity : 1..2, type : OrderType, price : {{}, {1}},
   stop_price : {{}, {1}}, tif : TimeInForce]
LOCAL Stored == [status : E!OrderStatus, symbol : {"ES", "NQ"}]
LOCAL Repository == UNION {[ids -> Stored] : ids \in SUBSET {"a", "b"}}

(* What can be repeated is told from what cannot only in part: an order    *)
(* that is refused for good and one whose fate is unknown look alike, a    *)
(* record that is missing is said to be an order, or can be retried if it  *)
(* comes wrapped.                                                          *)
ASSUME ErrorsKeepTheirLayerOnly ==
  /\ \A e \in DomainError : FromDomain(e) \in TradingError
  /\ \A kind \in ExecutionError :
       FromDomain([layer |-> "Execution", kind |-> kind]) = FromExecution(kind)
         <=> kind \notin {"OrderNotFound", "InvalidOrderState"}
  /\ \A kind \in RepositoryError :
       IsRetryable(FromRepository(kind)) <=> kind # "NotFound"
  /\ \A kind \in RepositoryError : IsRetryable(FromDomain([layer |-> "Repository", kind |-> kind]))
  /\ IsRetryable(FromExecution("InsufficientFunds")) /\ IsRetryable(FromExecution("OrderRejected"))
  /\ \A kind \in ProviderError : IsRetryable(FromDomain([layer |-> "Provider", kind |-> kind]))

(* "Place a new order" never does: what the command builds is Pending, and *)
(* the service accepts only what is Created.                               *)
ASSUME NoCommandPlaces ==
  \A args \in Samples :
    /\ ExecutePlaceOrder(args) # "placed"
    /\ ExecutePlaceOrder(args) = "bad arguments" <=> ~ArgumentsOk(args)
    /\ OrderFromArgs(args).time_in_force = args.tif <=> args.tif = "Day"

(* Nor does a command cancel or show what another one did.                 *)
ASSUME CommandsShareNothing ==
  /\ \A id \in {"a", "b"} : ExecuteCancelOrder(id) = "OrderNotFound"
  /\ \A filters \in SUBSET StatusFilter : OrdersListed(FreshService, filters, {}) = {}
  /\ PositionsListed(FreshService, {}) = {}

(* Even on a repository with orders, the filters for orders that have      *)
(* ended list none, and the one for all orders lists the open ones.        *)
ASSUME FiltersSeeOpenOrders ==
  \A orders \in Repository :
    LET service == [FreshService EXCEPT !.orders = orders] IN
      /\ \A filter \in {"Filled", "Cancelled", "Rejected"} : OrdersListed(service, {filter}, {}) = {}
      /\ OrdersListed(service, {"All"}, {}) = OrdersListed(service, {}, {})
      /\ \A id \in DOMAIN orders :
           ServiceCancel(service, id) = "cancelled" <=> id \in OrdersListed(service, {"Open"}, {})

(* The repositories for the command line agree with the tables on orders,  *)
(* but an update needs no row, a deletion no order and a history no range. *)
ASSUME MocksForgive ==
  \A orders \in Repository, order \in Stored :
    LET written == MockInsert(orders, "a", order) IN
      /\ MockGet(written, "a") = {order} /\ MockGet(MockDelete(written, "a"), "a") = {}
      /\ MockGet(written, "b") = MockGet(orders, "b")
      /\ MockHistory(written, 2, 1) = DOMAIN orders \cup {"a"}
      /\ "a" \in MockBySymbol(written, order.symbol)
      /\ MockDelete(MockDelete(written, "a"), "a") = MockDelete(written, "a")

(* A position stays in the repository when it is closed, and every one is  *)
(* shown as Long.                                                          *)
ASSUME PositionsStayAndAreLong ==
  \A symbol \in {"ES", "NQ"}, side \in {"Long", "Short"}, quantity \in 1..2 :
    LET position == [symbol |-> symbol, side |-> side, quantity |-> quantity]
        held == MockUpsert(<<>>, position)
    IN /\ MockFindBySymbol(MockClose(held, "id"), symbol) = {position}
       /\ ~MockExists(held, "id")
       /\ SideShown(position) = "Long"

(* What is added to an update or a change stays, in whatever order; an     *)
(* update that is filled is terminal.                                      *)
ASSUME UpdatesAddUp ==
  /\ HasNoModification(NoModifications)
  /\ \A f, g \in DOMAIN NoModifications :
       LET both == WithModification(WithModification(NoModifications, f, 1), g, 2) IN
         /\ ~HasNoModification(both)
         /\ f # g => both = WithModification(WithModification(NoModifications, g, 2), f, 1)
  /\ \A status \in E!OrderStatus, field \in {"last_fill", "commission", "reason"} :
       LET update == WithField(NewUpdate("a", status, 0, 2), field, 1) IN
         /\ update.avg_fill_price = {} /\ UpdateIsFilled(update) => UpdateIsTerminal(update)
=============================================================================
