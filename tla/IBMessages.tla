------------------------------ MODULE IBMessages ------------------------------
(***************************************************************************)
(* What crosses the border to Interactive Brokers, in                      *)
(* crates/infrastructure/src/external/ib: its orders, executions, status   *)
(* reports, bars, ticks, contracts, error codes and the configuration, and *)
(* the functions that translate them.  A float is a number or none, as a   *)
(* text is (Values); an Option is a set of at most one element.            *)
(***************************************************************************)
EXTENDS Values

IBOrder ==
  [order_id : Nat, action : {"BUY", "SELL"}, total_quantity : Int,
   order_type : {"MKT", "LMT", "STP", "STP LMT"},
   lmt_price : SUBSET Nat, aux_price : SUBSET Nat, tif : {"DAY", "GTC", "IOC", "FOK"}]

IBOrderType(type) ==
  CASE type = "Market" -> "MKT" [] type = "Limit" -> "LMT"
    [] type = "Stop" -> "STP"   [] type = "StopLimit" -> "STP LMT"
IBTif(tif) == IF tif = "Day" THEN "DAY" ELSE tif

(* IBOrder::new() has no prices; the two setters add them.                 *)
IBOrderNew(id, action, quantity, type, tif) ==
  [order_id |-> id, action |-> action, total_quantity |-> quantity, order_type |-> type,
   lmt_price |-> {}, aux_price |-> {}, tif |-> tif]

(* An order without a price that its type needs is rejected; a price that  *)
(* it does not need is left out.                                           *)
ConvertToIBOrder(order, id) ==
  LET plain == IBOrderNew(id, SideText(order.side), order.quantity,
                          IBOrderType(order.type), IBTif(order.tif))
      limit == IF RequiresLimitPrice(order.type) THEN order.limit ELSE {}
      stop  == IF RequiresStopPrice(order.type) THEN order.stop ELSE {}
  IN Checked(/\ RequiresLimitPrice(order.type) => order.limit # {}
             /\ RequiresStopPrice(order.type) => order.stop # {},
             [plain EXCEPT !.lmt_price = limit, !.aux_price = stop], "OrderRejected")

(* IBContract::stock(), which place_order() calls whatever the symbol is.  *)
IBContractStock == [sec_type |-> "STK", exchange |-> "SMART", currency |-> "USD"]
-----------------------------------------------------------------------------
DecimalOrZero(float) == IF float.numeric THEN float.value ELSE 0

IBStatus == {"Submitted", "PreSubmitted", "PendingSubmit", "Filled", "PartiallyFilled",
             "ApiPending", "Cancelled", "ApiCancelled", "Inactive",
             "PendingCancel"}  \* stands for all that the code does not know

(* convert_order_status(): a partial fill takes what it is told, a filled  *)
(* order with something left is Pending.                                   *)
ConvertOrderStatus(ib, filled, remaining, avg) ==
  LET is(status) == [status |-> status]
      because(status, reason) == [status |-> status, reason |-> reason]
  IN CASE ib \in {"Submitted", "PreSubmitted"} -> is("Submitted")
       [] ib = "Filled" /\ remaining.numeric /\ remaining.value <= 0 -> is("Filled")
       [] ib \in {"PartiallyFilled", "ApiPending"} ->
            [status |-> "PartiallyFilled", filled |-> DecimalOrZero(filled),
             remaining |-> DecimalOrZero(remaining), avg |-> DecimalOrZero(avg)]
       [] ib \in {"Cancelled", "ApiCancelled"} ->
            because("Cancelled", "Cancelled by user or system")
       [] ib = "Inactive" -> because("Rejected", "Order inactive")
       [] OTHER -> is("Pending")

(* convert_order_status_internal(), a copy with reasons of its own, which  *)
(* the event processor uses.                                               *)
ConvertOrderStatusInternal(ib, filled, remaining, avg) ==
  CASE ib \in {"Cancelled", "ApiCancelled"} -> [status |-> "Cancelled", reason |-> "Cancelled"]
    [] ib = "Inactive" -> [status |-> "Rejected", reason |-> "Inactive"]
    [] OTHER -> ConvertOrderStatus(ib, filled, remaining, avg)

(* OrderTracking::new() and its update by an OrderStatus event: a float    *)
(* that is no decimal leaves the number as it was.                         *)
TrackingNew(order, id, quantity) ==
  [order |-> order, id |-> id, status |-> [status |-> "Pending"], filled |-> 0,
   remaining |-> quantity, avg |-> {}, last |-> {}]

TrackStatus(track, e) ==
  LET known(float, old) == IF float.numeric THEN float.value ELSE old
      price(float, old) == IF float.numeric THEN {float.value} ELSE old
  IN [track EXCEPT
        !.status = ConvertOrderStatusInternal(e.status, e.filled, e.remaining, e.avg),
        !.filled = known(e.filled, @), !.remaining = known(e.remaining, @),
        !.avg = price(e.avg, @), !.last = price(e.last, @)]
-----------------------------------------------------------------------------
IBSide == {"BOT", "SLD"}

(* convert_exec_to_fill(): the quantity and the price are not checked, the *)
(* time is the present one when it cannot be read.                         *)
ConvertExecToFill(exec, order, now) ==
  LET symbol == NewSymbol(exec.symbol)
  IN IF exec.side \notin IBSide \/ ~symbol.ok THEN Err("ExchangeError")
     ELSE Ok([order |-> order, symbol |-> symbol.value,
              side |-> IF exec.side = "BOT" THEN "Buy" ELSE "Sell",
              quantity |-> DecimalOrZero(exec.shares), price |-> DecimalOrZero(exec.price),
              time |-> IF exec.time.numeric THEN exec.time.value ELSE now,
              commission |-> {Money(DecimalOrZero(c), "USD") : c \in exec.commission}])

(* convert_exec_to_fill_internal(), which has forgotten the commission.    *)
ConvertExecToFillInternal(exec, order, now) ==
  LET fill == ConvertExecToFill(exec, order, now)
  IN IF fill.ok THEN Ok([fill.value EXCEPT !.commission = {}]) ELSE fill

ExecutionErrorOf(code) ==
  CASE code = 200 -> "OrderNotFound"     [] code = 201 -> "OrderRejected"
    [] code = 202 -> "InvalidOrderState" [] code = 103 -> "InsufficientFunds"
    [] code = 321 -> "MarketClosed"      [] OTHER -> "ExchangeError"

ProviderErrorOf(code) ==
  CASE code \in 502..504 -> "ConnectionFailed"   [] code = 506 -> "Disconnected"
    [] code = 507 -> "AuthenticationFailed"      [] code \in 2100..2199 -> "NotSupported"
    [] OTHER -> "InvalidResponse"
-----------------------------------------------------------------------------
(* SubscriptionInfo: a subscription of bars has a time frame and a sender  *)
(* of bars, one of ticks has no time frame and a sender of ticks.          *)
NewBarSubscription(symbol, timeframe, req, tx) ==
  [symbol |-> symbol, timeframe |-> {timeframe}, req_id |-> req, bar_tx |-> {tx}, tick_tx |-> {}]
NewTickSubscription(symbol, req, tx) ==
  [symbol |-> symbol, timeframe |-> {}, req_id |-> req, bar_tx |-> {}, tick_tx |-> {tx}]

IsBarSubscription(sub) == sub.timeframe # {}

MarketDataUpdate ==
  [bid : SUBSET Nat, ask : SUBSET Nat, last : SUBSET Nat, last_size : SUBSET Nat]

The(option) == CHOOSE v \in option : TRUE

(* convert_ib_tick(): the last price, or the middle of bid and ask, or the *)
(* one of them that there is.                                              *)
TickPrice(data) ==
  IF data.last # {} THEN data.last
  ELSE IF data.bid # {} /\ data.ask # {} THEN {(The(data.bid) + The(data.ask)) \div 2}
       ELSE data.bid \cup data.ask

ConvertIBTick(data) ==
  IF TickPrice(data) = {} THEN Err("InvalidResponse")
  ELSE NewTick(The(TickPrice(data)),
               IF data.last_size = {} THEN 0 ELSE The(data.last_size) \div Scale, {})

(* process_market_data(): who is sent the tick of an update.               *)
ProcessMarketData(subs, req, data) ==
  UNION {sub.tick_tx : sub \in {s \in subs : s.req_id = req /\ IsBarSubscription(s)
                                                           /\ ConvertIBTick(data).ok}}

(* convert_ib_bar(): every price is a positive decimal, the time exists.   *)
ConvertIBBar(validTime, open, high, low, close, volume) ==
  LET converted(float) == float.numeric /\ NewPrice(float.value).ok
      bar == NewBar(open.value, high.value, low.value, close.value, volume)
  IN IF /\ validTime /\ \A float \in {open, high, low, close} : converted(float)
        /\ NewVolume(volume).ok /\ bar.ok
     THEN bar ELSE Err("InvalidResponse")

IBDuration(tf) ==
  CASE tf = "M1" -> Ok("1 min")   [] tf = "M5" -> Ok("5 min")
    [] tf = "M15" -> Ok("15 min") [] tf = "M30" -> Ok("30 min")
    [] tf = "H1" -> Ok("1 hour")  [] OTHER -> Err("NotSupported")

(* create_contract(): what stands behind the only "/" is the expiry.       *)
CreateContract(symbol, slashes) ==
  CASE IsFutures(symbol) ->
         [sec_type |-> "FUT", exchange |-> "GLOBEX", currency |-> "USD", expiry |-> slashes = 1]
    [] ~IsFutures(symbol) /\ IsOption(symbol) ->
         [sec_type |-> "OPT", exchange |-> "SMART", currency |-> "USD", expiry |-> FALSE]
    [] OTHER ->
         [sec_type |-> "STK", exchange |-> "SMART", currency |-> "USD", expiry |-> FALSE]
-----------------------------------------------------------------------------
(* The ranges that validate() demands of an IBConfig, in milliseconds.     *)
IBConfig ==
  [port : 1..65535, client_id : 0..999999, connect_timeout_ms : 1000..60000,
   auto_reconnect : BOOLEAN, max_reconnect_attempts : 0..100,
   initial_retry_delay_ms : 100..5000, max_retry_delay_ms : 1000..60000,
   heartbeat_interval_ms : 5000..300000, connection_dead_timeout_ms : 10000..300000]

IBConfigDefault ==
  [port |-> 7497, client_id |-> 1, connect_timeout_ms |-> 5000, auto_reconnect |-> TRUE,
   max_reconnect_attempts |-> 10, initial_retry_delay_ms |-> 100, max_retry_delay_ms |-> 5000,
   heartbeat_interval_ms |-> 30000, connection_dead_timeout_ms |-> 60000]

LiveTrading == [IBConfigDefault EXCEPT !.port = 7496]
PaperTrading == [IBConfigDefault EXCEPT !.port = 7497]

(* Activity is noted when a connection is made, and nowhere else: it is    *)
(* found dead at the first heartbeat past the time-out, after these.       *)
BeatsSurvived(config) == config.connection_dead_timeout_ms \div config.heartbeat_interval_ms
-----------------------------------------------------------------------------
(* Laws, over small samples that TLC enumerates.                           *)

LOCAL Option(S) == {{}} \cup {{v} : v \in S}
LOCAL Floats == {Numeric(v) : v \in -1..2} \cup {NotNumeric}
LOCAL OrderRecords ==
  [side : Side, type : OrderType, tif : TimeInForce, quantity : 1..2,
   limit : Option(1..2), stop : Option(1..2)]

(* What an order's type lets it say is all in the IB order: two orders     *)
(* that become the same one differ at most in prices that they do not use. *)
ASSUME NothingLostInTheOrder ==
  \A o, p \in {q \in OrderRecords : ConvertToIBOrder(q, 1).ok} :
    ConvertToIBOrder(o, 1) = ConvertToIBOrder(p, 1) =>
      /\ o.side = p.side /\ o.type = p.type /\ o.tif = p.tif /\ o.quantity = p.quantity
      /\ RequiresLimitPrice(o.type) => o.limit = p.limit
      /\ RequiresStopPrice(o.type) => o.stop = p.stop

(* The two copies of each conversion agree in everything but the reason    *)
(* and the commission, and a commission that IB reports never reaches the  *)
(* subscriber of the fills.                                                *)
ASSUME CopiesAgree ==
  /\ \A ib \in IBStatus, f, r \in Floats :
       ConvertOrderStatus(ib, f, r, f).status = ConvertOrderStatusInternal(ib, f, r, f).status
  /\ \A side \in IBSide \cup {"?"}, shares \in Floats, c \in Option(Floats), len \in {0, 3} :
       LET exec == [side |-> side, symbol |-> [len |-> len, chars |-> {"upper"}],
                    shares |-> shares, price |-> shares, time |-> NotNumeric, commission |-> c]
           fill == ConvertExecToFill(exec, 1, 0)
           copy == ConvertExecToFillInternal(exec, 1, 0)
       IN /\ fill.ok = copy.ok
          /\ fill.ok => /\ [fill.value EXCEPT !.commission = {}] = copy.value
                        /\ copy.value.commission = {}

(* An order ends only when IB says that it has; but an order that is being *)
(* cancelled, or filled with something left, goes back to Pending.         *)
ASSUME EndsOnlyWhenIBSaysSo ==
  \A ib \in IBStatus, f, r \in Floats :
    LET status == ConvertOrderStatus(ib, f, r, f).status
    IN /\ status \in {"Filled", "Cancelled", "Rejected"} =>
            ib \in {"Filled", "Cancelled", "ApiCancelled", "Inactive"}
       /\ ib = "PendingCancel" => status = "Pending"
       /\ ib = "Filled" => status = (IF r.numeric /\ r.value <= 0 THEN "Filled" ELSE "Pending")

(* After any two reports a tracked number is one that was reported, and    *)
(* a float that is no decimal loses nothing that was known.                *)
ASSUME TrackingKeepsWhatIsKnown ==
  \A f, g, h \in Floats :
    LET e(x) == [status |-> "PartiallyFilled", filled |-> x, remaining |-> x, avg |-> x,
                 last |-> x]
        track == TrackStatus(TrackStatus(TrackingNew(1, 7, 2), e(f)), e(g))
    IN /\ g.numeric => track.filled = g.value /\ track.avg = {g.value}
       /\ ~g.numeric /\ f.numeric => track.filled = f.value /\ track.last = {f.value}
       /\ ~g.numeric /\ ~f.numeric => track.remaining = 2 /\ track.avg = {}
       /\ track.order = 1 /\ track.id = 7

(* "Routes them to the appropriate subscription channels"                  *)
(* (market_data.rs:213) does not happen: only subscriptions of bars are    *)
(* looked at, and they have no sender of ticks.                            *)
ASSUME NoTickIsRouted ==
  \A bars \in SUBSET {NewBarSubscription("A", "M1", 1, "a"), NewBarSubscription("B", "M5", 2, "b")} :
    \A ticks \in SUBSET {NewTickSubscription("C", 3, "c"), NewTickSubscription("D", 4, "d")} :
      \A req \in 1..4, last \in Option({2}) :
        ProcessMarketData(bars \cup ticks, req,
                          [bid |-> {2}, ask |-> {}, last |-> last, last_size |-> {}]) = {}

(* The price of a tick lies between bid and ask or is the last one; a size *)
(* below one whole unit becomes zero.                                      *)
ASSUME TickIsInsideTheSpread ==
  \A bid, ask, last \in Option({2, 4, 6}), size \in Option(1..(2 * Scale)) :
    LET tick == ConvertIBTick([bid |-> bid, ask |-> ask, last |-> last, last_size |-> size])
    IN /\ tick.ok <=> bid \cup ask \cup last # {}
       /\ tick.ok /\ last = {} => \A b \in bid, a \in ask :
            b <= a => tick.value.price \in b..a
       /\ tick.ok /\ size # {} /\ The(size) < Scale => tick.value.size = 0

(* A bar from IB that is accepted is one that the domain accepts again.    *)
ASSUME BarsOfIBAreSound ==
  \A o, h, l, c \in {Numeric(0), Numeric(1), Numeric(2), NotNumeric}, v \in -1..1 :
    LET bar == ConvertIBBar(TRUE, o, h, l, c, v) IN
      bar.ok => /\ bar.value.low >= 1 /\ bar.value.volume >= 0
                /\ NewBar(bar.value.open, bar.value.high, bar.value.low, bar.value.close, v) = bar

(* A future or an option is watched as what it is and ordered as a stock.  *)
ASSUME OrderedAsStock ==
  \A chars \in SUBSET {"upper", "/", ":"}, slashes \in 1..2 :
    CreateContract([len |-> 3, chars |-> chars], slashes).sec_type = IBContractStock.sec_type
      <=> chars \subseteq {"upper"}

(* What the provider supports is intraday, and durations are not shared.   *)
ASSUME DurationsAreDistinct ==
  \A t, u \in TimeFrame :
    IBDuration(t).ok => /\ IsIntraday(t)
                        /\ IBDuration(u) = IBDuration(t) => t = u

(* The ready-made configurations are valid, and let a connection live for  *)
(* two heartbeats; validation also lets ones through that let it live for  *)
(* none, and ones whose first retry comes later than the longest delay.    *)
ASSUME ConfigurationsLive ==
  /\ \A c \in {IBConfigDefault, LiveTrading, PaperTrading} :
       c \in IBConfig /\ BeatsSurvived(c) = 2
  /\ LET c == [IBConfigDefault EXCEPT !.heartbeat_interval_ms = 300000,
                                      !.initial_retry_delay_ms = 5000,
                                      !.max_retry_delay_ms = 1000]
     IN c \in IBConfig /\ BeatsSurvived(c) = 0

(* What breaks the connection for the provider is, for the gateway, one    *)
(* more error of the exchange.                                             *)
ASSUME ConnectionErrorsAreExchangeErrors ==
  \A code \in {103, 200, 201, 202, 321} \cup 500..510 \cup {2100, 2199} :
    ProviderErrorOf(code) # "InvalidResponse" => ExecutionErrorOf(code) = "ExchangeError"
=============================================================================
