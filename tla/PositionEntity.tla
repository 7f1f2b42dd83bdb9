---------------------------- MODULE PositionEntity ----------------------------
(***************************************************************************)
(* Fills, their aggregation, positions and accounts, from                  *)
(* crates/domain/src/entities.rs, and the services of services.rs on them. *)
(* Prices and amounts are in smallest units, quantities are whole; an      *)
(* average is exact when every price is a multiple of every quantity.      *)
(***************************************************************************)
EXTENDS Values, Sequences, TLC

LOCAL INSTANCE SequencesExt

Direction(side) == IF side = "Buy" THEN "Long" ELSE "Short"
ToSide(direction) == IF direction = "Long" THEN "Buy" ELSE "Sell"

(* Fill::new() has no commission, with_commission() and the builder do.    *)
Fill(order, side, qty, price) ==
  [order |-> order, side |-> side, quantity |-> qty, price |-> price, commission |-> 0]
FillWithCommission(order, side, qty, price, commission) ==
  [Fill(order, side, qty, price) EXCEPT !.commission = commission]

FillNotional(f) == f.price * f.quantity

(* What a buyer pays, or a seller receives, with the commission.           *)
FillNetValue(f) == FillNotional(f) + Sign(f.side) * f.commission

(* pnl() takes the fill for one that closes at its price what was entered  *)
(* at entry: a sale earns when the price rose, a purchase when it fell.    *)
FillPnl(f, entry) == -Sign(f.side) * (f.price - entry) * f.quantity - f.commission

IsClosing(f, direction) == f.side # ToSide(direction)
-----------------------------------------------------------------------------
NewAggregation == [quantity |-> 0, avg |-> 0, notional |-> 0, commission |-> 0, count |-> 0]

AddToAggregation(agg, f) ==
  LET quantity == agg.quantity + f.quantity
  IN [quantity |-> quantity,
      avg |-> IF quantity = 0 THEN agg.avg
              ELSE (agg.avg * agg.quantity + FillNotional(f)) \div quantity,
      notional |-> agg.notional + FillNotional(f),
      commission |-> agg.commission + f.commission,
      count |-> agg.count + 1]

FromFills(fills) == FoldLeft(AddToAggregation, NewAggregation, fills)

AggregationNetValue(agg, side) == agg.notional + Sign(side) * agg.commission

(* calculate_avg_fill_price() of an order: avgs holds the average of a     *)
(* PartiallyFilled status; any other status has none.                      *)
AvgFillPrice(avgs, filledBefore, qty, price) ==
  LET before == IF avgs = {} THEN price ELSE CHOOSE a \in avgs : TRUE
  IN IF filledBefore = 0 THEN price
     ELSE (before * filledBefore + price * qty) \div (filledBefore + qty)
-----------------------------------------------------------------------------
NewPosition(side, qty, price) ==
  [side |-> side, quantity |-> qty, avg |-> price, current |-> price,
   unrealized |-> 0, realized |-> 0]

IsLong(position) == position.side = "Buy"
IsShort(position) == position.side = "Sell"
MarketValue(position) == position.current * position.quantity

(* The profit of q units that were entered at the average price.           *)
Gain(position, q, price) == (price - position.avg) * q * Sign(position.side)

UpdatePrice(position, price) ==
  [position EXCEPT !.current = price, !.unrealized = Gain(position, position.quantity, price)]

CanAddFill(position, f) == f.side = position.side

Grown(position, f) ==
  LET quantity == position.quantity + f.quantity
  IN [position EXCEPT !.quantity = quantity,
                      !.avg = (position.avg * position.quantity + FillNotional(f)) \div quantity]

AddFill(position, f) == UpdatePrice(Grown(position, f), position.current)

AddRealizedPnl(position, pnl) == [position EXCEPT !.realized = @ + pnl]

(* close(): the report of what was closed, and the emptied position.       *)
ClosedPosition(position, exit) ==
  [side |-> position.side, quantity |-> position.quantity, entry |-> position.avg,
   exit |-> exit, realized |-> Gain(position, position.quantity, exit)]

Close(position, exit) ==
  [AddRealizedPnl(position, Gain(position, position.quantity, exit))
     EXCEPT !.quantity = 0, !.unrealized = 0]
-----------------------------------------------------------------------------
(* PositionService.  Only open_position() and the profit of                *)
(* close_position() change a position: the quantities that                 *)
(* increase_position() and close_position() report stay in their events.   *)
OpenPosition(side, qty, price) == NewPosition(ToSide(Direction(side)), qty, price)

IncreasePositionEvent(position, qty, price) ==
  LET quantity == position.quantity + qty
  IN [quantity |-> quantity,
      avg |-> (position.avg * position.quantity + price * qty) \div quantity]

CanClosePosition(position, qty) == qty <= position.quantity

ClosePosition(position, qty, exit) == AddRealizedPnl(position, Gain(position, qty, exit))

ClosePositionEvent(position, qty) ==
  [closed |-> qty = position.quantity, quantity |-> position.quantity - qty, avg |-> position.avg]

(* position_to_dto(): what a caller of the use cases is told.              *)
PositionDto(position) == position @@ [direction |-> Direction(position.side)]
-----------------------------------------------------------------------------
(* Accounts: a balance may be negative, and is replaced, never added to.   *)
NewAccount(named, currency, balance) ==
  Checked(named, [currency |-> currency, balance |-> Money(balance, currency)], "Validation")

UpdateBalance(account, balance) == [account EXCEPT !.balance.amount = balance]

HasSufficientFunds(account, required) == account.balance.amount >= required

(* The use case that creates accounts knows five of the eight currencies.  *)
ParseAccountCurrency(code) ==
  Checked(code \in {"USD", "EUR", "GBP", "JPY", "CHF"}, code, "Validation")

AccountDto(account) == [currency |-> account.currency, balance |-> account.balance.amount]
-----------------------------------------------------------------------------
(* Laws of the operators, over small samples that TLC enumerates.          *)

LOCAL Grain == 12
LOCAL SamplePrices == {Grain, 2 * Grain, 3 * Grain}
LOCAL SampleFills ==
  {FillWithCommission(1, side, qty, price, commission) :
     side \in Side, qty \in 1..2, price \in SamplePrices, commission \in {0, 5}}

(* The average of an aggregation is its notional over its quantity, in     *)
(* whatever order the fills came, and the net values add up.               *)
ASSUME AggregationIsExact ==
  \A f, g \in SampleFills :
    LET agg == FromFills(<<f, g>>)
    IN /\ agg.avg * agg.quantity = FillNotional(f) + FillNotional(g)
       /\ agg = FromFills(<<g, f>>)
       /\ f.side = g.side => AggregationNetValue(agg, f.side) = FillNetValue(f) + FillNetValue(g)

(* The order, the aggregation and the position average alike.              *)
ASSUME AveragesAgree ==
  \A f, g \in SampleFills :
    f.side = g.side =>
      LET position == AddFill(NewPosition(f.side, f.quantity, f.price), g)
      IN /\ position.avg = FromFills(<<f, g>>).avg
         /\ position.avg = AvgFillPrice({f.price}, f.quantity, g.quantity, g.price)
         /\ position.avg = IncreasePositionEvent(NewPosition(f.side, f.quantity, f.price),
                                                 g.quantity, g.price).avg

(* The profit of the fill that closes all of a position is that of         *)
(* close(), without the commission; the two fills' net values differ by    *)
(* that profit and the commission of the entry.                            *)
ASSUME ClosingFillEarnsTheGain ==
  \A f, g \in SampleFills :
    LET position == NewPosition(f.side, f.quantity, f.price)
    IN IsClosing(g, Direction(f.side)) /\ g.quantity = f.quantity =>
         /\ FillPnl(g, f.price) + g.commission = ClosedPosition(position, g.price).realized
         /\ Close(position, g.price).realized = ClosedPosition(position, g.price).realized
         /\ FillPnl(g, f.price) - f.commission
              = -Sign(f.side) * FillNetValue(f) - Sign(g.side) * FillNetValue(g)
(* The life of a position: fills of its side, new prices and closes.       *)
LOCAL Deals ==
  {[kind |-> kind, qty |-> qty, price |-> price] :
     kind \in {"fill", "mark", "close"}, qty \in 1..2, price \in {420, 840}}

(* A deal on the position, and on the cash that changed hands so far.      *)
LOCAL Deal(state, d) ==
  LET position == state.position
      sign == Sign(position.side)
  IN CASE d.kind = "fill" ->
            [position |-> AddFill(position, Fill(1, position.side, d.qty, d.price)),
             cash |-> state.cash - sign * d.qty * d.price]
       [] d.kind = "mark" -> [state EXCEPT !.position = UpdatePrice(position, d.price)]
       [] d.kind = "close" ->
            [position |-> Close(position, d.price),
             cash |-> state.cash + sign * position.quantity * d.price]

(* Whatever was traded, the profit a position reports is the cash it       *)
(* brought and what it is worth at the last price.  It holds for the       *)
(* position's own methods; PositionService.close_position() books a profit *)
(* on units it does not take out.                                          *)
ASSUME ProfitAccountsForDeals ==
  \A side \in Side, deals \in BoundedSeq(Deals, 3) :
    LET start == [position |-> OpenPosition(side, 1, 420), cash |-> -Sign(side) * 420]
        end == FoldLeft(Deal, start, deals)
    IN end.position.realized + end.position.unrealized
         = end.cash + Sign(side) * MarketValue(end.position)
=============================================================================
