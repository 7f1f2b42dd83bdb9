---------------------------- MODULE PaperLedger -----------------------------
(***************************************************************************)
(* What place_order() of PaperTradingGateway                               *)
(* (crates/infrastructure/src/providers/paper_trading.rs) computes when it *)
(* executes an order: the price of the fill, the position and the profit   *)
(* it makes, the record of the trade and the summary.  The module          *)
(* PaperGateway shows why no call gets that far; these are the operators   *)
(* as they are written.  Prices are in quarters of a tick.                 *)
(***************************************************************************)
EXTENDS PositionEntity
LOCAL INSTANCE SequencesExt
LOCAL INSTANCE FiniteSetsExt

(* get_tick_size(): the configured size, or the default.                   *)
TickSize(sizes, symbol, default) == IF symbol \in DOMAIN sizes THEN sizes[symbol] ELSE default

(* Decimal::round(): to the nearest, and to the even one of two.           *)
LOCAL RoundedQuotient(n, d) ==
  LET q == n \div d
      twice == 2 * (n % d)
  IN IF twice < d \/ (twice = d /\ q % 2 = 0) THEN q ELSE q + 1

(* A buyer pays the slippage, a seller receives less, and the price is     *)
(* then rounded to the tick.                                               *)
FillPrice(side, market, tick, slippage) ==
  RoundedQuotient(market + Sign(side) * slippage, tick) * tick

(* The price of the symbol is fixed; the spread is half of what a buyer    *)
(* and a seller differ.                                                    *)
MarketPrice(side, mid, spread) == mid + Sign(side) * spread

MarketFill(order, market, tick, slippage, commission) ==
  FillWithCommission(order.id, order.side, order.quantity,
                     FillPrice(order.side, market, tick, slippage), commission)

(* A limit order is filled when the market is no worse than its limit, at  *)
(* a price no worse than it; otherwise there is no fill.                   *)
LimitFill(order, market, tick, slippage, commission) ==
  LET reachable == IF order.side = "Buy" THEN market <= order.limit ELSE market >= order.limit
      fill == MarketFill(order, market, tick, slippage, commission)
      price == IF order.side = "Buy" THEN Min({fill.price, order.limit})
               ELSE Max({fill.price, order.limit})
  IN IF reachable THEN {[fill EXCEPT !.price = price]} ELSE {}
-----------------------------------------------------------------------------
(* A PaperOrder, and what a fill makes of it.                              *)
PaperOrder(order) == [quantity |-> order.quantity, status |-> "Created", filled |-> 0, notional |-> 0]

AddPaperFill(po, fill) ==
  LET filled == po.filled + fill.quantity
  IN [po EXCEPT !.filled = filled, !.notional = @ + FillNotional(fill),
                !.status = IF filled >= po.quantity THEN "Filled" ELSE "PartiallyFilled"]

AvgPaperPrice(po, limit) == IF po.filled = 0 THEN limit ELSE po.notional \div po.filled
-----------------------------------------------------------------------------
(* The ledger of one symbol: its positions (at most one), the total of the *)
(* realized profits, and the history of them.                              *)
EmptyLedger == [position |-> {}, realized |-> 0, trades |-> <<>>]

Realize(ledger, pnl) ==
  [ledger EXCEPT !.realized = @ + pnl, !.trades = Append(@, pnl)]

LOCAL Held(ledger) == CHOOSE p \in ledger.position : TRUE

PartialClosePnl(position, qty, exit) ==
  (exit - position.avg) * qty * (IF position.side = "Buy" THEN 1 ELSE -1)

(* update_position_from_fill(): a fill that takes a part out of a position *)
(* leaves the position as it was.                                          *)
OpenFrom(ledger, f, qty) == [ledger EXCEPT !.position = {NewPosition(f.side, qty, f.price)}]

ScaleIn(ledger, f) == [ledger EXCEPT !.position = {AddFill(Held(ledger), f)}]

Reduce(ledger, f) == Realize(ledger, PartialClosePnl(Held(ledger), f.quantity, f.price))

CloseOrReverse(ledger, f) ==
  LET rest == f.quantity - Held(ledger).quantity
      closed == Realize(ledger, ClosedPosition(Held(ledger), f.price).realized)
  IN IF rest > 0 THEN OpenFrom(closed, f, rest) ELSE [closed EXCEPT !.position = {}]

Executed(ledger, f) ==
  IF ledger.position = {} THEN OpenFrom(ledger, f, f.quantity)
  ELSE IF CanAddFill(Held(ledger), f) THEN ScaleIn(ledger, f)
  ELSE IF f.quantity < Held(ledger).quantity THEN Reduce(ledger, f)
  ELSE CloseOrReverse(ledger, f)
-----------------------------------------------------------------------------
(* get_performance_summary().  Amounts are in money, the rates in percent; *)
(* a factor of infinity is {}.                                             *)
LOCAL Won(trades) == SelectSeq(trades, LAMBDA pnl : pnl > 0)
LOCAL Lost(trades) == SelectSeq(trades, LAMBDA pnl : pnl < 0)
LOCAL Total(pnls) == FoldLeft(+, 0, pnls)

Performance(ledger, capital) ==
  LET wins == Won(ledger.trades)
      losses == Lost(ledger.trades)
      trades == Len(ledger.trades)
  IN [equity |-> capital + ledger.realized,
      total_trades |-> trades, winning |-> Len(wins), losing |-> Len(losses),
      win_rate |-> IF trades = 0 THEN 0 ELSE (100 * Len(wins)) \div trades,
      return_pct |-> IF capital <= 0 THEN 0 ELSE (100 * ledger.realized) \div capital,
      avg_win |-> IF wins = <<>> THEN 0 ELSE Total(wins) \div Len(wins),
      avg_loss |-> IF losses = <<>> THEN 0 ELSE -((-Total(losses)) \div Len(losses)),
      profit_factor |-> IF losses # <<>> THEN {Total(wins) \div (-Total(losses))}
                        ELSE IF wins # <<>> THEN {} ELSE {0}]

(* get_available_capital(): nothing changes it, no fill and no commission. *)
AvailableCapital(capital, ledger) == capital
-----------------------------------------------------------------------------
LOCAL Tick == 4
LOCAL Ticks == {Tick * n : n \in 8..11}
LOCAL Orders == [id : {1}, side : Side, quantity : 1..2, limit : Ticks]

(* Slippage never favours the order when the market stands on a tick; the  *)
(* default one, a quarter of a tick, is always rounded away, and half a    *)
(* tick on every other tick.                                               *)
ASSUME DefaultSlippageIsRoundedAway ==
  \A side \in Side, market \in Ticks :
    /\ FillPrice(side, market, Tick, 1) = market
    /\ \A slippage \in 0..Tick : Sign(side) * (FillPrice(side, market, Tick, slippage) - market) >= 0
    /\ FillPrice(side, market, Tick, 2) = market <=> (market \div Tick) % 2 = 0
    /\ FillPrice(side, market, Tick, 3) = market + Sign(side) * Tick

(* A limit order is filled as a whole, never worse than at its limit, and  *)
(* one that could be filled at its limit without slippage is filled.       *)
ASSUME NeverWorseThanTheLimit ==
  \A order \in Orders, mid \in Ticks, slippage \in 0..Tick :
    LET market == MarketPrice(order.side, mid, Tick)
        fills == LimitFill(order, market, TickSize(<<>>, "x", Tick), slippage, 5)
    IN /\ \A f \in fills : /\ Sign(order.side) * (order.limit - f.price) >= 0
                           /\ AddPaperFill(PaperOrder(order), f).status = "Filled"
                           /\ AvgPaperPrice(AddPaperFill(PaperOrder(order), f), 0) = f.price
       /\ fills = {} <=> Sign(order.side) * (order.limit - market) < 0

(* The profits that are realized and the profit of what is held are the    *)
(* cash the fills brought and the worth of what is held, unless a fill     *)
(* took only a part of a position: its profit may be made again.           *)
LOCAL LedgerFills ==
  {Fill(1, side, qty, price) : side \in Side, qty \in {1, 2}, price \in {420, 840}}
LOCAL Run(fills) ==
  FoldLeft(LAMBDA s, f :
             [ledger |-> Executed(s.ledger, f),
              cash |-> s.cash - Sign(f.side) * FillNotional(f),
              partly |-> s.partly \/ \E p \in s.ledger.position :
                           ~CanAddFill(p, f) /\ f.quantity < p.quantity],
           [ledger |-> EmptyLedger, cash |-> 0, partly |-> FALSE], fills)
LOCAL Worth(ledger, price) ==
  IF ledger.position = {} THEN 0
  ELSE Sign(Held(ledger).side) * MarketValue(UpdatePrice(Held(ledger), price))
LOCAL Paper(ledger, price) ==
  IF ledger.position = {} THEN 0 ELSE UpdatePrice(Held(ledger), price).unrealized

ASSUME LedgerAccountsUnlessReduced ==
  /\ \A fills \in BoundedSeq(LedgerFills, 3) :
       LET s == Run(fills) IN
         ~s.partly => s.ledger.realized + Paper(s.ledger, 840) = s.cash + Worth(s.ledger, 840)
  /\ \E fills \in BoundedSeq(LedgerFills, 3) :
       LET s == Run(fills) IN
         s.ledger.realized + Paper(s.ledger, 840) # s.cash + Worth(s.ledger, 840)

(* The summary adds up: its trades are won, lost or neither, and what was  *)
(* won and lost is what was realized; the commissions are in neither.      *)
ASSUME SummaryAddsUp ==
  \A fills \in BoundedSeq(LedgerFills, 3) :
    LET ledger == Run(fills).ledger
        summary == Performance(ledger, 1000)
    IN /\ summary.winning + summary.losing <= summary.total_trades
       /\ Total(Won(ledger.trades)) + Total(Lost(ledger.trades)) = ledger.realized
       /\ summary.equity = 1000 + ledger.realized /\ AvailableCapital(1000, ledger) = 1000
       /\ summary.profit_factor = {} <=> summary.winning > 0 /\ summary.losing = 0
       /\ summary.avg_win >= 0 /\ summary.avg_loss <= 0 /\ summary.win_rate \in 0..100
=============================================================================
