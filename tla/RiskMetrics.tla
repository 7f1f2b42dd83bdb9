----------------------------- MODULE RiskMetrics -----------------------------
(***************************************************************************)
(* The calculator of crates/application/src/risk/metrics.rs and the        *)
(* configuration of risk/engine.rs, as operators.  Positions are a         *)
(* sequence of the positions of PositionEntity with their symbol.  A ratio *)
(* is the pair of its numerator and its denominator.  Amounts of all       *)
(* currencies are added up as if they were US dollars, as in the code.     *)
(***************************************************************************)
EXTENDS PositionEntity

LOCAL INSTANCE FiniteSetsExt
LOCAL INSTANCE SequencesExt

SumOver(Of(_), s) == MapThenSumSet(LAMBDA i : Of(s[i]), DOMAIN s)

NoRatio == <<0, 1>>
Ratio(a, b) == IF b > 0 THEN <<a, b>> ELSE NoRatio
AtMost(r, s) == r[1] * s[2] <= s[1] * r[2]

LongOf(positions) == SelectSeq(positions, IsLong)
ShortOf(positions) == SelectSeq(positions, IsShort)

UnrealizedOf(positions) == SumOver(LAMBDA p : p.unrealized, positions)

LongShortExposure(positions) ==
  <<SumOver(MarketValue, LongOf(positions)), SumOver(MarketValue, ShortOf(positions))>>

EmptyMetrics ==
  [long |-> 0, short |-> 0, net |-> 0, gross |-> 0, unrealized |-> 0, total |-> 0,
   count |-> 0, longs |-> 0, shorts |-> 0, concentration |-> NoRatio,
   margin |-> 0, buyingPower |-> 0, utilization |-> NoRatio]

(* capital and marginPct are the calculator's; the margin is in hundredths.*)
Calculate(positions, capital, marginPct) ==
  LET exposure == LongShortExposure(positions)
      gross == exposure[1] + exposure[2]
      values == {MarketValue(positions[i]) : i \in DOMAIN positions}
      margin == gross * marginPct
  IN [long |-> exposure[1], short |-> exposure[2],
      net |-> exposure[1] - exposure[2], gross |-> gross,
      unrealized |-> UnrealizedOf(positions), total |-> UnrealizedOf(positions),
      count |-> Len(positions),
      longs |-> Len(LongOf(positions)), shorts |-> Len(ShortOf(positions)),
      concentration |-> IF gross > 0 THEN Ratio(Max(values), gross) ELSE NoRatio,
      margin |-> margin, buyingPower |-> 100 * capital - margin,
      utilization |-> Ratio(margin, 100 * capital)]

IsWithinLimits(metrics, maxExposure) == metrics.gross <= maxExposure

(* Fills of symbols without an entry price do not count.                   *)
DailyPnl(fills, entries) ==
  SumOver(LAMBDA f : IF f.symbol \in DOMAIN entries THEN FillPnl(f, entries[f.symbol]) ELSE 0,
          fills)

Drawdown(current, peak) == Ratio(Max({peak - current, 0}), peak)

SectorExposure(positions, sectorOf) ==
  LET sector(p) == IF p.symbol \in DOMAIN sectorOf THEN sectorOf[p.symbol] ELSE "Unknown"
      sectors == {sector(positions[i]) : i \in DOMAIN positions}
  IN [s \in sectors |-> SumOver(MarketValue, SelectSeq(positions, LAMBDA p : sector(p) = s))]

(* decimal_sqrt(): ten Newton steps from half the value, in units of which *)
(* one has the number given; a step that changes nothing ends it.          *)
Newton(v, one) ==
  LET x[n \in 0..10] == IF n = 0 THEN v \div 2 ELSE (x[n-1] + (v * one) \div x[n-1]) \div 2
  IN x[10]

DecimalSqrt(v, one) == IF v < 0 THEN {} ELSE {IF v = 0 THEN 0 ELSE Newton(v, one)}

(* The set is empty where the code answers None.                           *)
SharpeRatio(returns, riskFree, one) ==
  LET mean == SumOver(LAMBDA r : r, returns) \div Len(returns)
      variance == SumOver(LAMBDA r : ((r - mean) * (r - mean)) \div one, returns) \div Len(returns)
  IN IF returns = <<>> THEN {}
     ELSE {Ratio(mean - riskFree, dev) : dev \in DecimalSqrt(variance, one) \ {0}}

(* In thousandths of the currency.                                         *)
Var95(value, std) == 1645 * std * value
-----------------------------------------------------------------------------
(* RiskConfig and what the states of the breaker allow.                    *)
DefaultConfig ==
  [maxPositionSize |-> <<>>, maxSymbolExposure |-> <<>>, maxTotalExposure |-> 1000000,
   dailyLossLimit |-> 50000, maxDrawdownPct |-> 10, killSwitchEnabled |-> TRUE,
   breakerFailures |-> 5, breakerTimeout |-> 300]

WithPositionLimit(config, symbol, qty) ==
  [config EXCEPT !.maxPositionSize = symbol :> qty @@ @]
WithSymbolExposure(config, symbol, exposure) ==
  [config EXCEPT !.maxSymbolExposure = symbol :> exposure @@ @]
WithTotalExposure(config, exposure) == [config EXCEPT !.maxTotalExposure = exposure]
WithDailyLossLimit(config, limit) == [config EXCEPT !.dailyLossLimit = limit]
WithMaxDrawdown(config, pct) == [config EXCEPT !.maxDrawdownPct = pct]

IsTradingAllowed(breaker) == breaker \in {"Closed", "HalfOpen"}
TotalDailyPnl(realized, unrealized) == realized + unrealized
-----------------------------------------------------------------------------
(* Laws of the operators, over small samples that TLC enumerates.          *)

LOCAL SamplePosition ==
  {UpdatePrice(NewPosition(side, qty, entry), price) @@ [symbol |-> symbol] :
     side \in Side, qty \in 0..2, entry \in 1..2, price \in 1..2, symbol \in {"x", "y"}}
LOCAL SamplePortfolio == BoundedSeq(SamplePosition, 2)
LOCAL Capital == 5
LOCAL Sectors == "x" :> "energy"

(* The figures of a report agree with each other: the exposures bound each *)
(* other, the largest share is a share, margin and buying power make up    *)
(* the capital, and the unrealized profit is the exposure that was not     *)
(* paid for.                                                               *)
ASSUME MetricsAreConsistent ==
  \A positions \in SamplePortfolio :
    LET m == Calculate(positions, Capital, 20) IN
      /\ m.net \in -m.gross..m.gross /\ m.longs + m.shorts = m.count
      /\ AtMost(m.concentration, <<1, 1>>)
      /\ m.gross > 0 => AtMost(<<1, Len(positions)>>, m.concentration)
      /\ m.margin + m.buyingPower = 100 * Capital
      /\ m.unrealized = m.net - SumOver(LAMBDA p : p.avg * p.quantity * Sign(p.side), positions)
      /\ positions = <<>> => [m EXCEPT !.utilization = NoRatio]
                              = [EmptyMetrics EXCEPT !.buyingPower = 100 * Capital]

(* The sectors share out the whole gross exposure.                         *)
ASSUME SectorsShareTheGross ==
  \A positions \in SamplePortfolio :
    LET bySector == SectorExposure(positions, Sectors)
    IN MapThenSumSet(LAMBDA s : bySector[s], DOMAIN bySector)
         = Calculate(positions, Capital, 20).gross

(* A drawdown is a share of the peak as long as equity is not negative.    *)
ASSUME DrawdownIsAShare ==
  \A current, peak \in 0..3 :
    /\ AtMost(Drawdown(current, peak), <<1, 1>>)
    /\ (Drawdown(current, peak)[1] = 0) = (current >= peak \/ peak = 0)

(* The square root is within one unit for values from a hundredth to ten.  *)
ASSUME RootIsClose ==
  \A v \in {100, 2500, 10000, 20000, 100000} :
    \A r \in DecimalSqrt(v, 10000) :
      (r - 1) * (r - 1) <= v * 10000 /\ (r + 1) * (r + 1) >= v * 10000

(* It is more than three times too large for the variance of small         *)
(* returns: the first step jumps to a half and the nine that are left at   *)
(* most halve it.                                                          *)
ASSUME RootOfSmallVarianceIsFar ==
  \A v \in 2..10 : \A r \in DecimalSqrt(v, 100000000) :
    (r \div 1000) * (r \div 1000) > 1000 * v

(* Equal returns have no ratio, since their deviation is zero.             *)
ASSUME SharpeOfConstantReturns ==
  \A r \in -2..2 : SharpeRatio(<<r, r>>, 0, 1) = {} /\ SharpeRatio(<<>>, r, 1) = {}

(* What a builder sets is what the configuration holds, whatever the order.*)
ASSUME BuildersCommute ==
  WithMaxDrawdown(WithPositionLimit(DefaultConfig, "x", 3), 5)
    = WithPositionLimit(WithMaxDrawdown(DefaultConfig, 5), "x", 3)
=============================================================================
