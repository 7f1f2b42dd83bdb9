-------------------------------- MODULE Values --------------------------------
(***************************************************************************)
(* The value objects of crates/domain/src/values.rs and the market data    *)
(* entities Bar and Tick of entities.rs.  A Decimal is a whole number of   *)
(* its smallest units; a text is what its characters say, a record of the  *)
(* features that the parsers look at.  A constructor that may refuse       *)
(* returns Ok(v) or Err(kind); an arithmetic operator does not check, as   *)
(* the methods built on new_unchecked() do not.                            *)
(***************************************************************************)
EXTENDS Integers, FiniteSets

CONSTANTS
  Scale,    \* smallest units of a Decimal in one
  MaxI64    \* the largest volume an i64 holds

ASSUME ValuesAssumption == Scale \in Nat \ {0} /\ MaxI64 \in Nat

ValueError == {"InvalidPrice", "InvalidSymbol", "InvalidQuantity", "InvalidVolume",
               "InvalidOrderId", "InvalidMoney", "InvalidTimeFrame", "InvalidSide",
               "InvalidOrderType", "InvalidTimeInForce", "InvalidCurrency"}

Ok(v)     == [ok |-> TRUE, value |-> v]
Err(kind) == [ok |-> FALSE, error |-> kind]
Panic     == [ok |-> FALSE, error |-> "panic"]

Checked(accepted, v, kind) == IF accepted THEN Ok(v) ELSE Err(kind)

(* from_str() of a number: text that is no number is refused like a value  *)
(* out of range.                                                           *)
Numeric(v) == [numeric |-> TRUE, value |-> v]
NotNumeric == [numeric |-> FALSE, value |-> 0]
-----------------------------------------------------------------------------
NewPrice(v) == Checked(v > 0, v, "InvalidPrice")
ParsePrice(text) == IF text.numeric THEN NewPrice(text.value) ELSE Err("InvalidPrice")
ZeroPrice == 0
MulPrice(price, scalar) == price * scalar

NewQuantity(v) == Checked(v > 0, v, "InvalidQuantity")
ParseQuantity(text) == IF text.numeric THEN NewQuantity(text.value) ELSE Err("InvalidQuantity")
IsInteger(q) == q % Scale = 0
Floor(q) == (q \div Scale) * Scale
Ceil(q) == IF IsInteger(q) THEN q ELSE Floor(q) + Scale
AddQuantity(q, other) == q + other
SubQuantity(q, other) == q - other

NewVolume(v) == Checked(v >= 0, v, "InvalidVolume")
ParseVolume(text) ==
  IF text.numeric /\ text.value \in (-MaxI64 - 1)..MaxI64 THEN NewVolume(text.value)
                                                          ELSE Err("InvalidVolume")
AddVolume(v, other) == IF v + other > MaxI64 THEN Panic ELSE Ok(v + other)
IncrementVolume(v) == AddVolume(v, 1)
-----------------------------------------------------------------------------
(* A symbol: its length and the kinds of characters it holds.              *)
MAX_SYMBOL_LENGTH == 20
SymbolCharacters == {"upper", "lower", "digit", "/", "-", ".", ":"}

UpperCase(chars) == IF "lower" \in chars THEN (chars \ {"lower"}) \cup {"upper"} ELSE chars

NewSymbol(text) ==
  Checked(text.len \in 1..MAX_SYMBOL_LENGTH /\ text.chars \subseteq SymbolCharacters,
          [text EXCEPT !.chars = UpperCase(@)], "InvalidSymbol")

IsFutures(symbol) == "/" \in symbol.chars
IsOption(symbol) == ":" \in symbol.chars

(* An order id is written "ord-" and its UUID; the prefix may be missing   *)
(* from what is parsed.                                                    *)
ShowOrderId(uuid) == [prefix |-> TRUE, uuid |-> uuid]
ParseOrderId(text, uuids) == Checked(text.uuid \in uuids, text.uuid, "InvalidOrderId")
-----------------------------------------------------------------------------
Currency == {"USD", "EUR", "GBP", "JPY", "CHF", "CAD", "AUD", "CNY"}
DefaultCurrency == "USD"
DecimalPlaces(currency) == IF currency = "JPY" THEN 0 ELSE 2
ParseCurrency(code) == Checked(code \in Currency, code, "InvalidCurrency")

Money(amount, currency) == [amount |-> amount, currency |-> currency]
NewMoney(amount, currency) == Checked(amount >= 0, Money(amount, currency), "InvalidMoney")
AddMoney(m, other) ==
  Checked(m.currency = other.currency, Money(m.amount + other.amount, m.currency), "InvalidMoney")
MulMoney(m, scalar) == Money(m.amount * scalar, m.currency)
DefaultMoney == Money(0, DefaultCurrency)

(* format(): the symbol of the currency; two currencies are written alike. *)
CurrencySymbol(currency) ==
  CASE currency = "USD" -> "dollar"      [] currency = "EUR" -> "euro"
    [] currency = "GBP" -> "pound"       [] currency \in {"JPY", "CNY"} -> "yen"
    [] OTHER -> currency
-----------------------------------------------------------------------------
Minute == 60
TimeFrame == {"M1", "M5", "M15", "M30", "H1", "H4", "D1", "W1"}
AsSeconds ==
  [t \in TimeFrame |-> Minute * (CASE t = "M1" -> 1   [] t = "M5" -> 5   [] t = "M15" -> 15
                                  [] t = "M30" -> 30 [] t = "H1" -> 60  [] t = "H4" -> 240
                                  [] t = "D1" -> 1440 [] t = "W1" -> 10080)]
IsIntraday(t) == t \in TimeFrame \ {"D1", "W1"}
TimeFrameText(t) ==
  CASE t = "M1" -> "1m"  [] t = "M5" -> "5m" [] t = "M15" -> "15m" [] t = "M30" -> "30m"
    [] t = "H1" -> "1h"  [] t = "H4" -> "4h" [] t = "D1" -> "1d"   [] t = "W1" -> "1w"
ParseTimeFrame(text) ==
  IF \E t \in TimeFrame : TimeFrameText(t) = text
    THEN Ok(CHOOSE t \in TimeFrame : TimeFrameText(t) = text)
    ELSE Err("InvalidTimeFrame")

Side == {"Buy", "Sell"}
Opposite(side) == IF side = "Buy" THEN "Sell" ELSE "Buy"
Sign(side) == IF side = "Buy" THEN 1 ELSE -1
SideText(side) == IF side = "Buy" THEN "BUY" ELSE "SELL"
ParseSide(text) ==
  IF text \in {"BUY", "LONG", "B"} THEN Ok("Buy")
  ELSE Checked(text \in {"SELL", "SHORT", "S"}, "Sell", "InvalidSide")

OrderType == {"Market", "Limit", "Stop", "StopLimit"}
RequiresLimitPrice(type) == type \in {"Limit", "StopLimit"}
RequiresStopPrice(type) == type \in {"Stop", "StopLimit"}
OrderTypeNames(type) ==
  CASE type = "Market" -> {"MARKET", "MKT"} [] type = "Limit" -> {"LIMIT", "LMT"}
    [] type = "Stop" -> {"STOP", "STP"}
    [] type = "StopLimit" -> {"STOP_LIMIT", "STOP-LIMIT", "STP_LMT"}
ParseOrderType(text) ==
  IF \E type \in OrderType : text \in OrderTypeNames(type)
    THEN Ok(CHOOSE type \in OrderType : text \in OrderTypeNames(type))
    ELSE Err("InvalidOrderType")

(* The second OrderType, of entities.rs, has the same variants and rules.  *)
EntityRequiresLimitPrice(type) == type \in {"Limit", "StopLimit"}
EntityRequiresStopPrice(type) == type \in {"Stop", "StopLimit"}

TimeInForce == {"Day", "GTC", "IOC", "FOK"}
TimeInForceNames(tif) ==
  CASE tif = "Day" -> {"DAY"} [] tif = "GTC" -> {"GTC", "GOOD_TILL_CANCELED"}
    [] tif = "IOC" -> {"IOC", "IMMEDIATE_OR_CANCEL"} [] tif = "FOK" -> {"FOK", "FILL_OR_KILL"}
ParseTimeInForce(text) ==
  IF \E tif \in TimeInForce : text \in TimeInForceNames(tif)
    THEN Ok(CHOOSE tif \in TimeInForce : text \in TimeInForceNames(tif))
    ELSE Err("InvalidTimeInForce")
IsIntradayOnly(tif) == tif \in {"IOC", "FOK"}
IsPersistent(tif) == tif = "GTC"
AllowsPartialFill(tif) == tif # "FOK"

(* time_in_force_expired(): only a day order expires, on a later date.     *)
TimeInForceExpired(tif, createdDay, day) == tif = "Day" /\ day > createdDay
-----------------------------------------------------------------------------
(* Bar::new(): the high is the highest of the four prices, the low the     *)
(* lowest.                                                                 *)
NewBar(open, high, low, close, volume) ==
  Checked(high >= low /\ high >= open /\ high >= close /\ low <= open /\ low <= close,
          [open |-> open, high |-> high, low |-> low, close |-> close, volume |-> volume],
          "Validation")

RangeOf(bar) == bar.high - bar.low
Body(bar) == bar.close - bar.open
IsBullish(bar) == bar.close > bar.open
IsBearish(bar) == bar.close < bar.open
IsNeutral(bar) == bar.close = bar.open
TypicalPriceTimes3(bar) == bar.high + bar.low + bar.close
WeightedCloseTimes4(bar) == bar.high + bar.low + 2 * bar.close

(* A tick with a side is a trade, one without it a quote.                  *)
NewTick(price, size, sides) == Ok([price |-> price, size |-> size, side |-> sides])
TickNotional(tick) == Money(tick.price * tick.size, "USD")
IsTrade(tick) == tick.side # {}
IsQuote(tick) == tick.side = {}
-----------------------------------------------------------------------------
(* Laws of the operators, over small samples that TLC enumerates.          *)

LOCAL Decimals == -(2 * Scale)..(2 * Scale)
LOCAL Prices == 1..3
LOCAL Volumes == 0..MaxI64

(* What the constructors accept, the checked operations keep; a product    *)
(* with a scalar that is not positive and the floor of less than one are   *)
(* the exceptions, which the callers of mul() and floor() must avoid.      *)
ASSUME PositiveStaysPositive ==
  \A p, q \in {d \in Decimals : NewPrice(d).ok} :
    /\ NewQuantity(AddQuantity(p, q)).ok /\ NewQuantity(Ceil(q)).ok
    /\ NewQuantity(Floor(q)).ok = (q >= Scale)
    /\ NewQuantity(SubQuantity(p, q)).ok = (q < p)
    /\ \A s \in Decimals : NewPrice(MulPrice(p, s)).ok = (s > 0)

(* A volume is refused, or panics, and never wraps around.                 *)
ASSUME VolumeNeverWraps ==
  \A v, w \in Volumes :
    LET sum == AddVolume(v, w) IN sum.ok => sum.value >= v /\ sum.value <= MaxI64

(* Amounts of two currencies are never added.                              *)
ASSUME AddedWithinCurrency ==
  \A c, d \in Currency, a, b \in 0..2 :
    LET sum == AddMoney(Money(a, c), Money(b, d))
    IN /\ sum.ok <=> c = d
       /\ sum.ok => sum = AddMoney(Money(b, d), Money(a, c)) /\ sum.value.amount = a + b

(* What is written is read back; no text names two values.                 *)
ASSUME WrittenIsRead ==
  /\ \A t \in TimeFrame : ParseTimeFrame(TimeFrameText(t)) = Ok(t)
  /\ \A s \in Side : ParseSide(SideText(s)) = Ok(s) /\ Opposite(Opposite(s)) = s
  /\ \A s \in Side : Sign(Opposite(s)) = -Sign(s)
  /\ \A type \in OrderType : \A text \in OrderTypeNames(type) : ParseOrderType(text) = Ok(type)
  /\ \A tif \in TimeInForce : \A text \in TimeInForceNames(tif) : ParseTimeInForce(text) = Ok(tif)
  /\ \A id \in 1..2 : ParseOrderId(ShowOrderId(id), 1..2) = Ok(id)
  /\ \A c \in Currency : ParseCurrency(c) = Ok(c)

(* A symbol that was accepted is accepted again, unchanged.                *)
ASSUME SymbolsAreCanonical ==
  \A chars \in SUBSET {"upper", "lower", "/", ":", "space"}, len \in {0, 1, 20, 21} :
    LET s == NewSymbol([len |-> len, chars |-> chars]) IN s.ok => NewSymbol(s.value) = s

(* The two order types agree on the prices they need.                      *)
ASSUME OrderTypesAgree ==
  \A type \in OrderType :
    /\ EntityRequiresLimitPrice(type) = RequiresLimitPrice(type)
    /\ EntityRequiresStopPrice(type) = RequiresStopPrice(type)

(* The averages of a bar lie between its low and its high.                 *)
ASSUME BarAveragesAreInside ==
  \A open, high, low, close \in Prices :
    LET made == NewBar(open, high, low, close, 0) IN
      made.ok =>
        LET bar == made.value IN
          /\ RangeOf(bar) >= 0 /\ Body(bar) \in -RangeOf(bar)..RangeOf(bar)
          /\ TypicalPriceTimes3(bar) \in 3 * low .. 3 * high
          /\ WeightedCloseTimes4(bar) \in 4 * low .. 4 * high
          /\ Cardinality({k \in 1..3 : <<IsBullish(bar), IsBearish(bar), IsNeutral(bar)>>[k]}) = 1
=============================================================================
