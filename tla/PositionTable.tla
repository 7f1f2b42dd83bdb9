--------------------------- MODULE PositionTable ----------------------------
(***************************************************************************)
(* The statements of TimescalePositionRepository of                        *)
(* crates/infrastructure/src/database/position_repo.rs as functions of the *)
(* table, a function from symbols (which are unique in it) to rows.  The   *)
(* table is the one the statements expect; an answer is ok or an error.    *)
(***************************************************************************)
EXTENDS Integers, Sequences, FiniteSets
LOCAL INSTANCE FiniteSetsExt
LOCAL INSTANCE TLC

LOCAL NotFound == [err |-> "not found"]
LOCAL None == [err |-> "none"]
LOCAL Ok(v) == [ok |-> v]

SideToDb(side) == IF side = "Buy" THEN "Long" ELSE "Short"

SideFromDb(text) ==
  CASE text = "Long" -> Ok("Buy")
    [] text = "Short" -> Ok("Sell")
    [] OTHER -> [err |-> "query"]

(* row_to_position(): the market price and the profits are read from the   *)
(* row and not used; the new position stands at its entry price.           *)
RowToPosition(symbol, row) ==
  [id |-> row.id, symbol |-> symbol, side |-> SideFromDb(row.side).ok,
   quantity |-> row.quantity, entry |-> row.entry, price |-> row.entry,
   unrealized |-> 0, realized |-> 0]

(* A conflict on the symbol keeps the id and the opening of the old row.   *)
PositionUpsert(table, p, now) ==
  LET known == p.symbol \in DOMAIN table
      row == [id |-> IF known THEN table[p.symbol].id ELSE p.id,
              opened |-> IF known THEN table[p.symbol].opened ELSE now,
              side |-> SideToDb(p.side), quantity |-> p.quantity, entry |-> p.entry,
              market |-> p.price, unrealized |-> p.unrealized, realized |-> p.realized,
              open |-> TRUE]
  IN (p.symbol :> row) @@ table

OpenSymbols(table) == {s \in DOMAIN table : table[s].open}

PositionBySymbol(table, symbol) ==
  IF symbol \in OpenSymbols(table) THEN Ok(RowToPosition(symbol, table[symbol])) ELSE None

AllOpen(table) == {RowToPosition(s, table[s]) : s \in OpenSymbols(table)}

PositionsBySide(table, side) ==
  {RowToPosition(s, table[s]) : s \in {t \in OpenSymbols(table) : table[t].side = SideToDb(side)}}

PositionClose(table, symbol) ==
  IF symbol \in OpenSymbols(table) THEN Ok([table EXCEPT ![symbol].open = FALSE]) ELSE NotFound

PositionExists(table, symbol) == symbol \in OpenSymbols(table)

(* The column total_pnl is the sum of the two profits.                     *)
TotalPnl(table) == MapThenSumSet(LAMBDA s : table[s].unrealized + table[s].realized, OpenSymbols(table))

TotalExposure(table) == MapThenSumSet(LAMBDA s : table[s].quantity * table[s].market, OpenSymbols(table))

(* By its id a position is found when it is closed, too.                   *)
LOCAL With(table, id) == {s \in DOMAIN table : table[s].id = id}
PositionById(table, id) ==
  IF With(table, id) = {} THEN None
  ELSE LET s == CHOOSE t \in With(table, id) : TRUE IN Ok(RowToPosition(s, table[s]))

(* Rows have no account.                                                   *)
PositionsOf(table, account) == AllOpen(table)
PositionOfAccount(table, account, symbol) == PositionBySymbol(table, symbol)

PositionDelete(table, id) ==
  IF With(table, id) = {} THEN NotFound
  ELSE Ok([s \in DOMAIN table \ With(table, id) |-> table[s]])
-----------------------------------------------------------------------------
LOCAL Samples(symbol, id) ==
  [id : {id}, symbol : {symbol}, side : {"Buy", "Sell"}, quantity : 1..2, entry : {2},
   price : 2..3, unrealized : {-1, 1}, realized : {0, 5}]
LOCAL Stored(p) == PositionUpsert(<<>>, p, 1)

(* A position comes back with the side, the quantity and the entry price   *)
(* it was stored with, and as if it had never moved: so what the positions *)
(* that are read add up to is not what total_pnl() answers.                *)
ASSUME PositionIsReadWithoutProfits ==
  /\ \A side \in {"Buy", "Sell"} : SideFromDb(SideToDb(side)) = Ok(side)
  /\ \A p \in Samples("x", "i") :
       LET read == PositionBySymbol(Stored(p), "x").ok IN
         /\ read = [p EXCEPT !.price = p.entry, !.unrealized = 0, !.realized = 0]
         /\ TotalPnl(Stored(p)) = p.unrealized + p.realized
         /\ TotalExposure(Stored(p)) = p.quantity * p.price
         /\ TotalPnl(PositionUpsert(Stored(p), read, 2)) = 0

(* Closing ends what the queries of open positions see, once; the row is   *)
(* still found by its id.  A later position of the symbol opens it again   *)
(* under the id of the first, and so is not found by its own.              *)
ASSUME ReopenedUnderTheOldId ==
  \A p \in Samples("x", "i") : \A q \in Samples("x", "j") :
    LET closed == PositionClose(Stored(p), "x").ok
        again == PositionUpsert(closed, q, 2)
    IN /\ AllOpen(closed) = {} /\ ~PositionExists(closed, "x") /\ TotalPnl(closed) = 0
       /\ PositionClose(closed, "x") = NotFound
       /\ PositionById(closed, "i") # None /\ PositionBySymbol(closed, "x") = None
       /\ PositionExists(again, "x") /\ again["x"].opened = 1
       /\ PositionById(again, "j") = None /\ PositionById(again, "i").ok.quantity = q.quantity
       /\ PositionDelete(again, "j") = NotFound /\ PositionDelete(again, "i") = Ok(<<>>)

(* The two sides divide the open positions, whatever account is asked for. *)
ASSUME SidesDivideTheOpen ==
  \A p \in Samples("x", "i") : \A q \in Samples("y", "j") :
    LET table == PositionUpsert(Stored(p), q, 2) IN
      /\ PositionsBySide(table, "Buy") \cup PositionsBySide(table, "Sell") = AllOpen(table)
      /\ PositionsBySide(table, "Buy") \cap PositionsBySide(table, "Sell") = {}
      /\ Cardinality(PositionsOf(table, "account")) = 2
      /\ PositionOfAccount(table, "account", "y") = PositionBySymbol(table, "y")
=============================================================================
