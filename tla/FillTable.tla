----------------------------- MODULE FillTable ------------------------------
(***************************************************************************)
(* The statements of TimescaleFillRepository of                            *)
(* crates/infrastructure/src/database/fill_repo.rs as functions of the     *)
(* table, here the sequence of its rows in the order they were inserted.   *)
(***************************************************************************)
EXTENDS Retry, SequencesExt

NoCommission == 0

FillColumns(fill) == [fill EXCEPT !.exchange = "default_exchange", !.provider = "manual"]

(* The key of a row is its time and an id the database makes for it, so    *)
(* that ON CONFLICT never finds a conflict.                                *)
FillSave(rows, fill, outcomes) ==
  rows \o [i \in 1..Executions(outcomes, FillTransient) |-> FillColumns(fill)]

(* One statement inserts the whole batch; an empty one is not sent.        *)
FillSaveBatch(rows, fills, outcomes) ==
  IF fills = <<>> THEN rows
  ELSE rows \o FlattenSeq([n \in 1..Executions(outcomes, FillTransient) |->
                             [i \in DOMAIN fills |-> FillColumns(fills[i])]])

(* row_to_fill(): the commission is not read.                              *)
RowToFill(row) == [row EXCEPT !.commission = NoCommission]

(* Queries answer the latest fill first.                                   *)
FillsWhere(rows, Where(_)) ==
  LET chosen == SelectSeq(rows, Where)
  IN SortSeq([i \in DOMAIN chosen |-> RowToFill(chosen[i])], LAMBDA a, b : a.time > b.time)

FillsByOrder(rows, order) == FillsWhere(rows, LAMBDA row : row.order = order)
FillsBySymbol(rows, symbol, start, end) ==
  FillsWhere(rows, LAMBDA row : row.symbol = symbol /\ row.time \in start..end)

(* The limit is what the caller asks for, up to most (10000).              *)
RecentFills(rows, n, most) ==
  LET all == FillsWhere(rows, LAMBDA row : TRUE)
  IN SubSeq(all, 1, Min({n, most, Len(all)}))
-----------------------------------------------------------------------------
LOCAL SampleFill == [order : {"a", "b"}, symbol : {"x"}, quantity : {1}, time : 1..2,
                     commission : 0..1, exchange : {"e"}, provider : {"p"}]
LOCAL SampleOutcomes == [1..2 -> Outcome]
LOCAL Once == <<[executed |-> TRUE, error |-> NoError]>>

(* What an order filled, as its stored fills tell it: the saved quantity,  *)
(* once more for each insertion whose answer was lost.                     *)
ASSUME FillsStoredForEachExecution ==
  \A f, g \in SampleFill : \A outcomes \in SampleOutcomes :
    LET rows == FillSave(FillSave(<<>>, f, Once), g, outcomes)
        twice == Executions(outcomes, FillTransient)
        own == FillsByOrder(rows, f.order)
    IN /\ Len(own) = 1 + (IF g.order = f.order THEN twice ELSE 0)
       /\ FillSaveBatch(<<>>, <<f, g>>, Once) = FillSave(FillSave(<<>>, f, Once), g, Once)
       /\ Len(FillSaveBatch(<<>>, <<f, g>>, outcomes)) = 2 * twice
       /\ Succeeds(outcomes, FillTransient) => twice >= 1

(* Every query answers in order of time, the latest first; the recent      *)
(* fills are the beginning of all of them; and no fill has a commission.   *)
ASSUME FillsAreLatestFirst ==
  \A f, g, h \in SampleFill :
    LET rows == FillSaveBatch(<<>>, <<f, g, h>>, Once) IN
      /\ \A n \in 0..4 :
           LET recent == RecentFills(rows, n, 2) IN
             /\ Len(recent) = Min({n, 2})
             /\ \A i \in 1..Len(recent) - 1 : recent[i].time >= recent[i + 1].time
             /\ recent # <<>> =>
                  Cardinality({i \in 1..3 : rows[i].time > Last(recent).time}) < Len(recent)
      /\ \A i \in DOMAIN FillsBySymbol(rows, "x", 1, 2) :
           FillsBySymbol(rows, "x", 1, 2)[i].commission = NoCommission
      /\ Len(FillsBySymbol(rows, "x", 1, 1)) + Len(FillsBySymbol(rows, "x", 2, 2)) = 3
=============================================================================
