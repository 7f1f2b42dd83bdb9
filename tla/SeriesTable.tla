---------------------------- MODULE SeriesTable -----------------------------
(***************************************************************************)
(* The statements of TimescaleBarRepository and TimescaleTickRepository of *)
(* crates/infrastructure/src/database/timescale.rs as functions of their   *)
(* tables, functions from the key <<time, symbol>> to the row.             *)
(***************************************************************************)
EXTENDS Retry, SequencesExt
LOCAL INSTANCE TLC

LOCAL Key(item) == <<item.time, item.symbol>>

(* ON CONFLICT: every column is that of the last write, but for the volume *)
(* which is added up, and the provider which stays that of the first.      *)
LOCAL Insert(table, item, row) ==
  LET old == IF Key(item) \in DOMAIN table THEN table[Key(item)] ELSE row
      volume == IF Key(item) \in DOMAIN table THEN old.volume + row.volume ELSE row.volume
  IN (Key(item) :> [row EXCEPT !.volume = volume, !.provider = old.provider]) @@ table

LOCAL Repeated(table, n, Statement(_)) ==
  FoldLeft(LAMBDA t, i : Statement(t), table, [i \in 1..n |-> i])

BarRow(bar) == [close |-> bar.close, volume |-> bar.volume, provider |-> bar.provider]
TickRow(tick) == [price |-> tick.price, volume |-> tick.volume, provider |-> tick.provider]

BarSave(table, bar, outcomes) ==
  Repeated(table, Executions(outcomes, BarTransient),
           LAMBDA t : Insert(t, bar, BarRow(bar)))

TickSave(table, tick, outcomes) ==
  Repeated(table, Executions(outcomes, TickTransient),
           LAMBDA t : Insert(t, tick, TickRow(tick)))

(* A batch is one statement.  PostgreSQL refuses one that would update a   *)
(* row a second time, and nothing of the batch is stored.                  *)
LOCAL Accepted(items) == IsInjective([i \in DOMAIN items |-> Key(items[i])])

BarSaveBatch(table, bars, outcomes) ==
  IF bars = <<>> \/ ~Accepted(bars) THEN table
  ELSE Repeated(table, Executions(outcomes, BarTransient),
                LAMBDA t : FoldLeft(LAMBDA u, bar : Insert(u, bar, BarRow(bar)), t, bars))

TickSaveBatch(table, ticks, outcomes) ==
  IF ticks = <<>> \/ ~Accepted(ticks) THEN table
  ELSE Repeated(table, Executions(outcomes, TickTransient),
                LAMBDA t : FoldLeft(LAMBDA u, tick : Insert(u, tick, TickRow(tick)), t, ticks))
-----------------------------------------------------------------------------
(* The keys of a symbol's rows between two times, the earliest first.      *)
LOCAL KeysIn(table, symbol, start, end) ==
  SetToSortSeq({k \in DOMAIN table : k[2] = symbol /\ k[1] \in start..end},
               LAMBDA j, k : j[1] < k[1])

(* Rows have no time frame: every bar is read as one of a minute.          *)
ReadBar(k, row) == [time |-> k[1], symbol |-> k[2], frame |-> "M1"] @@ row
ReadTick(k, row) == [time |-> k[1], symbol |-> k[2], side |-> "none"] @@ row

BarRange(table, symbol, start, end) ==
  LET keys == KeysIn(table, symbol, start, end)
  IN [i \in DOMAIN keys |-> ReadBar(keys[i], table[keys[i]])]

TickRange(table, symbol, start, end) ==
  LET keys == KeysIn(table, symbol, start, end)
  IN [i \in DOMAIN keys |-> ReadTick(keys[i], table[keys[i]])]

(* The last n rows are asked for, latest first, and then reversed.         *)
BarLatest(table, symbol, n) ==
  LET keys == SetToSortSeq({k \in DOMAIN table : k[2] = symbol}, LAMBDA j, k : j[1] > k[1])
      some == SubSeq(keys, 1, Min({n, Len(keys)}))
  IN Reverse([i \in DOMAIN some |-> ReadBar(some[i], table[some[i]])])
-----------------------------------------------------------------------------
LOCAL SampleBar == [time : 1..2, symbol : {"x", "y"}, frame : {"M1", "H1"}, close : 1..2,
                    volume : 1..2, provider : {"p", "q"}]
LOCAL Once == <<[executed |-> TRUE, error |-> NoError]>>
LOCAL Tick(bar) == [time |-> bar.time, symbol |-> bar.symbol, price |-> bar.close,
                    volume |-> bar.volume, provider |-> bar.provider]

(* The volume of a row is the volume of every execution, so that an answer *)
(* that is lost makes a bar, or a tick, count again; a bar of another time *)
(* frame at the same time is merged into it.                               *)
ASSUME VolumeOfEveryExecution ==
  \A a, b \in SampleBar :
    LET once == BarSave(<<>>, a, Once)
        ticked == TickSave(<<>>, Tick(a), Once)
    IN \A outcomes \in {<<o, p>> : o, p \in {q \in Outcome : q.error \in {NoError, "Io"}}} :
         LET n == Executions(outcomes, BarTransient) IN
           /\ Key(a) = Key(b) =>
                /\ BarSave(once, b, outcomes)[Key(a)].volume = a.volume + n * b.volume
                /\ BarSave(once, b, outcomes)[Key(a)].provider = a.provider
                /\ n > 0 => BarSave(once, b, outcomes)[Key(a)].close = b.close
                /\ BarSaveBatch(once, <<b, b>>, outcomes) = once
                /\ TickSave(ticked, Tick(b), outcomes)[Key(a)].volume = a.volume + n * b.volume
                /\ TickSaveBatch(ticked, <<Tick(b)>>, outcomes) = TickSave(ticked, Tick(b), outcomes)
           /\ Key(a) # Key(b) => BarSaveBatch(<<>>, <<a, b>>, Once) = BarSave(once, b, Once)
           /\ BarSave(once, a, outcomes)[Key(a)].volume = (n + 1) * a.volume

(* What is read is in order of time; the latest n bars are the end of all  *)
(* of them; and a bar that was saved comes back as a bar of a minute.      *)
ASSUME LatestIsTheEndOfTheRange ==
  \A a, b \in SampleBar :
    LET table == BarSave(BarSave(<<>>, a, Once), b, Once)
        ticks == TickSave(TickSave(<<>>, Tick(a), Once), Tick(b), Once)
        all == BarRange(table, "x", 1, 2)
    IN /\ \A n \in 0..3 : BarLatest(table, "x", n) = SubSeq(all, Max({0, Len(all) - n}) + 1, Len(all))
       /\ \A i \in DOMAIN all : all[i].frame = "M1" /\ all[i].time \in 1..2
       /\ Len(all) = Len(TickRange(ticks, "x", 1, 2))
       /\ Len(BarRange(table, "y", 1, 1)) = Cardinality({k \in DOMAIN table : k = <<1, "y">>})
=============================================================================
