------------------------------- MODULE Retry --------------------------------
(***************************************************************************)
(* with_retry() of the repositories of crates/infrastructure/src/database: *)
(* a statement is repeated after an error that counts as transient, at     *)
(* most MAX_RETRIES times.  What an attempt comes to is whether the        *)
(* database executed it, and the error the caller sees.  A connection may  *)
(* break before a statement is executed or before it is answered ("Io");   *)
(* a pool that is closed or exhausted executes nothing.  A call is given   *)
(* what each attempt would come to: a sequence as long as the number of    *)
(* attempts allowed.                                                       *)
(***************************************************************************)
EXTENDS Integers, Sequences, FiniteSets

NoError == "none"
Outcome ==
  [executed : {TRUE}, error : {NoError, "Io"}]
    \cup [executed : {FALSE}, error : {"PoolTimedOut", "PoolClosed", "Io", "Tls", "Database"}]

(* The errors each repository takes for transient.                         *)
OrderTransient == {"PoolTimedOut", "PoolClosed", "Io"}
FillTransient == {"PoolTimedOut", "PoolClosed", "Io"}
BarTransient == {"PoolTimedOut", "PoolClosed", "Io", "Tls"}
TickTransient == {"PoolTimedOut", "PoolClosed", "Io", "Tls"}

(* upsert_with_retry() of the positions looks at the mapped error, where   *)
(* only the pool's are connection errors.                                  *)
PositionTransient == {"PoolTimedOut", "PoolClosed"}

(* The number of attempts made.                                            *)
Attempted(outcomes, transient) ==
  CHOOSE n \in 1..Len(outcomes) :
    /\ n = Len(outcomes) \/ outcomes[n].error \notin transient
    /\ \A i \in 1..n - 1 : outcomes[i].error \in transient

Succeeds(outcomes, transient) ==
  outcomes[Attempted(outcomes, transient)].error = NoError

(* How often the statement was executed.                                   *)
Executions(outcomes, transient) ==
  Cardinality({i \in 1..Attempted(outcomes, transient) : outcomes[i].executed})
-----------------------------------------------------------------------------
(* A caller that is told of success has had the statement executed, and a  *)
(* statement is executed again only after an answer that was lost: so a    *)
(* position, whose lost answers are not retried, is written at most once.  *)
ASSUME ExecutedForEachLostAnswer ==
  \A max \in 1..3 : \A outcomes \in [1..max -> Outcome] :
    /\ \A transient \in {OrderTransient, BarTransient, PositionTransient} :
         LET n == Attempted(outcomes, transient)
             lost == Cardinality({i \in 1..n : outcomes[i] = [executed |-> TRUE, error |-> "Io"]})
             done == IF Succeeds(outcomes, transient) THEN 1 ELSE 0
         IN Executions(outcomes, transient) = lost + done
    /\ Executions(outcomes, PositionTransient) <= 1

(* A handshake that fails is repeated for bars and ticks only.             *)
ASSUME TlsIsTransientForSeries ==
  \A outcomes \in [1..2 -> Outcome] :
    outcomes[1].error = "Tls" =>
      /\ Attempted(outcomes, OrderTransient) = 1 /\ Attempted(outcomes, FillTransient) = 1
      /\ Attempted(outcomes, BarTransient) = 2 /\ Attempted(outcomes, TickTransient) = 2
=============================================================================
