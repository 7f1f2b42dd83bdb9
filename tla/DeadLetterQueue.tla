---------------------------- MODULE DeadLetterQueue ----------------------------
(***************************************************************************)
(* DeadLetterQueue of crates/infrastructure/src/messaging/event_bus.rs.    *)
(* add() pushes an entry on the buffer and then, outside the lock, hands   *)
(* it to the storage, waiting DLQ_TIMEOUT_MS at most; what the storage     *)
(* says is only logged.  The bus keeps a queue that it is given and no     *)
(* code of the repository calls add(): these are its operations, not part  *)
(* of a behaviour.                                                         *)
(***************************************************************************)
EXTENDS Integers, Sequences, FiniteSets, SequencesExt

DEFAULT_MAX_RETRIES == 3

DlqWithRetries(max) == [max_retries |-> max, storage |-> FALSE, buffer |-> <<>>]
DlqNew == DlqWithRetries(DEFAULT_MAX_RETRIES)
WithStorage(queue) == [queue EXCEPT !.storage = TRUE]

DlqEntry(event, retries) == [event |-> event, retries |-> retries]

(* add(), its two steps.  The limit of retries is not looked at.           *)
Push(queue, entry) == [queue EXCEPT !.buffer = Append(@, entry)]

(* What the storage has afterwards: of a call that fails or takes too long *)
(* it may have stored the entry or not.                                    *)
Store(queue, stored, entry) ==
  IF queue.storage THEN {Append(stored, entry), stored} ELSE {stored}

DlqClear(queue) == [queue EXCEPT !.buffer = <<>>]

DlqEntries(queue) == queue.buffer
DlqLen(queue) == Len(queue.buffer)
DlqIsEmpty(queue) == queue.buffer = <<>>
-----------------------------------------------------------------------------
(* DlqStorage: the storage keeps entries by the id of their event.         *)
DlqRetrieve(stored) == stored
DlqRemove(stored, event) == SelectSeq(stored, LAMBDA entry : entry.event # event)
-----------------------------------------------------------------------------
(* A run of steps: an event that is pushed, {event} for the storing of an  *)
(* event, or {} for clear().  Every outcome of the storage is followed.    *)
LOCAL Step(states, step) ==
  CASE step = {} -> {<<DlqClear(s[1]), s[2]>> : s \in states}
    [] step # {} /\ step \subseteq 1..2 ->
         {<<Push(s[1], DlqEntry(CHOOSE e \in step : TRUE, 0)), s[2]>> : s \in states}
    [] OTHER ->
         UNION {{<<s[1], t>> : t \in Store(s[1], s[2], DlqEntry((CHOOSE e \in step : TRUE) - 10, 0))} :
                  s \in states}

LOCAL Runs ==
  {p \in {q \in [1..5 -> {{1}, {2}, {11}, {12}, {}}] :
            Cardinality({q[i] : i \in 1..5}) = 5} :
     \A e \in 1..2 : \A i, j \in 1..5 : p[i] = {e} /\ p[j] = {e + 10} => i < j}

LOCAL At(run, step) == CHOOSE i \in 1..5 : run[i] = step

(* However two calls of add() and a clear() interleave and whatever the    *)
(* storage does: in memory is what was pushed after the clear(), in order  *)
(* of the pushes; the storage holds nothing twice; and the two need not    *)
(* agree, neither on the order nor on what a clear() removed.              *)
ASSUME MemoryIsIndependent ==
  LET last(run) == FoldLeft(Step, {<<WithStorage(DlqNew), <<>>>>}, run)
  IN /\ \A run \in Runs : \A s \in last(run) :
          LET events == [i \in 1..DlqLen(s[1]) |-> DlqEntries(s[1])[i].event]
              kept == {e \in 1..2 : At(run, {e}) > At(run, {})}
          IN /\ {events[i] : i \in DOMAIN events} = kept /\ Len(events) = Cardinality(kept)
             /\ \A i, j \in DOMAIN events : i < j => At(run, {events[i]}) < At(run, {events[j]})
             /\ IsInjective(DlqRetrieve(s[2]))
             /\ \A e \in 1..2 : Len(DlqRemove(s[2], e)) <= 1
             /\ DlqIsEmpty(s[1]) <=> kept = {}
     /\ \E run \in Runs : \E s \in last(run) : Len(s[2]) = 2 /\ s[2][1].event = 2
                                               /\ At(run, {1}) < At(run, {2})
     /\ \E run \in Runs : \E s \in last(run) : DlqIsEmpty(s[1]) /\ Len(s[2]) = 2
=============================================================================
