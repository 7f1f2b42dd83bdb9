------------------------------- MODULE Ingest -------------------------------
(***************************************************************************)
(* The ingest command (crates/cli/src/commands/ingest.rs) on the provider  *)
(* IBMarketDataProvider (external/ib/market_data.rs) and the repository    *)
(* TimescaleBarRepository (database/timescale.rs).  A loop takes bars from *)
(* its subscription and saves them in batches that are repeated after      *)
(* transient errors; other users of the provider subscribe to the symbol.  *)
(* The connection of IBClient and the feed behind it are external.  The    *)
(* command has a repository here, as with output_db: without, it drops     *)
(* every batch.                                                            *)
(***************************************************************************)
EXTENDS Integers, Sequences, SequencesExt, FiniteSets

CONSTANTS
  Users,      \* other users of the provider
  Ingester, NoOwner,
  MaxBars,    \* bound: bars the feed sends, 1..MaxBars
  TimeOf,     \* TimeOf[b]: the time of bar b, with the symbol its key in the table
  BatchSize,  \* 100
  ChanSize,   \* 1000
  MaxRetries, \* MAX_RETRIES of the repository
  MaxFaults,  \* bound: failing calls
  MaxUses     \* bound: subscriptions of the other users

Bars == 1..MaxBars
Subscribers == Users \cup {Ingester}

(* What the constants are like; the modules of the runs assume it.         *)
IngestAssumption ==
  /\ Ingester \notin Users /\ NoOwner \notin Subscribers
  /\ MaxBars \in Nat /\ TimeOf \in [1..MaxBars -> Nat]
  /\ BatchSize \in Nat \ {0} /\ ChanSize \in Nat \ {0} /\ MaxRetries \in Nat \ {0}
  /\ MaxFaults \in Nat /\ MaxUses \in Nat

VARIABLES
  linked,   \* whether the client is connected
  owner,    \* whose sender subscriptions[symbol] holds
  at,       \* where each subscriber is with subscribing
  since,    \* ghost: who subscribed since a subscriber looked for the symbol
  uses,     \* bound: subscriptions of the other users
  phase,    \* where the command is
  chan,     \* bars in the receiver of the command
  buffer,
  saving,   \* the attempt of the save that runs, or 0
  received, savedCount,
  stored,   \* ghost: how often the volume of a bar was added to its row
  unheard,  \* ghost: writes of a bar whose answer was lost
  givenUp,  \* ghost: bars whose save failed for good
  fed,      \* bound: bars sent by the feed
  faults    \* bound: failing calls

provider == <<linked, owner, at, since, uses>>
table == <<stored, unheard>>
counters == <<received, savedCount>>
command == <<phase, chan, buffer, saving, counters, givenUp>>
vars == <<provider, table, command, fed, faults>>

Init ==
  /\ linked = FALSE /\ owner = NoOwner
  /\ at = [s \in Subscribers |-> "idle"] /\ since = [s \in Subscribers |-> {}] /\ uses = 0
  /\ phase = "connect" /\ chan = <<>> /\ buffer = <<>> /\ saving = 0
  /\ received = 0 /\ savedCount = 0
  /\ stored = [b \in Bars |-> 0] /\ unheard = [b \in Bars |-> 0] /\ givenUp = {}
  /\ fed = 0 /\ faults = 0

Faulty == faults < MaxFaults /\ faults' = faults + 1
-----------------------------------------------------------------------------
(* subscribe_bars(): the connection, then the map under a read lock, and   *)
(* later the map under a write lock.                                       *)

CheckUnconditionally(s) ==  \* seeded fault: a subscribed symbol is not refused
  /\ at' = [at EXCEPT ![s] = "record"]
  /\ since' = [since EXCEPT ![s] = {}]

Check(s) ==
  /\ linked /\ owner = NoOwner
  /\ at' = [at EXCEPT ![s] = "record"]
  /\ since' = [since EXCEPT ![s] = {}]

Refused == ~linked \/ owner # NoOwner

(* The sender that was there is dropped, which closes its receiver.        *)
Record(s) ==
  /\ at[s] = "record"
  /\ at' = [at EXCEPT ![s] = "subscribed"]
  /\ owner' = s
  /\ since' = [c \in Subscribers |-> IF at[c] = "record" THEN since[c] \cup {s} ELSE since[c]]

UserSubscribes(u) ==
  /\ at[u] \in {"idle", "subscribed"} /\ uses < MaxUses
  /\ Check(u)
  /\ uses' = uses + 1
  /\ UNCHANGED <<linked, owner, table, command, fed, faults>>

UserRecorded(u) ==
  /\ Record(u)
  /\ UNCHANGED <<linked, uses, table, command, fed, faults>>

(* unsubscribe() removes the symbol, whoever subscribed to it.             *)
UserUnsubscribes(u) ==
  /\ at[u] = "subscribed"
  /\ at' = [at EXCEPT ![u] = "idle"]
  /\ owner' = NoOwner
  /\ UNCHANGED <<linked, since, uses, table, command, fed, faults>>

LinkLost ==
  /\ linked /\ Faulty
  /\ linked' = FALSE
  /\ UNCHANGED <<owner, at, since, uses, table, command, fed>>

LinkBack ==
  /\ ~linked /\ phase # "connect"
  /\ linked' = TRUE
  /\ UNCHANGED <<owner, at, since, uses, table, command, fed, faults>>

(* A bar for the subscription of the command: send() waits for room.       *)
Feed ==
  /\ linked /\ owner = Ingester /\ fed < MaxBars /\ Len(chan) < ChanSize
  /\ chan' = Append(chan, fed + 1) /\ fed' = fed + 1
  /\ UNCHANGED <<provider, table, phase, buffer, saving, counters, givenUp, faults>>
-----------------------------------------------------------------------------
(* run_ib_provider() *)

Connect ==
  /\ phase = "connect"
  /\ linked' = TRUE /\ phase' = "subscribe"
  /\ UNCHANGED <<owner, at, since, uses, table, chan, buffer, saving, counters, givenUp,
                 fed, faults>>

Fails ==
  /\ \/ phase = "connect" /\ Faulty
     \/ phase = "subscribe" /\ at[Ingester] = "idle" /\ Refused /\ UNCHANGED faults
  /\ phase' = "failed"
  /\ UNCHANGED <<provider, table, chan, buffer, saving, counters, givenUp, fed>>

Subscribe ==
  /\ phase = "subscribe" /\ at[Ingester] = "idle"
  /\ Check(Ingester)
  /\ UNCHANGED <<linked, owner, uses, table, command, fed, faults>>

Subscribed ==
  /\ phase = "subscribe" /\ Record(Ingester)
  /\ phase' = "loop"
  /\ UNCHANGED <<linked, uses, table, chan, buffer, saving, counters, givenUp, fed, faults>>

TakeBar ==
  LET more == Append(buffer, Head(chan))
  IN /\ phase = "loop" /\ saving = 0 /\ chan # <<>>
     /\ chan' = Tail(chan) /\ buffer' = more /\ received' = received + 1
     /\ saving' = IF Len(more) >= BatchSize THEN 1 ELSE 0
     /\ UNCHANGED <<provider, table, phase, savedCount, givenUp, fed, faults>>

FlushTick ==
  /\ phase = "loop" /\ saving = 0 /\ buffer # <<>>
  /\ saving' = 1
  /\ UNCHANGED <<provider, table, phase, chan, buffer, counters, givenUp, fed, faults>>

LeaveAtOnce ==  \* seeded fault: what is left is not saved
  phase' = "final" /\ saving' = 0

LeaveLoop ==
  /\ phase' = "final"
  /\ saving' = IF buffer = <<>> THEN 0 ELSE 1

(* The sender was dropped and what was sent has been taken.                *)
Closed ==
  /\ phase = "loop" /\ saving = 0 /\ owner # Ingester /\ chan = <<>>
  /\ LeaveLoop
  /\ UNCHANGED <<provider, table, chan, buffer, counters, givenUp, fed, faults>>

(* Control-C, or the duration is over when no bar came for a second.       *)
Stop ==
  /\ phase = "loop" /\ saving = 0
  /\ LeaveLoop
  /\ UNCHANGED <<provider, table, chan, buffer, counters, givenUp, fed, faults>>

(* One attempt of save_batch().  The statement refuses to touch a row      *)
(* twice, and adds the volume to a row that is there.                      *)
OneRowEach == \A i, j \in DOMAIN buffer : TimeOf[buffer[i]] = TimeOf[buffer[j]] => i = j

Added == stored' = [b \in Bars |-> IF b \in Range(buffer) THEN stored[b] + 1 ELSE stored[b]]

KeepAfterSave ==  \* seeded fault: the buffer is not cleared
  saving' = 0 /\ UNCHANGED buffer

AfterSave == saving' = 0 /\ buffer' = <<>>

SaveSucceeds ==
  /\ saving > 0 /\ OneRowEach
  /\ Added
  /\ savedCount' = savedCount + Len(buffer)
  /\ AfterSave
  /\ UNCHANGED <<provider, unheard, phase, chan, received, givenUp, fed, faults>>

GiveUpCounted ==  \* seeded fault: the batch counts as saved
  /\ givenUp' = givenUp \cup Range(buffer)
  /\ savedCount' = savedCount + Len(buffer)
  /\ AfterSave
  /\ UNCHANGED received

(* The batch is cleared after an error too.                                *)
GiveUp ==
  /\ givenUp' = givenUp \cup Range(buffer)
  /\ AfterSave
  /\ UNCHANGED counters

SaveFails ==
  /\ saving > 0
  /\ IF OneRowEach THEN Faulty ELSE UNCHANGED faults
  /\ GiveUp
  /\ UNCHANGED <<provider, table, phase, chan, fed>>

Again ==
  /\ saving < MaxRetries /\ saving' = saving + 1
  /\ UNCHANGED <<buffer, counters, givenUp>>

SaveTransient ==
  /\ saving > 0 /\ OneRowEach /\ Faulty
  /\ \/ UNCHANGED table
     \/ /\ Added
        /\ unheard' = [b \in Bars |-> IF b \in Range(buffer) THEN unheard[b] + 1 ELSE unheard[b]]
  /\ \/ Again
     \/ saving = MaxRetries /\ GiveUp
  /\ UNCHANGED <<provider, phase, chan, fed>>

(* unsubscribe(), then unsubscribe_all() and disconnect() of the client.   *)
Finish ==
  /\ phase = "final" /\ saving = 0
  /\ owner' = NoOwner /\ linked' = FALSE
  /\ at' = [at EXCEPT ![Ingester] = "idle"]
  /\ phase' = "ended"
  /\ UNCHANGED <<since, uses, table, chan, buffer, saving, counters, givenUp, fed, faults>>

Save == SaveSucceeds \/ SaveFails \/ SaveTransient

Next ==
  \/ \E u \in Users : UserSubscribes(u) \/ UserRecorded(u) \/ UserUnsubscribes(u)
  \/ LinkLost \/ LinkBack \/ Feed
  \/ Connect \/ Fails \/ Subscribe \/ Subscribed \/ TakeBar \/ FlushTick \/ Closed \/ Stop
  \/ Save \/ Finish

Spec == Init /\ [][Next]_vars
-----------------------------------------------------------------------------
TypeOK ==
  /\ linked \in BOOLEAN /\ owner \in Subscribers \cup {NoOwner}
  /\ at \in [Subscribers -> {"idle", "record", "subscribed"}]
  /\ since \in [Subscribers -> SUBSET Subscribers]
  /\ phase \in {"connect", "subscribe", "loop", "final", "ended", "failed"}
  /\ chan \in Seq(Bars) /\ Len(chan) <= ChanSize
  /\ buffer \in Seq(Bars) /\ Len(buffer) <= BatchSize
  /\ saving \in 0..MaxRetries /\ (saving > 0 => buffer # <<>>)
  /\ received \in 0..MaxBars /\ savedCount \in Nat
  /\ stored \in [Bars -> Nat] /\ unheard \in [Bars -> Nat] /\ givenUp \subseteq Bars
  /\ fed \in 0..MaxBars /\ faults \in 0..MaxFaults /\ uses \in 0..MaxUses

(* Every bar the command received is in the buffer, stored, or part of a   *)
(* batch whose save failed for good; at the end the buffer is empty.       *)
ReceivedIsAccountedFor ==
  /\ \A b \in 1..received : b \in Range(buffer) \/ stored[b] > 0 \/ b \in givenUp
  /\ phase = "ended" => buffer = <<>>

(* The counter of saved bars counts each bar once, and only stored ones.   *)
SavedCountIsStored ==
  savedCount = Cardinality({b \in 1..received : b \notin Range(buffer) \cup givenUp})
  /\ \A b \in 1..received : b \notin Range(buffer) \cup givenUp => stored[b] > 0

(* The upsert adds volumes, so a repeated save adds a bar again: beyond    *)
(* one, the volume of a bar is in its row once for every answer to its     *)
(* save that was lost, and never for another reason.                       *)
AddedOncePerAnswer == \A b \in Bars : stored[b] <= 1 + unheard[b]

(* The check and the record of a subscription take separate locks: a       *)
(* subscription takes the place of another only if that one was recorded   *)
(* after the check, and never one that was there before.                   *)
ReplacedOnlyByOverlap ==
  [][owner # NoOwner /\ owner' \notin {owner, NoOwner} => owner \in since[owner']]_vars
=============================================================================
