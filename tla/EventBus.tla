------------------------------ MODULE EventBus ------------------------------
(***************************************************************************)
(* EventBus (crates/infrastructure/src/messaging/event_bus.rs): a ring of  *)
(* tokio's broadcast channel with a cursor for each subscription, and the  *)
(* metrics beside it.  A subscriber that lags behind the ring skips to the *)
(* oldest event that is left.  The channel itself is external.             *)
(***************************************************************************)
EXTENDS Integers, Sequences, FiniteSets, FiniteSetsExt

CONSTANTS
  Publishers,  \* who hold a clone of the bus
  Subscribers,
  Kind,        \* Kind[s]: with which call s subscribes
  Pattern,     \* Pattern[s]: the filter it gives
  Types,       \* event types, <<"order", "filled">> for order_filled
  Capacity,    \* of the channel
  MaxEvents    \* bound: events that are published

ASSUME BusAssumption ==
  /\ Kind \in [Subscribers -> {"receiver", "filtered", "resumable"}]
  /\ Capacity \in Nat \ {0} /\ MaxEvents \in Nat

VARIABLES
  log,       \* what was sent into the ring
  holders,   \* publishers that have not dropped their clone
  at,        \* what each subscriber is doing
  next,      \* the cursor of its receiver
  from,      \* ghost: what had been sent when it subscribed
  got, lost, \* ghosts: what it was given, what it skipped because it lagged
  published, consumed, dropped, subscribers  \* EventBusMetrics

cursors == <<next, from, got, lost>>
metrics == <<published, consumed, dropped, subscribers>>
vars == <<log, holders, at, cursors, metrics>>

Init ==
  /\ log = <<>> /\ holders = Publishers
  /\ at = [s \in Subscribers |-> "new"]
  /\ next = [s \in Subscribers |-> 1] /\ from = [s \in Subscribers |-> 0]
  /\ got = [s \in Subscribers |-> <<>>] /\ lost = [s \in Subscribers |-> {}]
  /\ published = 0 /\ consumed = 0 /\ dropped = 0 /\ subscribers = 0

(* subscribe_to_topic(): "order.*" asks for names that begin with order    *)
(* and a dot, of which there is none; "*.filled" asks for names that end   *)
(* in filled.  Receivers have no filter.                                   *)
Matches(s, type) ==
  \/ Kind[s] # "filtered"
  \/ Pattern[s].form = "exact" /\ type = Pattern[s].name
  \/ Pattern[s].form = "suffix" /\ type[2] = Pattern[s].name

Active(s) == at[s] \in {"idle", "recv"}
-----------------------------------------------------------------------------
(* publish(): without receivers nothing is sent, and it counts all the     *)
(* same.  No code reads the counter between the two.                       *)
Publish(p) ==
  /\ p \in holders /\ published < MaxEvents
  /\ \E type \in Types :
       log' = IF \E s \in Subscribers : Active(s) THEN Append(log, type) ELSE log
  /\ published' = published + 1
  /\ UNCHANGED <<holders, at, cursors, consumed, dropped, subscribers>>

DropBus(p) ==
  /\ holders' = holders \ {p} /\ p \in holders
  /\ UNCHANGED <<log, at, cursors, metrics>>

(* subscribe(), subscribe_filtered() and subscribe_to_topic(), and         *)
(* subscribe_resumable().                                                  *)
Subscribe(s) ==
  /\ at[s] = "new" /\ holders # {}
  /\ at' = [at EXCEPT ![s] = "idle"]
  /\ next' = [next EXCEPT ![s] = Len(log) + 1] /\ from' = [from EXCEPT ![s] = Len(log)]
  /\ subscribers' = subscribers + 1
  /\ UNCHANGED <<log, holders, got, lost, published, consumed, dropped>>

(* Only a Subscription counts itself out when it is dropped.               *)
Unsubscribe(s) ==
  /\ at[s] = "idle"
  /\ at' = [at EXCEPT ![s] = "gone"]
  /\ subscribers' = IF Kind[s] = "filtered" THEN subscribers - 1 ELSE subscribers
  /\ UNCHANGED <<log, holders, cursors, published, consumed, dropped>>
-----------------------------------------------------------------------------
Recv(s) ==
  /\ at[s] = "idle"
  /\ at' = [at EXCEPT ![s] = "recv"]
  /\ UNCHANGED <<log, holders, cursors, metrics>>

OldestLate == Len(log) - Capacity + 2  \* seeded fault: an event that is kept is skipped

(* The oldest event in the ring.                                           *)
Oldest == Len(log) - Capacity + 1

(* A plain receiver is outside the reach of the metrics.                   *)
Counted(s) == Kind[s] # "receiver"

DroppedOnce(s) == dropped + 1  \* seeded fault: a lag counts as one event

Dropped(s) == IF Counted(s) THEN dropped + (Oldest - next[s]) ELSE dropped

(* RecvError::Lagged: recv() goes on, except a plain receiver's.           *)
Lag(s) ==
  /\ at[s] = "recv" /\ next[s] < Oldest
  /\ at' = [at EXCEPT ![s] = IF Counted(s) THEN "recv" ELSE "idle"]
  /\ next' = [next EXCEPT ![s] = Oldest]
  /\ lost' = [lost EXCEPT ![s] = @ \cup next[s] .. Oldest - 1]
  /\ dropped' = Dropped(s)
  /\ UNCHANGED <<log, holders, from, got, published, consumed, subscribers>>

InRing(s) == next[s] \in Oldest .. Len(log)

FilterOut(s) ==
  /\ at[s] = "recv" /\ InRing(s) /\ ~Matches(s, log[next[s]])
  /\ next' = [next EXCEPT ![s] = @ + 1]
  /\ UNCHANGED <<log, holders, at, from, got, lost, metrics>>

Deliver(s) ==
  /\ at[s] = "recv" /\ InRing(s) /\ Matches(s, log[next[s]])
  /\ got' = [got EXCEPT ![s] = Append(@, next[s])]
  /\ next' = [next EXCEPT ![s] = @ + 1]
  /\ at' = [at EXCEPT ![s] = "idle"]
  /\ consumed' = IF Counted(s) THEN consumed + 1 ELSE consumed
  /\ UNCHANGED <<log, holders, from, lost, published, dropped, subscribers>>

(* try_recv() finds nothing.                                               *)
Nothing(s) ==
  /\ at[s] = "recv" /\ next[s] > Len(log) /\ holders # {}
  /\ Kind[s] = "filtered"
  /\ at' = [at EXCEPT ![s] = "idle"]
  /\ UNCHANGED <<log, holders, cursors, metrics>>

ClosedAgain(s) ==  \* seeded fault: recv() goes on when the channel is closed
  /\ at[s] = "recv" /\ next[s] > Len(log) /\ holders = {}
  /\ UNCHANGED vars

(* RecvError::Closed, once everything that was sent has been read.         *)
Closed(s) ==
  /\ at[s] = "recv" /\ next[s] > Len(log) /\ holders = {}
  /\ at' = [at EXCEPT ![s] = "idle"]
  /\ UNCHANGED <<log, holders, cursors, metrics>>

Receiving(s) == Lag(s) \/ FilterOut(s) \/ Deliver(s) \/ Closed(s)

Next ==
  \/ \E p \in Publishers : Publish(p) \/ DropBus(p)
  \/ \E s \in Subscribers : Subscribe(s) \/ Unsubscribe(s) \/ Recv(s) \/ Receiving(s) \/ Nothing(s)

Spec == Init /\ [][Next]_vars

(* A recv() that can go on is polled.                                      *)
FairSpec == Spec /\ \A s \in Subscribers : WF_vars(Receiving(s))
-----------------------------------------------------------------------------
TypeOK ==
  /\ log \in Seq(Types) /\ published \in 0 .. MaxEvents
  /\ holders \subseteq Publishers
  /\ at \in [Subscribers -> {"new", "idle", "recv", "gone"}]
  /\ \A s \in Subscribers : from[s] < next[s] /\ next[s] <= Len(log) + 1
  /\ got \in [Subscribers -> Seq(Nat)] /\ lost \in [Subscribers -> SUBSET Nat]
  /\ subscribers \in Nat /\ consumed \in Nat /\ dropped \in Nat

Elements(seq) == {seq[i] : i \in DOMAIN seq}

(* What lies behind the cursor of a subscriber it was given, or it did not *)
(* match, or the subscriber lagged.                                        *)
GivenOrLost ==
  \A s \in Subscribers : \A n \in from[s] + 1 .. next[s] - 1 :
    n \in Elements(got[s]) \cup lost[s] \/ ~Matches(s, log[n])

(* That, and the metrics add up what all the counted subscriptions,        *)
(* dropped ones too, were given and have lost.                             *)
EveryEventAccountedFor ==
  /\ GivenOrLost
  /\ consumed = MapThenSumSet(LAMBDA s : Len(got[s]), {s \in Subscribers : Counted(s)})
  /\ dropped = MapThenSumSet(LAMBDA s : Cardinality(lost[s]), {s \in Subscribers : Counted(s)})

(* recv() returns when the last clone of the bus is dropped, and never     *)
(* waits beside an event that it could read.                               *)
RecvEnds ==
  \A s \in Subscribers :
    /\ at[s] = "recv" /\ holders = {} ~> at[s] # "recv"
    /\ at[s] = "recv" ~> at[s] # "recv" \/ next[s] = Len(log) + 1

(* The bus delivers as EventDelivery says.                                 *)
Delivery ==
  INSTANCE EventDelivery WITH
    Wants <- [s \in Subscribers |-> {type \in Types : Matches(s, type)}],
    mark <- [s \in Subscribers |-> IF got[s] = <<>> THEN from[s] ELSE got[s][Len(got[s])]],
    given <- got

DeliverySpec == Delivery!Spec
=============================================================================
