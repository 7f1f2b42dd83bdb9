--------------------------- MODULE EventBus_proofs ---------------------------
(***************************************************************************)
(* Machine-checked proofs about the event bus, for any publishers,         *)
(* subscribers, filters, types of events and capacity of the ring.         *)
(***************************************************************************)
EXTENDS EventBus, FiniteSums, SequenceTheorems

BusType ==
  /\ log \in Seq(Types) /\ published \in 0 .. MaxEvents
  /\ holders \subseteq Publishers
  /\ at \in [Subscribers -> {"new", "idle", "recv", "gone"}]
  /\ next \in [Subscribers -> Nat] /\ from \in [Subscribers -> Nat]
  /\ \A s \in Subscribers : from[s] < next[s] /\ next[s] <= Len(log) + 1
  /\ got \in [Subscribers -> Seq(Nat)] /\ lost \in [Subscribers -> SUBSET Nat]
  /\ consumed \in Nat /\ dropped \in Nat

(* The subscriptions that will count themselves out.                       *)
Subscribed == {s \in Subscribers : Active(s) /\ Kind[s] = "filtered"}

CountInv ==
  /\ IsFiniteSet(Subscribed)
  /\ subscribers \in Nat /\ Cardinality(Subscribed) <= subscribers

(* The last event that a subscriber was given or that it joined after.     *)
Mark == [s \in Subscribers |-> IF got[s] = <<>> THEN from[s] ELSE got[s][Len(got[s])]]

(* Nothing that a subscriber wants lies between its mark and its cursor,   *)
(* but what has left the ring.                                             *)
MarkInv ==
  \A s \in Subscribers :
    /\ at[s] = "new" => got[s] = <<>>
    /\ Mark[s] \in Nat /\ Mark[s] < next[s]
    /\ \A k \in Mark[s] + 1 .. next[s] - 1 : Matches(s, log[k]) => k + Capacity <= Len(log)

BusInv == BusType /\ CountInv /\ MarkInv /\ GivenOrLost

LEMMA BusInit == Init => BusInv
<1> SUFFICES ASSUME Init PROVE BusInv
  OBVIOUS
<1>1. log = <<>> /\ Len(log) = 0 /\ log \in Seq(Types)
  BY DEF Init
<1>2. \A s \in Subscribers : got[s] = <<>> /\ next[s] = 1 /\ from[s] = 0 /\ at[s] = "new"
  BY DEF Init
<1>3. BusType
  BY <1>1, BusAssumption DEF Init, BusType
<1>4. Subscribed = {}
  BY <1>2 DEF Subscribed, Active
<1>5. CountInv
  BY <1>4, FS_EmptySet DEF CountInv, Init
<1>6. \A s \in Subscribers : Mark[s] = 0
  BY <1>2 DEF Mark
<1>7. MarkInv
  BY <1>2, <1>6 DEF MarkInv
<1>8. GivenOrLost
  BY <1>2 DEF GivenOrLost
<1> QED BY <1>3, <1>5, <1>7, <1>8 DEF BusInv
-----------------------------------------------------------------------------
(* A subscriber's mark is its own.                                         *)
LEMMA MarkSame ==
  ASSUME NEW s \in Subscribers, got'[s] = got[s], from'[s] = from[s]
  PROVE  Mark'[s] = Mark[s]
BY DEF Mark

LEMMA CountSame ==
  ASSUME CountInv, Subscribed' = Subscribed, subscribers' = subscribers
  PROVE  CountInv'
BY DEF CountInv

(* What was in the log stays where it is when an event is appended.        *)
LEMMA LogGrows ==
  ASSUME BusType, NEW type \in Types, log' = Append(log, type)
  PROVE  /\ log' \in Seq(Types) /\ Len(log') = Len(log) + 1
         /\ \A k \in 1 .. Len(log) : log'[k] = log[k]
BY DEF BusType

LEMMA PublishStep == ASSUME BusInv, NEW p \in Publishers, Publish(p) PROVE BusInv'
<1>1. /\ log' \in Seq(Types) /\ Len(log') >= Len(log) /\ Len(log') \in Nat /\ Len(log) \in Nat
      /\ \A k \in 1 .. Len(log) : log'[k] = log[k]
  <2>1. PICK type \in Types :
          log' = IF \E s \in Subscribers : Active(s) THEN Append(log, type) ELSE log
    BY DEF Publish
  <2>2. log \in Seq(Types) /\ Len(log) \in Nat
    BY DEF BusInv, BusType
  <2>3. CASE log' = log
    BY <2>2, <2>3
  <2>4. CASE log' = Append(log, type)
    BY <2>2, <2>4, LogGrows DEF BusInv
  <2> QED BY <2>1, <2>3, <2>4
<1>2. UNCHANGED <<at, next, from, got, lost, consumed, dropped, subscribers, holders>>
  BY DEF Publish, cursors
<1>3. BusType'
  <2>1. published' \in 0 .. MaxEvents
    BY BusAssumption DEF Publish, BusInv, BusType
  <2> QED BY <1>1, <1>2, <2>1 DEF BusInv, BusType
<1>4. CountInv'
  BY <1>2, CountSame DEF BusInv, Subscribed, Active
<1>5. \A s \in Subscribers : Mark'[s] = Mark[s]
  BY <1>2, MarkSame
<1>6. MarkInv'
  <2> SUFFICES ASSUME NEW s \in Subscribers
               PROVE  /\ at'[s] = "new" => got'[s] = <<>>
                      /\ Mark'[s] \in Nat /\ Mark'[s] < next'[s]
                      /\ \A k \in Mark'[s] + 1 .. next'[s] - 1 :
                           Matches(s, log'[k]) => k + Capacity <= Len(log')
    BY DEF MarkInv, Matches
  <2>1. next[s] \in Nat /\ next[s] <= Len(log) + 1 /\ Mark[s] \in Nat
    BY DEF BusInv, BusType, MarkInv
  <2>2. ASSUME NEW k \in Mark[s] + 1 .. next[s] - 1, Matches(s, log'[k])
        PROVE  k + Capacity <= Len(log')
    <3>1. k \in 1 .. Len(log)
      BY <2>1, <1>1
    <3>2. Matches(s, log[k])
      BY <3>1, <1>1, <2>2
    <3>3. k + Capacity <= Len(log)
      BY <3>2 DEF BusInv, MarkInv
    <3> QED BY <3>1, <3>3, <1>1, BusAssumption
  <2> QED BY <1>2, <1>5, <2>2 DEF BusInv, MarkInv
<1>7. GivenOrLost'
  <2> SUFFICES ASSUME NEW s \in Subscribers, NEW n \in from'[s] + 1 .. next'[s] - 1
               PROVE  n \in Elements(got'[s]) \cup lost'[s] \/ ~Matches(s, log'[n])
    BY DEF GivenOrLost, Matches, Elements
  <2>1. n \in 1 .. Len(log)
    BY <1>1, <1>2 DEF BusInv, BusType
  <2>2. n \in Elements(got[s]) \cup lost[s] \/ ~Matches(s, log[n])
    BY <1>2 DEF BusInv, GivenOrLost
  <2> QED BY <2>1, <2>2, <1>1, <1>2
<1> QED BY <1>3, <1>4, <1>6, <1>7 DEF BusInv
-----------------------------------------------------------------------------
(* The steps that touch neither the log nor a cursor.                      *)
LEMMA QuietStep ==
  ASSUME BusInv, UNCHANGED <<log, next, from, got, lost, published, consumed, dropped>>,
         holders' \subseteq Publishers,
         at' \in [Subscribers -> {"new", "idle", "recv", "gone"}],
         \A s \in Subscribers : at'[s] = "new" => at[s] = "new",
         CountInv'
  PROVE  BusInv'
<1>1. BusType'
  BY DEF BusInv, BusType
<1>2. \A s \in Subscribers : Mark'[s] = Mark[s]
  BY MarkSame
<1>3. MarkInv'
  BY <1>2 DEF BusInv, MarkInv, Matches
<1>4. GivenOrLost'
  BY DEF BusInv, GivenOrLost, Matches, Elements
<1> QED BY <1>1, <1>3, <1>4 DEF BusInv

LEMMA DropBusStep == ASSUME BusInv, NEW p \in Publishers, DropBus(p) PROVE BusInv'
<1>1. UNCHANGED <<log, next, from, got, lost, published, consumed, dropped, at, subscribers>>
  BY DEF DropBus, cursors, metrics
<1>2. CountInv'
  BY <1>1, CountSame DEF BusInv, Subscribed, Active
<1> QED BY <1>1, <1>2, QuietStep DEF DropBus, BusInv, BusType

(* A call of recv() or try_recv() begins, or ends with nothing.            *)
LEMMA PollStep ==
  ASSUME BusInv, NEW s \in Subscribers, Recv(s) \/ Nothing(s) \/ Closed(s)
  PROVE  BusInv'
<1>1. /\ UNCHANGED <<log, holders, next, from, got, lost, published, consumed, dropped, subscribers>>
      /\ Active(s)
      /\ \E step \in {"idle", "recv"} : at' = [at EXCEPT ![s] = step]
  BY DEF Recv, Nothing, Closed, cursors, metrics, Active
<1>2. /\ at' \in [Subscribers -> {"new", "idle", "recv", "gone"}]
      /\ \A q \in Subscribers : (at'[q] = "new" => at[q] = "new") /\ (Active(q)' <=> Active(q))
  BY <1>1 DEF BusInv, BusType, Active
<1>3. CountInv'
  BY <1>1, <1>2, CountSame DEF BusInv, Subscribed
<1> QED BY <1>1, <1>2, <1>3, QuietStep DEF BusInv, BusType

(* A Subscription that counts itself out has been counted in.              *)
LEMMA UnsubscribeStep == ASSUME BusInv, NEW s \in Subscribers, Unsubscribe(s) PROVE BusInv'
<1>1. UNCHANGED <<log, holders, next, from, got, lost, published, consumed, dropped>>
  BY DEF Unsubscribe, cursors
<1>2. at' = [at EXCEPT ![s] = "gone"] /\ at[s] = "idle" /\ at' \in [Subscribers -> {"new", "idle", "recv", "gone"}]
  BY DEF Unsubscribe, BusInv, BusType
<1>3. \A q \in Subscribers : (at'[q] = "new" => at[q] = "new") /\ (Active(q)' <=> Active(q) /\ q # s)
  BY <1>2 DEF BusInv, BusType, Active
<1>4. CountInv'
  <2>1. Subscribed' = Subscribed \ {s}
    BY <1>3 DEF Subscribed
  <2>2. CASE Kind[s] = "filtered"
    <3>1. s \in Subscribed
      BY <1>2, <2>2 DEF Subscribed, Active
    <3>2. /\ IsFiniteSet(Subscribed')
          /\ Cardinality(Subscribed') = Cardinality(Subscribed) - 1
      BY <2>1, <3>1, FS_RemoveElement DEF BusInv, CountInv
    <3>3. subscribers' = subscribers - 1
      BY <2>2 DEF Unsubscribe
    <3>4. Cardinality(Subscribed') \in Nat
      BY <3>2, FS_CardinalityType
    <3>5. Cardinality(Subscribed) \in Nat
      BY FS_CardinalityType DEF BusInv, CountInv
    <3> QED BY <3>2, <3>3, <3>4, <3>5 DEF BusInv, CountInv
  <2>3. CASE Kind[s] # "filtered"
    <3>1. Subscribed' = Subscribed
      BY <2>1, <2>3 DEF Subscribed
    <3> QED BY <3>1, <2>3, CountSame DEF Unsubscribe, BusInv
  <2> QED BY <2>2, <2>3
<1> QED BY <1>1, <1>2, <1>3, <1>4, QuietStep DEF BusInv, BusType
-----------------------------------------------------------------------------
LEMMA SubscribeStep == ASSUME BusInv, NEW s \in Subscribers, Subscribe(s) PROVE BusInv'
<1>1. /\ UNCHANGED <<log, holders, got, lost, published, consumed, dropped>>
      /\ at[s] = "new" /\ at' = [at EXCEPT ![s] = "idle"]
      /\ next' = [next EXCEPT ![s] = Len(log) + 1] /\ from' = [from EXCEPT ![s] = Len(log)]
      /\ subscribers' = subscribers + 1
  BY DEF Subscribe
<1>2. Len(log) \in Nat
  BY DEF BusInv, BusType
<1>3. /\ at' \in [Subscribers -> {"new", "idle", "recv", "gone"}] /\ at'[s] = "idle"
      /\ next'[s] = Len(log) + 1 /\ from'[s] = Len(log)
      /\ \A q \in Subscribers \ {s} : at'[q] = at[q] /\ next'[q] = next[q] /\ from'[q] = from[q]
  BY <1>1, <1>2 DEF BusInv, BusType
<1>4. BusType'
  BY <1>1, <1>2, <1>3 DEF BusInv, BusType
<1>5. CountInv'
  <2>1. IsFiniteSet(Subscribed) /\ Cardinality(Subscribed) \in Nat /\ s \notin Subscribed
    BY <1>1, FS_CardinalityType DEF BusInv, CountInv, Subscribed, Active
  <2>2. CASE Kind[s] = "filtered"
    <3>1. Subscribed' = Subscribed \cup {s}
      BY <1>3, <2>2 DEF Subscribed, Active
    <3>2. IsFiniteSet(Subscribed') /\ Cardinality(Subscribed') = Cardinality(Subscribed) + 1
      BY <2>1, <3>1, FS_AddElement
    <3> QED BY <1>1, <2>1, <3>2 DEF BusInv, CountInv
  <2>3. CASE Kind[s] # "filtered"
    <3>1. Subscribed' = Subscribed
      BY <1>3, <2>3 DEF Subscribed, Active
    <3> QED BY <1>1, <2>1, <3>1 DEF BusInv, CountInv
  <2> QED BY <2>2, <2>3
<1>6. /\ Mark'[s] = Len(log) /\ got'[s] = <<>>
      /\ \A q \in Subscribers \ {s} : Mark'[q] = Mark[q]
  <2>1. got[s] = <<>>
    BY <1>1 DEF BusInv, MarkInv
  <2> QED BY <2>1, <1>1, <1>3, MarkSame DEF Mark
<1>7. MarkInv'
  BY <1>1, <1>2, <1>3, <1>6 DEF BusInv, MarkInv, Matches
<1>8. GivenOrLost'
  <2> SUFFICES ASSUME NEW q \in Subscribers, NEW n \in from'[q] + 1 .. next'[q] - 1
               PROVE  n \in Elements(got[q]) \cup lost[q] \/ ~Matches(q, log[n])
    BY <1>1 DEF GivenOrLost, Matches, Elements
  <2>1. q # s
    BY <1>2, <1>3
  <2> QED BY <2>1, <1>3 DEF BusInv, GivenOrLost
<1> QED BY <1>4, <1>5, <1>7, <1>8 DEF BusInv
-----------------------------------------------------------------------------
(* The steps that move one cursor: what it passes was given, lost or not   *)
(* wanted, and where it passes without giving, what it passes was not      *)
(* wanted or has left the ring.                                            *)
LEMMA CursorStep ==
  ASSUME BusInv, NEW s \in Subscribers, NEW n \in Nat, NEW step \in {"idle", "recv"},
         UNCHANGED <<log, holders, from, published, subscribers>>,
         Active(s), at' = [at EXCEPT ![s] = step],
         next' = [next EXCEPT ![s] = n], next[s] <= n, n <= Len(log) + 1,
         got' \in [Subscribers -> Seq(Nat)], lost' \in [Subscribers -> SUBSET Nat],
         consumed' \in Nat, dropped' \in Nat,
         \A q \in Subscribers \ {s} : got'[q] = got[q] /\ lost'[q] = lost[q],
         Elements(got[s]) \subseteq Elements(got'[s]), lost[s] \subseteq lost'[s],
         \A k \in next[s] .. n - 1 : k \in Elements(got'[s]) \cup lost'[s] \/ ~Matches(s, log[k]),
         Mark'[s] \in Nat, Mark'[s] < n, Mark[s] <= Mark'[s],
         \A k \in next[s] .. n - 1 :
           k > Mark'[s] /\ Matches(s, log[k]) => k + Capacity <= Len(log)
  PROVE  BusInv'
<1>1. /\ next[s] \in Nat /\ from[s] \in Nat /\ from[s] < next[s] /\ Len(log) \in Nat
      /\ next'[s] = n /\ at'[s] = step /\ at[s] # "new"
      /\ \A q \in Subscribers \ {s} : next'[q] = next[q] /\ at'[q] = at[q]
  BY DEF BusInv, BusType, Active
<1>2. BusType'
  <2>1. \A q \in Subscribers : from'[q] < next'[q] /\ next'[q] <= Len(log') + 1
    <3>1. from'[s] < next'[s] /\ next'[s] <= Len(log') + 1
      BY <1>1
    <3>2. ASSUME NEW q \in Subscribers \ {s} PROVE from'[q] < next'[q] /\ next'[q] <= Len(log') + 1
      BY <1>1 DEF BusInv, BusType
    <3> QED BY <3>1, <3>2
  <2>2. next' \in [Subscribers -> Nat] /\ at' \in [Subscribers -> {"new", "idle", "recv", "gone"}]
    BY DEF BusInv, BusType
  <2> QED BY <2>1, <2>2 DEF BusInv, BusType
<1>3. \A q \in Subscribers : Active(q)' <=> Active(q)
  BY <1>1 DEF Active
<1>4. CountInv'
  BY <1>3, CountSame DEF BusInv, Subscribed
<1>5. \A q \in Subscribers \ {s} : Mark'[q] = Mark[q]
  BY MarkSame
<1>6. MarkInv'
  <2>1. ASSUME NEW k \in Mark'[s] + 1 .. n - 1, Matches(s, log[k]) PROVE k + Capacity <= Len(log)
    <3>1. CASE k < next[s]
      <4>1. Mark[s] \in Nat /\ k \in Mark[s] + 1 .. next[s] - 1
        BY <1>1, <3>1, SMTT(30) DEF BusInv, MarkInv
      <4> QED BY <4>1, <2>1 DEF BusInv, MarkInv
    <3>2. CASE k >= next[s]
      BY <1>1, <2>1, <3>2
    <3> QED BY <1>1, <3>1, <3>2
  <2>2. /\ at'[s] = "new" => got'[s] = <<>>
        /\ Mark'[s] \in Nat /\ Mark'[s] < next'[s]
        /\ \A k \in Mark'[s] + 1 .. next'[s] - 1 : Matches(s, log'[k]) => k + Capacity <= Len(log')
    BY <1>1, <2>1
  <2>3. ASSUME NEW q \in Subscribers \ {s}
        PROVE  /\ at'[q] = "new" => got'[q] = <<>>
               /\ Mark'[q] \in Nat /\ Mark'[q] < next'[q]
               /\ \A k \in Mark'[q] + 1 .. next'[q] - 1 :
                    Matches(q, log'[k]) => k + Capacity <= Len(log')
    BY <1>1, <1>5 DEF BusInv, MarkInv
  <2> QED BY <2>2, <2>3 DEF MarkInv, Matches
<1>7. GivenOrLost'
  <2> SUFFICES ASSUME NEW q \in Subscribers, NEW k \in from[q] + 1 .. next'[q] - 1
               PROVE  k \in Elements(got'[q]) \cup lost'[q] \/ ~Matches(q, log[k])
    BY DEF GivenOrLost, Matches, Elements
  <2>1. CASE q # s
    <3>1. next'[q] = next[q] /\ got'[q] = got[q] /\ lost'[q] = lost[q]
      BY <1>1, <2>1
    <3> QED BY <3>1 DEF BusInv, GivenOrLost
  <2>2. CASE q = s /\ k < next[s]
    <3>1. k \in from[s] + 1 .. next[s] - 1
      BY <1>1, <2>2
    <3>2. k \in Elements(got[s]) \cup lost[s] \/ ~Matches(s, log[k])
      BY <3>1 DEF BusInv, GivenOrLost
    <3> QED BY <2>2, <3>2
  <2>3. CASE q = s /\ k >= next[s]
    BY <1>1, <2>3
  <2> QED BY <1>1, <2>1, <2>2, <2>3
<1> QED BY <1>2, <1>4, <1>6, <1>7 DEF BusInv

(* What a cursor has, and where the ring begins.                           *)
LEMMA CursorType ==
  ASSUME BusInv, NEW s \in Subscribers
  PROVE  /\ next[s] \in Nat /\ next[s] >= 1 /\ Len(log) \in Nat /\ Oldest \in Int
         /\ Oldest = Len(log) - Capacity + 1 /\ Capacity \in Nat /\ Capacity >= 1
         /\ got[s] \in Seq(Nat) /\ lost[s] \in SUBSET Nat /\ Mark[s] \in Nat /\ Mark[s] < next[s]
BY BusAssumption DEF BusInv, BusType, MarkInv, Oldest

LEMMA LagStep == ASSUME BusInv, NEW s \in Subscribers, Lag(s) PROVE BusInv'
<1>1. /\ UNCHANGED <<log, holders, from, got, published, consumed, subscribers>>
      /\ at[s] = "recv" /\ next[s] < Oldest
      /\ next' = [next EXCEPT ![s] = Oldest] /\ lost' = [lost EXCEPT ![s] = @ \cup next[s] .. Oldest - 1]
      /\ at' = [at EXCEPT ![s] = IF Counted(s) THEN "recv" ELSE "idle"]
  BY DEF Lag
<1>2. Oldest \in Nat /\ Oldest <= Len(log) + 1 /\ next[s] <= Oldest
  BY <1>1, CursorType
<1>3. \E step \in {"idle", "recv"} : at' = [at EXCEPT ![s] = step]
  BY <1>1
<1>4. /\ lost'[s] = lost[s] \cup next[s] .. Oldest - 1
      /\ \A q \in Subscribers \ {s} : lost'[q] = lost[q]
      /\ lost' \in [Subscribers -> SUBSET Nat]
  BY <1>1, <1>2, CursorType DEF BusInv, BusType
<1>5. dropped' \in Nat /\ consumed' \in Nat
  <2>1. dropped' = Dropped(s)
    BY DEF Lag
  <2>2. Dropped(s) \in Nat
    BY <1>1, <1>2, CursorType DEF Dropped, BusInv, BusType
  <2> QED BY <1>1, <2>1, <2>2 DEF BusInv, BusType
<1>6. Mark'[s] = Mark[s]
  BY <1>1, MarkSame
<1>7. \A k \in next[s] .. Oldest - 1 : k \in lost'[s] /\ k + Capacity <= Len(log)
  BY <1>2, <1>4, CursorType
<1>8. Active(s) /\ got' \in [Subscribers -> Seq(Nat)]
  BY <1>1 DEF Active, BusInv, BusType
<1>9. Mark'[s] \in Nat /\ Mark'[s] < Oldest /\ Mark[s] <= Mark'[s]
  BY <1>2, <1>6, CursorType
<1> QED BY <1>1, <1>2, <1>3, <1>4, <1>5, <1>7, <1>8, <1>9, CursorStep

LEMMA FilterOutStep == ASSUME BusInv, NEW s \in Subscribers, FilterOut(s) PROVE BusInv'
<1>1. /\ UNCHANGED <<log, holders, from, got, lost, published, consumed, subscribers, dropped>>
      /\ at[s] = "recv" /\ at' = at /\ next[s] \in Oldest .. Len(log) /\ ~Matches(s, log[next[s]])
      /\ next' = [next EXCEPT ![s] = next[s] + 1]
  BY DEF FilterOut, InRing, metrics
<1>2. PICK n \in Nat : n = next[s] + 1
  BY CursorType
<1>3. next' = [next EXCEPT ![s] = n] /\ next[s] <= n /\ n <= Len(log) + 1
  BY <1>1, <1>2, CursorType
<1>4. at' = [at EXCEPT ![s] = "recv"] /\ Active(s)
  BY <1>1 DEF BusInv, BusType, Active
<1>5. Mark'[s] \in Nat /\ Mark'[s] < n /\ Mark[s] <= Mark'[s]
  BY <1>1, <1>2, MarkSame, CursorType
<1>6. \A k \in next[s] .. n - 1 : ~Matches(s, log[k])
  BY <1>1, <1>2, CursorType
<1>7. /\ got' \in [Subscribers -> Seq(Nat)] /\ lost' \in [Subscribers -> SUBSET Nat]
      /\ consumed' \in Nat /\ dropped' \in Nat
  BY <1>1 DEF BusInv, BusType
<1>8. /\ \A q \in Subscribers \ {s} : got'[q] = got[q] /\ lost'[q] = lost[q]
      /\ Elements(got[s]) \subseteq Elements(got'[s]) /\ lost[s] \subseteq lost'[s]
  BY <1>1
<1> QED BY <1>1, <1>3, <1>4, <1>5, <1>6, <1>7, <1>8, CursorStep

(* What a subscriber is given becomes its mark.                            *)
LEMMA Delivers ==
  ASSUME BusInv, NEW s \in Subscribers, Deliver(s)
  PROVE  /\ got' \in [Subscribers -> Seq(Nat)] /\ Elements(got[s]) \subseteq Elements(got'[s])
         /\ next[s] \in Elements(got'[s]) /\ Mark'[s] = next[s]
         /\ \A q \in Subscribers \ {s} : got'[q] = got[q] /\ Mark'[q] = Mark[q]
<1>1. got' = [got EXCEPT ![s] = Append(got[s], next[s])] /\ UNCHANGED from
  BY DEF Deliver
<1>2. got \in [Subscribers -> Seq(Nat)] /\ got[s] \in Seq(Nat) /\ next[s] \in Nat /\ Len(got[s]) \in Nat
  BY DEF BusInv, BusType
<1>3. /\ got'[s] = Append(got[s], next[s])
      /\ \A q \in Subscribers \ {s} : got'[q] = got[q]
  BY <1>1, <1>2
<1>4. got' \in [Subscribers -> Seq(Nat)]
  BY <1>1, <1>2
<1>5. /\ Len(got'[s]) = Len(got[s]) + 1 /\ got'[s] \in Seq(Nat)
      /\ got'[s][Len(got[s]) + 1] = next[s]
      /\ \A i \in 1 .. Len(got[s]) : got'[s][i] = got[s][i]
  BY <1>2, <1>3
<1>6. Elements(got[s]) \subseteq Elements(got'[s]) /\ next[s] \in Elements(got'[s])
  <2>1. DOMAIN got[s] = 1 .. Len(got[s]) /\ DOMAIN got'[s] = 1 .. Len(got[s]) + 1
    BY <1>2, <1>5
  <2>2. \A i \in DOMAIN got[s] : i \in DOMAIN got'[s] /\ got'[s][i] = got[s][i]
    BY <1>2, <1>5, <2>1
  <2>3. Len(got[s]) + 1 \in DOMAIN got'[s]
    BY <1>2, <2>1
  <2>4. Elements(got[s]) \subseteq Elements(got'[s])
    BY <2>2 DEF Elements
  <2> QED BY <1>5, <2>3, <2>4 DEF Elements
<1>7. Mark'[s] = next[s]
  BY <1>5 DEF Mark
<1>8. \A q \in Subscribers \ {s} : Mark'[q] = Mark[q]
  BY <1>1, <1>3, MarkSame
<1> QED BY <1>3, <1>4, <1>6, <1>7, <1>8

LEMMA DeliverStep == ASSUME BusInv, NEW s \in Subscribers, Deliver(s) PROVE BusInv'
<1>1. /\ UNCHANGED <<log, holders, from, lost, published, subscribers, dropped>>
      /\ at[s] = "recv" /\ at' = [at EXCEPT ![s] = "idle"] /\ next[s] \in Oldest .. Len(log)
      /\ next' = [next EXCEPT ![s] = next[s] + 1]
      /\ consumed' = IF Counted(s) THEN consumed + 1 ELSE consumed
  BY DEF Deliver, InRing
<1>2. PICK n \in Nat : n = next[s] + 1
  BY CursorType
<1>3. next' = [next EXCEPT ![s] = n] /\ next[s] <= n /\ n <= Len(log) + 1
  BY <1>1, <1>2, CursorType
<1>4. Mark'[s] \in Nat /\ Mark'[s] < n /\ Mark[s] <= Mark'[s]
  BY <1>2, Delivers, CursorType
<1>5. \A k \in next[s] .. n - 1 : ~(k > Mark'[s]) /\ k \in Elements(got'[s])
  BY <1>2, Delivers, CursorType
<1>6. /\ lost' \in [Subscribers -> SUBSET Nat] /\ consumed' \in Nat /\ dropped' \in Nat /\ Active(s)
  BY <1>1 DEF BusInv, BusType, Active
<1>7. /\ \A q \in Subscribers \ {s} : got'[q] = got[q] /\ lost'[q] = lost[q]
      /\ Elements(got[s]) \subseteq Elements(got'[s]) /\ lost[s] \subseteq lost'[s]
      /\ got' \in [Subscribers -> Seq(Nat)]
  BY <1>1, Delivers
<1> QED BY <1>1, <1>3, <1>4, <1>5, <1>6, <1>7, CursorStep

LEMMA BusStep == BusInv /\ [Next]_vars => BusInv'
<1> SUFFICES ASSUME BusInv, [Next]_vars PROVE BusInv'
  OBVIOUS
<1>1. ASSUME NEW p \in Publishers, Publish(p) \/ DropBus(p) PROVE BusInv'
  BY <1>1, PublishStep, DropBusStep
<1>2. ASSUME NEW s \in Subscribers,
             Subscribe(s) \/ Unsubscribe(s) \/ Recv(s) \/ Receiving(s) \/ Nothing(s)
      PROVE  BusInv'
  <2>1. CASE Subscribe(s)
    BY <2>1, SubscribeStep
  <2>2. CASE Unsubscribe(s)
    BY <2>2, UnsubscribeStep
  <2>3. CASE Recv(s) \/ Nothing(s) \/ Closed(s)
    BY <2>3, PollStep
  <2>4. CASE Lag(s)
    BY <2>4, LagStep
  <2>5. CASE FilterOut(s)
    BY <2>5, FilterOutStep
  <2>6. CASE Deliver(s)
    BY <2>6, DeliverStep
  <2> QED BY <1>2, <2>1, <2>2, <2>3, <2>4, <2>5, <2>6 DEF Receiving
<1>3. CASE UNCHANGED vars
  <2>1. UNCHANGED <<log, holders, at, next, from, got, lost, published, consumed, dropped, subscribers>>
    BY <1>3 DEF vars, cursors, metrics
  <2>2. CountInv'
    BY <2>1, CountSame DEF BusInv, Subscribed, Active
  <2> QED BY <2>1, <2>2, QuietStep DEF BusInv, BusType
<1> QED BY <1>1, <1>2, <1>3 DEF Next

LEMMA BusAlways == Spec => []BusInv
BY BusInit, BusStep, PTL DEF Spec

(* The counters and cursors of the bus stay what they are: the count of    *)
(* subscribers, from which only some subscriptions are taken off again,    *)
(* never falls below zero, and no cursor passes the end of the log.        *)
THEOREM BusIsTyped == Spec => []TypeOK
<1>1. BusInv => TypeOK
  BY DEF BusInv, BusType, CountInv, TypeOK
<1> QED BY <1>1, BusAlways, PTL

(* No event falls between the cursor and the log: what a subscriber has    *)
(* passed since it joined it was given, did not want, or was told to have  *)
(* lost.                                                                   *)
THEOREM PassedIsGivenOrLost == Spec => []GivenOrLost
<1>1. BusInv => GivenOrLost
  BY DEF BusInv
<1> QED BY <1>1, BusAlways, PTL
-----------------------------------------------------------------------------
(* The metrics against what happened, subscription by subscription.        *)
All == {s \in Subscribers : Counted(s)}

Given == [s \in Subscribers |-> Len(got[s])]
Skipped == [s \in Subscribers |-> Cardinality(lost[s])]

(* What a subscriber lost lies behind its cursor, so that no lag counts an *)
(* event twice.                                                            *)
BehindInv == \A s \in Subscribers : \A k \in lost[s] : k >= 1 /\ k < next[s]

MetricsInv ==
  /\ BehindInv
  /\ consumed = SumOver(Given, All)
  /\ dropped = SumOver(Skipped, All)

LEMMA LostIsFinite ==
  ASSUME BusInv, BehindInv, NEW s \in Subscribers
  PROVE  IsFiniteSet(lost[s]) /\ Cardinality(lost[s]) \in Nat
<1>1. next[s] \in Int /\ lost[s] \subseteq 1 .. next[s]
  <2>1. next[s] \in Nat /\ lost[s] \in SUBSET Nat
    BY CursorType
  <2> QED BY <2>1 DEF BehindInv
<1> DEFINE past == 1 .. next[s]
<1>2. IsFiniteSet(past)
  BY <1>1, FS_Interval
<1>3. IsFiniteSet(lost[s])
  <2> HIDE DEF past
  <2>1. lost[s] \subseteq past
    BY <1>1 DEF past
  <2> QED BY <1>2, <2>1, FS_Subset
<1> QED BY <1>3, FS_CardinalityType

(* What is summed is numbers.                                              *)
LEMMA Summands ==
  ASSUME BusInv, BehindInv
  PROVE  \A s \in Subscribers : Given[s] \in Nat /\ Skipped[s] \in Nat
<1> SUFFICES ASSUME NEW s \in Subscribers PROVE Given[s] \in Nat /\ Skipped[s] \in Nat
  OBVIOUS
<1>1. Given[s] = Len(got[s]) /\ Skipped[s] = Cardinality(lost[s])
  BY DEF Given, Skipped
<1>2. Len(got[s]) \in Nat
  BY CursorType
<1> QED BY <1>1, <1>2, LostIsFinite

LEMMA MetricsInit == IsFiniteSet(Subscribers) /\ Init => MetricsInv
<1> SUFFICES ASSUME IsFiniteSet(Subscribers), Init PROVE MetricsInv
  OBVIOUS
<1>1. IsFiniteSet(All) /\ All \subseteq Subscribers
  BY FS_Subset DEF All
<1>2. Len(<<>>) = 0 /\ Cardinality({}) = 0
  BY FS_EmptySet
<1>3. \A s \in Subscribers : Given[s] = 0 /\ Skipped[s] = 0
  BY <1>2 DEF Init, Given, Skipped
<1>4. ASSUME NEW f, \A s \in All : f[s] = 0 PROVE SumOver(f, All) = 0
  BY <1>1, <1>4, SumZero
<1>5. SumOver(Given, All) = 0 /\ SumOver(Skipped, All) = 0
  BY <1>1, <1>3, <1>4
<1>6. BehindInv
  BY DEF Init, BehindInv
<1> QED BY <1>5, <1>6 DEF MetricsInv, Init

(* An event is given: the metric grows with what its subscriber was given. *)
LEMMA GivenCounts ==
  ASSUME BusInv, MetricsInv, IsFiniteSet(Subscribers), NEW s \in Subscribers, Deliver(s)
  PROVE  MetricsInv'
<1>1. /\ next[s] \in Nat /\ got[s] \in Seq(Nat) /\ got \in [Subscribers -> Seq(Nat)]
      /\ next \in [Subscribers -> Nat] /\ got' \in [Subscribers -> Seq(Nat)]
  BY CursorType, Delivers DEF BusInv, BusType
<1>2. /\ got' = [got EXCEPT ![s] = Append(got[s], next[s])]
      /\ next' = [next EXCEPT ![s] = next[s] + 1] /\ UNCHANGED <<lost, dropped>>
      /\ consumed' = IF Counted(s) THEN consumed + 1 ELSE consumed
  BY DEF Deliver
<1>3. BehindInv'
  <2>1. \A q \in Subscribers : next'[q] \in Nat /\ next'[q] >= next[q]
    BY <1>1, <1>2
  <2>2. \A q \in Subscribers : next[q] \in Nat /\ lost[q] \in SUBSET Nat
    BY CursorType
  <2> QED BY <1>2, <2>1, <2>2 DEF MetricsInv, BehindInv
<1>4. /\ \A q \in Subscribers \ {s} : Given'[q] = Given[q]
      /\ Given'[s] = Given[s] + 1
  <2>1. Len(got'[s]) = Len(got[s]) + 1 /\ \A q \in Subscribers \ {s} : got'[q] = got[q]
    BY <1>1, <1>2
  <2> QED BY <2>1 DEF Given
<1>5. \A q \in Subscribers : Given[q] \in Int /\ Given'[q] \in Int
  <2>1. \A q \in Subscribers : Len(got[q]) \in Nat /\ Len(got'[q]) \in Nat
    BY <1>1
  <2> QED BY <2>1 DEF Given
<1>6. IsFiniteSet(All) /\ All \subseteq Subscribers /\ All' = All
  BY FS_Subset DEF All, Counted
<1>7. PICK f, g : f = Given /\ g = Given'
  OBVIOUS
<1>8. SumOver(g, All) = IF s \in All THEN SumOver(f, All) + 1 ELSE SumOver(f, All)
  <2>1. CASE s \in All
    <3>1. SumOver(g, All) = SumOver(f, All) + (g[s] - f[s])
      <4>1. \A q \in All : f[q] \in Int /\ g[q] \in Int
        BY <1>5, <1>6, <1>7
      <4>2. \A q \in All \ {s} : g[q] = f[q]
        BY <1>4, <1>6, <1>7
      <4> QED BY <1>6, <2>1, <4>1, <4>2, SumChange
    <3>2. g[s] - f[s] = 1
      BY <1>4, <1>5, <1>7
    <3> QED BY <2>1, <3>1, <3>2
  <2>2. CASE s \notin All
    <3>1. \A q \in All : g[q] = f[q]
      BY <1>4, <1>6, <1>7, <2>2
    <3> QED BY <1>6, <2>2, <3>1, SumSame
  <2> QED BY <2>1, <2>2
<1>9. Skipped' = Skipped
  BY <1>2 DEF Skipped
<1>10. s \in All <=> Counted(s)
  BY DEF All
<1> QED BY <1>2, <1>3, <1>6, <1>7, <1>8, <1>9, <1>10 DEF MetricsInv

(* A subscriber lags: what it skips it had not passed before, so that the  *)
(* metric grows with what it has lost.                                     *)
LEMMA SkippedCounts ==
  ASSUME BusInv, MetricsInv, IsFiniteSet(Subscribers), NEW s \in Subscribers, Lag(s)
  PROVE  MetricsInv'
<1>1. /\ lost \in [Subscribers -> SUBSET Nat] /\ next \in [Subscribers -> Nat]
      /\ next[s] \in Nat /\ next[s] >= 1 /\ Oldest \in Int
  BY CursorType DEF BusInv, BusType
<1>2. /\ next[s] < Oldest /\ lost' = [lost EXCEPT ![s] = @ \cup next[s] .. Oldest - 1]
      /\ next' = [next EXCEPT ![s] = Oldest] /\ UNCHANGED <<got, consumed>>
      /\ dropped' = Dropped(s)
  BY DEF Lag
<1>3. /\ lost'[s] = lost[s] \cup next[s] .. Oldest - 1 /\ next'[s] = Oldest
      /\ \A q \in Subscribers \ {s} : lost'[q] = lost[q] /\ next'[q] = next[q]
  BY <1>1, <1>2
<1>4. BehindInv'
  <2>1. \A k \in lost'[s] : k >= 1 /\ k < next'[s]
    <3>1. \A k \in lost[s] : k \in Nat /\ k >= 1 /\ k < next[s]
      BY CursorType DEF MetricsInv, BehindInv
    <3>2. \A k \in next[s] .. Oldest - 1 : k >= 1 /\ k < Oldest
      BY <1>1
    <3> QED BY <1>1, <1>2, <1>3, <3>1, <3>2
  <2>2. ASSUME NEW q \in Subscribers \ {s} PROVE \A k \in lost'[q] : k >= 1 /\ k < next'[q]
    BY <1>3 DEF MetricsInv, BehindInv
  <2> QED BY <2>1, <2>2 DEF BehindInv
<1>5. Cardinality(lost'[s]) = Cardinality(lost[s]) + (Oldest - next[s])
  <2> DEFINE gap == next[s] .. Oldest - 1
  <2>1. IsFiniteSet(gap) /\ Cardinality(gap) = Oldest - next[s]
    BY <1>1, <1>2, FS_Interval
  <2>2. lost[s] \cap gap = {}
    <3>1. \A k \in lost[s] : k \in Nat /\ k < next[s]
      BY CursorType DEF MetricsInv, BehindInv
    <3>2. \A k \in gap : ~(k < next[s])
      BY <1>1
    <3> QED BY <3>1, <3>2
  <2>3. IsFiniteSet(lost[s]) /\ Cardinality(lost[s]) \in Nat
    BY LostIsFinite DEF MetricsInv
  <2> HIDE DEF gap
  <2>4. Cardinality(lost[s] \cup gap) =
          Cardinality(lost[s]) + Cardinality(gap) - Cardinality(lost[s] \cap gap)
    BY <2>1, <2>3, FS_Union
  <2>5. Cardinality(lost[s] \cup gap) = Cardinality(lost[s]) + (Oldest - next[s])
    BY <1>1, <2>1, <2>2, <2>3, <2>4, FS_EmptySet
  <2> QED BY <1>3, <2>5 DEF gap
<1>6. /\ \A q \in Subscribers \ {s} : Skipped'[q] = Skipped[q]
      /\ Skipped'[s] = Skipped[s] + (Oldest - next[s])
  BY <1>3, <1>5 DEF Skipped
<1>7. \A q \in Subscribers : Skipped[q] \in Int /\ Skipped'[q] \in Int
  <2>1. \A q \in Subscribers : Skipped[q] \in Nat
    BY Summands DEF MetricsInv
  <2> QED BY <1>1, <1>6, <2>1
<1>8. IsFiniteSet(All) /\ All \subseteq Subscribers /\ All' = All
  BY FS_Subset DEF All, Counted
<1>9. PICK f, g : f = Skipped /\ g = Skipped'
  OBVIOUS
<1>10. SumOver(g, All) = IF s \in All THEN SumOver(f, All) + (Oldest - next[s]) ELSE SumOver(f, All)
  <2>1. CASE s \in All
    <3>1. SumOver(g, All) = SumOver(f, All) + (g[s] - f[s])
      <4>1. \A q \in All : f[q] \in Int /\ g[q] \in Int
        BY <1>7, <1>8, <1>9
      <4>2. \A q \in All \ {s} : g[q] = f[q]
        BY <1>6, <1>8, <1>9
      <4> QED BY <1>8, <2>1, <4>1, <4>2, SumChange
    <3>2. g[s] - f[s] = Oldest - next[s]
      BY <1>1, <1>6, <1>7, <1>9
    <3> QED BY <2>1, <3>1, <3>2
  <2>2. CASE s \notin All
    <3>1. \A q \in All : g[q] = f[q]
      BY <1>6, <1>8, <1>9, <2>2
    <3> QED BY <1>8, <2>2, <3>1, SumSame
  <2> QED BY <2>1, <2>2
<1>11. Given' = Given
  BY <1>2 DEF Given
<1>12. s \in All <=> Counted(s)
  BY DEF All
<1> QED BY <1>2, <1>4, <1>8, <1>9, <1>10, <1>11, <1>12 DEF MetricsInv, Dropped

LEMMA MetricsStep ==
  ASSUME BusInv, MetricsInv, IsFiniteSet(Subscribers), [Next]_vars
  PROVE  MetricsInv'
<1>1. ASSUME UNCHANGED <<got, lost, consumed, dropped>>,
             \A s \in Subscribers : next'[s] \in Nat /\ next'[s] >= next[s]
      PROVE  MetricsInv'
  <2>1. BehindInv'
    <3>1. \A s \in Subscribers : next[s] \in Nat /\ lost[s] \in SUBSET Nat
      BY CursorType
    <3> QED BY <1>1, <3>1 DEF MetricsInv, BehindInv
  <2>2. Given' = Given /\ Skipped' = Skipped /\ All' = All
    BY <1>1 DEF Given, Skipped, All, Counted
  <2> QED BY <1>1, <2>1, <2>2 DEF MetricsInv
<1>2. next \in [Subscribers -> Nat]
  BY DEF BusInv, BusType
<1>3. CASE UNCHANGED <<got, lost, next, consumed, dropped>>
  BY <1>1, <1>2, <1>3
<1>4. ASSUME NEW s \in Subscribers, Subscribe(s) PROVE MetricsInv'
  <2>1. /\ next' = [next EXCEPT ![s] = Len(log) + 1] /\ at[s] = "new"
        /\ UNCHANGED <<got, lost, consumed, dropped>>
    BY <1>4 DEF Subscribe
  <2>2. next[s] <= Len(log) + 1 /\ Len(log) \in Nat
    BY DEF BusInv, BusType
  <2>3. \A q \in Subscribers : next'[q] \in Nat /\ next'[q] >= next[q]
    BY <1>2, <2>1, <2>2
  <2> QED BY <1>1, <2>1, <2>3
<1>5. ASSUME NEW s \in Subscribers, FilterOut(s) PROVE MetricsInv'
  <2>1. next' = [next EXCEPT ![s] = @ + 1] /\ UNCHANGED <<got, lost, consumed, dropped>>
    BY <1>5 DEF FilterOut, metrics
  <2>2. \A q \in Subscribers : next'[q] \in Nat /\ next'[q] >= next[q]
    BY <1>2, <2>1
  <2> QED BY <1>1, <2>1, <2>2
<1>6. ASSUME NEW p \in Publishers, Publish(p) \/ DropBus(p) PROVE MetricsInv'
  BY <1>3, <1>6 DEF Publish, DropBus, cursors, metrics
<1>7. ASSUME NEW s \in Subscribers, Unsubscribe(s) \/ Recv(s) \/ Nothing(s) \/ Closed(s)
      PROVE  MetricsInv'
  BY <1>3, <1>7 DEF Unsubscribe, Recv, Nothing, Closed, cursors, metrics
<1>8. CASE UNCHANGED vars
  BY <1>3, <1>8 DEF vars, cursors, metrics
<1> QED BY <1>4, <1>5, <1>6, <1>7, <1>8, GivenCounts, SkippedCounts DEF Next, Receiving

(* The sums of the property are those of the invariant.                    *)
LEMMA GivenSum ==
  ASSUME IsFiniteSet(All)
  PROVE  MapThenSumSet(LAMBDA s : Len(got[s]), All) = SumOver(Given, All)
<1> DEFINE Adds(g) ==
             g = [t \in SUBSET All |->
                    IF t = {} THEN 0 ELSE Len(got[First(t)]) + g[t \ {First(t)}]]
           h == CHOOSE g : Adds(g)
<1>1. MapThenSumSet(LAMBDA s : Len(got[s]), All) = h[All]
  BY Zenon DEF MapThenSumSet, MapThenFoldSet, First
<1>2. ASSUME NEW t \in SUBSET All, t # {} PROVE Given[First(t)] = Len(got[First(t)])
  BY <1>2, FirstIsIn DEF All, Given
<1>3. ASSUME NEW g PROVE Adds(g) <=> Sums(Given, All, g)
  BY <1>2 DEF Sums
<1> HIDE DEF Adds
<1>4. Adds(h)
  BY <1>3, SumsExist
<1>5. Sums(Given, All, h)
  BY <1>3, <1>4
<1> HIDE DEF h
<1>6. PICK g : g = (CHOOSE k : Sums(Given, All, k)) /\ Sums(Given, All, g)
  BY SumsExist
<1>7. h[All] = g[All]
  BY <1>5, <1>6, SumsAgree
<1> QED BY <1>1, <1>6, <1>7, SumIsChosen

LEMMA SkippedSum ==
  ASSUME IsFiniteSet(All)
  PROVE  MapThenSumSet(LAMBDA s : Cardinality(lost[s]), All) = SumOver(Skipped, All)
<1> DEFINE Adds(g) ==
             g = [t \in SUBSET All |->
                    IF t = {} THEN 0 ELSE Cardinality(lost[First(t)]) + g[t \ {First(t)}]]
           h == CHOOSE g : Adds(g)
<1>1. MapThenSumSet(LAMBDA s : Cardinality(lost[s]), All) = h[All]
  BY Zenon DEF MapThenSumSet, MapThenFoldSet, First
<1>2. ASSUME NEW t \in SUBSET All, t # {} PROVE Skipped[First(t)] = Cardinality(lost[First(t)])
  BY <1>2, FirstIsIn DEF All, Skipped
<1>3. ASSUME NEW g PROVE Adds(g) <=> Sums(Skipped, All, g)
  BY <1>2 DEF Sums
<1> HIDE DEF Adds
<1>4. Adds(h)
  BY <1>3, SumsExist
<1>5. Sums(Skipped, All, h)
  BY <1>3, <1>4
<1> HIDE DEF h
<1>6. PICK g : g = (CHOOSE k : Sums(Skipped, All, k)) /\ Sums(Skipped, All, g)
  BY SumsExist
<1>7. h[All] = g[All]
  BY <1>5, <1>6, SumsAgree
<1> QED BY <1>1, <1>6, <1>7, SumIsChosen

(* Of finitely many subscribers: every event that one has passed it was    *)
(* given, did not want or has lost, and the metrics add up exactly what    *)
(* all the counted ones, dropped ones too, were given and have lost.       *)
THEOREM EventsAreAccountedFor ==
  ASSUME IsFiniteSet(Subscribers)
  PROVE  Spec => []EveryEventAccountedFor
<1>1. Init => MetricsInv
  BY MetricsInit
<1>2. BusInv /\ MetricsInv /\ [Next]_vars => MetricsInv'
  BY MetricsStep
<1>3. BusInv /\ MetricsInv => EveryEventAccountedFor
  <2>1. IsFiniteSet(All)
    BY FS_Subset DEF All
  <2>2. All = {s \in Subscribers : Counted(s)}
    BY DEF All
  <2> QED BY <2>1, <2>2, GivenSum, SkippedSum DEF BusInv, MetricsInv, EveryEventAccountedFor
<1> QED BY <1>1, <1>2, <1>3, BusInit, BusStep, PTL DEF Spec
-----------------------------------------------------------------------------
(* What EventDelivery is given in the place of its constant and variables. *)
Wanted == [s \in Subscribers |-> {type \in Types : Matches(s, type)}]

LEMMA Initially == Init => Delivery!Init
<1> SUFFICES ASSUME Init PROVE Delivery!Init
  OBVIOUS
<1>1. Mark = [s \in Subscribers |-> 0]
  BY DEF Init, Mark
<1> QED BY <1>1 DEF Init, Delivery!Init, Mark

(* A step that leaves the log and the marks alone is a stutter.            *)
LEMMA Stutter ==
  ASSUME log' = log, got' = got, Mark' = Mark
  PROVE  UNCHANGED Delivery!vars
BY DEF Delivery!vars, Mark

LEMMA PublishIsPublish ==
  ASSUME BusInv, NEW p \in Publishers, Publish(p)
  PROVE  Delivery!Next \/ UNCHANGED Delivery!vars
<1>1. PICK type \in Types :
        log' = IF \E s \in Subscribers : Active(s) THEN Append(log, type) ELSE log
  BY DEF Publish
<1>2. got' = got /\ from' = from
  BY DEF Publish, cursors
<1>3. Mark' = Mark
  BY <1>2 DEF Mark
<1>4. CASE log' = log
  BY <1>2, <1>3, <1>4, Stutter
<1>5. CASE log' = Append(log, type)
  <2>1. Delivery!Publish
    BY <1>2, <1>3, <1>5 DEF Delivery!Publish, Mark
  <2> QED BY <2>1 DEF Delivery!Next
<1> QED BY <1>1, <1>4, <1>5

LEMMA SubscribeIsJoin ==
  ASSUME BusInv, NEW s \in Subscribers, Subscribe(s)
  PROVE  Delivery!Join(s)
<1>1. got' = got /\ log' = log /\ from' = [from EXCEPT ![s] = Len(log)] /\ got[s] = <<>>
  BY DEF Subscribe, BusInv, MarkInv
<1>2. Mark' = [Mark EXCEPT ![s] = Len(log)]
  BY <1>1 DEF Mark, BusInv, BusType
<1> QED BY <1>1, <1>2 DEF Delivery!Join, Mark

(* What the ring still has of what a subscriber wants, it is given first.  *)
LEMMA DeliverIsGive ==
  ASSUME BusInv, NEW s \in Subscribers, Deliver(s)
  PROVE  Delivery!Give(s)
<1>1. /\ next[s] \in Oldest .. Len(log) /\ Matches(s, log[next[s]])
      /\ got' = [got EXCEPT ![s] = Append(@, next[s])] /\ log' = log /\ from' = from
  BY DEF Deliver, InRing
<1>2. next[s] \in Mark[s] + 1 .. Len(log)
  BY <1>1, CursorType
<1>3. \A k \in 1 .. Len(log) : log[k] \in Types
  BY DEF BusInv, BusType
<1>4. log[next[s]] \in Wanted[s]
  BY <1>1, <1>3, CursorType DEF Wanted
<1>5. \A k \in Mark[s] + 1 .. next[s] - 1 : log[k] \in Wanted[s] => ~(k + Capacity > Len(log))
  <2> SUFFICES ASSUME NEW k \in Mark[s] + 1 .. next[s] - 1, log[k] \in Wanted[s]
               PROVE  ~(k + Capacity > Len(log))
    OBVIOUS
  <2>1. Matches(s, log[k])
    BY DEF Wanted
  <2>2. k + Capacity <= Len(log)
    BY <2>1 DEF BusInv, MarkInv
  <2> QED BY <2>2, CursorType
<1>6. Mark' = [Mark EXCEPT ![s] = next[s]]
  <2>1. Mark'[s] = next[s] /\ \A q \in Subscribers \ {s} : Mark'[q] = Mark[q]
    BY Delivers
  <2> QED BY <2>1 DEF Mark
<1> QED BY <1>1, <1>2, <1>4, <1>5, <1>6 DEF Delivery!Give, Delivery!Kept, Mark, Wanted

LEMMA BusDelivers == BusInv /\ [Next]_vars => [Delivery!Next]_Delivery!vars
<1> SUFFICES ASSUME BusInv, [Next]_vars PROVE Delivery!Next \/ UNCHANGED Delivery!vars
  BY DEF Delivery!vars
<1>1. ASSUME NEW p \in Publishers, Publish(p) PROVE Delivery!Next \/ UNCHANGED Delivery!vars
  BY <1>1, PublishIsPublish
<1>2. ASSUME NEW s \in Subscribers, Subscribe(s) PROVE Delivery!Next
  BY <1>2, SubscribeIsJoin DEF Delivery!Next
<1>3. ASSUME NEW s \in Subscribers, Deliver(s) PROVE Delivery!Next
  BY <1>3, DeliverIsGive DEF Delivery!Next
<1>4. ASSUME log' = log, got' = got, from' = from PROVE UNCHANGED Delivery!vars
  BY <1>4, Stutter DEF Mark
<1>5. ASSUME NEW p \in Publishers, DropBus(p) PROVE UNCHANGED Delivery!vars
  BY <1>4, <1>5 DEF DropBus, cursors
<1>6. ASSUME NEW s \in Subscribers,
             Unsubscribe(s) \/ Recv(s) \/ Lag(s) \/ FilterOut(s) \/ Closed(s) \/ Nothing(s)
      PROVE  UNCHANGED Delivery!vars
  BY <1>4, <1>6 DEF Unsubscribe, Recv, Lag, FilterOut, Closed, Nothing, cursors
<1>7. CASE UNCHANGED vars
  BY <1>4, <1>7 DEF vars, cursors
<1> QED BY <1>1, <1>2, <1>3, <1>5, <1>6, <1>7 DEF Next, Receiving

(* The bus keeps the promise of EventDelivery whatever the subscribers'    *)
(* pace: each is given what it wants in the order of publication and at    *)
(* most once, and misses an event only when as many newer ones were sent   *)
(* as the ring holds.                                                      *)
THEOREM BusImplementsDelivery == Spec => DeliverySpec
<1>1. Init => Delivery!Init
  BY Initially
<1>2. BusInv /\ [Next]_vars => [Delivery!Next]_Delivery!vars
  BY BusDelivers
<1> QED BY <1>1, <1>2, BusAlways, PTL DEF Spec, DeliverySpec, Delivery!Spec
=============================================================================
