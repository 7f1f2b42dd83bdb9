------------------------- MODULE IBExecution_proofs -------------------------
(***************************************************************************)
(* Machine-checked proofs about the gateway of Interactive Brokers, for    *)
(* any number of callers, orders, calls and failures.                      *)
(***************************************************************************)
EXTENDS IBExecution, FiniteSetTheorems, TLAPS

Ops == {"none", "place", "cancel", "modify", "query"} \cup Channels

Steps == {"done", "connect", "lock", "ask", "allocate", "map", "reverse", "track", "send", "unmap",
          "cancel", "query", "subscribe"}

CallRecord == [op : Ops, order : Orders \cup {NoOrder}, id : {0} \cup Ids, step : Steps]

Before == {"connect", "lock", "ask", "allocate"}
After == {"map", "reverse", "track", "send", "unmap"}

(* What a call has at each of its steps.                                   *)
CallOk(p) ==
  LET here == call[p] IN
    /\ here.step \in After \cup {"lock", "ask", "allocate"} => here.op = "place"
    /\ here.op = "place" => here.order \in Orders /\ here.step \in Before \cup After
    /\ here.op = "place" /\ here.step \in Before => here.id = 0
    /\ here.step \in After \cup {"cancel"} => here.id # 0
    /\ here.op \in {"cancel", "modify"} => here.id # 0

GatewayType ==
  /\ nextValidId \in Nat /\ (nextValidId = 0 \/ nextValidId >= FirstId)
  /\ orderIdMap \in [Orders -> {0} \cup Ids]
  /\ reverseMap \in [Ids -> Orders \cup {NoOrder}]
  /\ tracking \subseteq Ids /\ placed \subseteq Orders /\ repeated \subseteq Orders
  /\ market \in [Ids -> {"unknown", "working", "cancelled"}]
  /\ calls \in 0 .. MaxCalls
  /\ call \in [Callers -> CallRecord]
  /\ \A p \in Callers : CallOk(p)

(* The calls that may still take an id: with what was taken so far, there  *)
(* is one for each.                                                        *)
Waiting == {p \in Callers : call[p].op = "place" /\ call[p].id = 0}

CountInv ==
  /\ IsFiniteSet(Waiting)
  /\ (IF nextValidId = 0 THEN FirstId ELSE nextValidId) + Cardinality(Waiting) <= FirstId + calls

LEMMA IdsAreNumbers == (\A i \in Ids : i \in Nat /\ i # 0) /\ FirstId \in Nat /\ MaxCalls \in Nat
BY GatewayAssumption DEF Ids

LEMMA IdsInUse ==
  ASSUME GatewayType
  PROVE  /\ \A p \in Callers : call[p].id \in Nat
         /\ \A o \in Orders : orderIdMap[o] \in Nat
<1>1. ASSUME NEW p \in Callers PROVE call[p].id \in Nat
  <2>1. call[p] \in CallRecord
    BY DEF GatewayType
  <2>2. call[p].id \in {0} \cup Ids
    BY <2>1 DEF CallRecord
  <2> QED BY <2>2, IdsAreNumbers
<1>2. ASSUME NEW o \in Orders PROVE orderIdMap[o] \in Nat
  <2>1. orderIdMap[o] \in {0} \cup Ids
    BY DEF GatewayType
  <2> QED BY <2>1, IdsAreNumbers
<1> QED BY <1>1, <1>2

LEMMA GatewayInit == Init => GatewayType /\ CountInv
<1> SUFFICES ASSUME Init PROVE GatewayType /\ CountInv
  OBVIOUS
<1>1. call \in [Callers -> CallRecord] /\ \A p \in Callers : call[p] = Idle
  BY DEF Init, Idle, CallRecord, Ops, Steps
<1>2. \A p \in Callers : CallOk(p)
  BY <1>1 DEF Idle, CallOk, Before, After
<1>3. Waiting = {}
  BY <1>1 DEF Waiting, Idle
<1>4. IsFiniteSet(Waiting) /\ Cardinality(Waiting) = 0
  BY <1>3, FS_EmptySet
<1>5. CountInv
  BY <1>4, IdsAreNumbers DEF Init, CountInv
<1>6. /\ orderIdMap \in [Orders -> {0} \cup Ids]
      /\ reverseMap \in [Ids -> Orders \cup {NoOrder}]
      /\ market \in [Ids -> {"unknown", "working", "cancelled"}]
  BY DEF Init
<1> QED BY <1>1, <1>2, <1>5, <1>6, IdsAreNumbers DEF Init, GatewayType

(* A call that goes on changes its own record only.                        *)
LEMMA GotoRecord ==
  ASSUME GatewayType, NEW p \in Callers, NEW step \in Steps, Goto(p, step)
  PROVE  /\ call' \in [Callers -> CallRecord]
         /\ \A q \in Callers \ {p} : call'[q] = call[q]
         /\ call'[p].op = call[p].op /\ call'[p].order = call[p].order
         /\ call'[p].id = call[p].id /\ call'[p].step = step
BY DEF GatewayType, Goto, CallRecord

LEMMA ReturnRecord ==
  ASSUME GatewayType, NEW p \in Callers, Return(p)
  PROVE  /\ call' \in [Callers -> CallRecord]
         /\ \A q \in Callers \ {p} : call'[q] = call[q]
         /\ call'[p] = Idle /\ call'[p].op = "none" /\ call'[p].step = "done" /\ call'[p].id = 0
<1>1. Idle \in CallRecord
  BY DEF Idle, CallRecord, Ops, Steps
<1> QED BY <1>1 DEF GatewayType, Return, Idle

LEMMA BeginRecord ==
  ASSUME GatewayType, NEW p \in Callers, NEW op \in Ops, NEW o \in Orders \cup {NoOrder},
         NEW id \in {0} \cup Ids, Begin(p, op, o, id, "connect")
  PROVE  /\ call' \in [Callers -> CallRecord]
         /\ \A q \in Callers \ {p} : call'[q] = call[q]
         /\ call'[p].op = op /\ call'[p].order = o /\ call'[p].id = id /\ call'[p].step = "connect"
         /\ calls' = calls + 1 /\ calls' \in 0 .. MaxCalls /\ call[p].op = "none"
<1>1. [op |-> op, order |-> o, id |-> id, step |-> "connect"] \in CallRecord
  BY DEF CallRecord, Steps
<1>2. calls' = calls + 1 /\ calls' \in 0 .. MaxCalls
  BY IdsAreNumbers DEF Begin, GatewayType
<1> QED BY <1>1, <1>2 DEF GatewayType, Begin, Idle

(* How many calls wait for an id, once one of them begins or ends to wait. *)
LEMMA WaitingSame ==
  ASSUME CountInv, nextValidId \in Nat, nextValidId' = nextValidId, calls \in Nat,
         calls' \in Nat, calls <= calls',
         \A p \in Callers : (call'[p].op = "place" /\ call'[p].id = 0)
                              <=> (call[p].op = "place" /\ call[p].id = 0)
  PROVE  CountInv'
<1>1. Waiting' = Waiting
  BY DEF Waiting
<1>2. Cardinality(Waiting) \in Nat
  BY FS_CardinalityType DEF CountInv
<1>3. FirstId \in Nat
  BY IdsAreNumbers
<1> QED BY <1>1, <1>2, <1>3 DEF CountInv

LEMMA WaitingMore ==
  ASSUME CountInv, nextValidId \in Nat, nextValidId' = nextValidId, calls \in Nat,
         calls' = calls + 1,
         NEW p \in Callers, ~(call[p].op = "place" /\ call[p].id = 0),
         \A q \in Callers \ {p} : call'[q] = call[q]
  PROVE  CountInv'
<1>1. Waiting' = Waiting \/ Waiting' = Waiting \cup {p}
  BY DEF Waiting
<1>2. Cardinality(Waiting) \in Nat
  BY FS_CardinalityType DEF CountInv
<1>3. FirstId \in Nat
  BY IdsAreNumbers
<1>4. CASE Waiting' = Waiting
  BY <1>2, <1>3, <1>4 DEF CountInv
<1>5. CASE Waiting' = Waiting \cup {p}
  <2>1. p \notin Waiting
    BY DEF Waiting
  <2>2. IsFiniteSet(Waiting') /\ Cardinality(Waiting') = Cardinality(Waiting) + 1
    BY <1>5, <2>1, FS_AddElement DEF CountInv
  <2> QED BY <1>2, <1>3, <2>2 DEF CountInv
<1> QED BY <1>1, <1>4, <1>5

LEMMA WaitingLess ==
  ASSUME CountInv, nextValidId \in Nat, nextValidId' \in Nat, calls \in Nat, calls' = calls,
         NEW p \in Callers, call[p].op = "place" /\ call[p].id = 0,
         ~(call'[p].op = "place" /\ call'[p].id = 0),
         \A q \in Callers \ {p} : call'[q] = call[q],
         nextValidId' = nextValidId \/ (nextValidId # 0 /\ nextValidId' = nextValidId + 1)
  PROVE  /\ CountInv'
         /\ nextValidId # 0 => nextValidId < FirstId + calls
<1>1. Waiting' = Waiting \ {p} /\ p \in Waiting
  BY DEF Waiting
<1>2. Cardinality(Waiting) \in Nat
  BY FS_CardinalityType DEF CountInv
<1>3. FirstId \in Nat
  BY IdsAreNumbers
<1>4. IsFiniteSet(Waiting') /\ Cardinality(Waiting') = Cardinality(Waiting) - 1
  BY <1>1, FS_RemoveElement DEF CountInv
<1>5. Cardinality(Waiting') \in Nat
  BY <1>4, FS_CardinalityType
<1> QED BY <1>2, <1>3, <1>4, <1>5 DEF CountInv

(* The mutex: only who holds it asks for the first id, and only while      *)
(* there is none, and only who holds it allocates.                         *)
LockInv ==
  \A p \in Callers : call[p].step \in {"ask", "allocate"} =>
    holder = p /\ (call[p].step = "ask" <=> nextValidId = 0)

BelowInv ==
  /\ \A p \in Callers : Placing(p) => call[p].id < nextValidId
  /\ \A o \in Orders : orderIdMap[o] # 0 => orderIdMap[o] < nextValidId

OnePlacing ==
  \A p \in Callers : call[p].op = "place" /\ call[p].order \notin repeated =>
    /\ call[p].order \notin placed
    /\ \A q \in Callers : call[q].op = "place" /\ call[q].order = call[p].order => p = q

ProgressInv ==
  \A p \in Callers :
    LET here == call[p] IN
      /\ here.step \in {"reverse", "track", "send", "unmap"} /\ here.order \notin repeated =>
           orderIdMap[here.order] = here.id
      /\ here.step \in {"track", "send", "unmap"} => reverseMap[here.id] = here.order
      /\ here.step \in {"send", "unmap"} => here.id \in tracking

GatewayInv ==
  /\ GatewayType /\ CountInv /\ LockInv /\ BelowInv /\ IdsNotShared /\ OnePlacing /\ ProgressInv
  /\ PlacedIsReachable

ids == <<nextValidId, orderIdMap, reverseMap, tracking, placed, market>>

(* A step that leaves the ids alone, of a call that has none after it: it  *)
(* begins, returns, connects or waits for the mutex.                       *)
LEMMA QuietStep ==
  ASSUME GatewayInv, NEW p \in Callers, UNCHANGED ids,
         \A q \in Callers \ {p} : call'[q] = call[q],
         call' \in [Callers -> CallRecord], calls' \in 0 .. MaxCalls, CallOk(p)',
         CountInv', LockInv', call'[p].step \notin After,
         repeated \subseteq repeated', repeated' \subseteq Orders,
         call'[p].op = "place" =>
           \/ call[p].op = "place" /\ call'[p].order = call[p].order
           \/ call'[p].order \in repeated'
           \/ /\ call'[p].order \notin placed
              /\ \A q \in Callers : call[q].op = "place" => call[q].order # call'[p].order
  PROVE  GatewayInv'
<1> USE DEF GatewayInv
<1>1. GatewayType'
  BY DEF GatewayType, ids, CallOk
<1>2. ~Placing(p)'
  BY DEF Placing, CallOk
<1>3. \A q \in Callers : Placing(q)' => q # p /\ Placing(q)
  BY <1>2 DEF Placing
<1>4. BelowInv'
  BY <1>3 DEF BelowInv, ids
<1>5. IdsNotShared'
  BY <1>3 DEF IdsNotShared, ids
<1>6. OnePlacing'
  BY DEF OnePlacing, ids
<1>7. ProgressInv'
  BY DEF ProgressInv, ids, After
<1>8. PlacedIsReachable'
  BY DEF PlacedIsReachable, ids
<1> QED BY <1>1, <1>4, <1>5, <1>6, <1>7, <1>8

(* A call that begins, once it is known what it does.                      *)
LEMMA BeginStep ==
  ASSUME GatewayInv, NEW p \in Callers, UNCHANGED <<ids, holder>>,
         NEW op \in Ops, NEW o \in Orders \cup {NoOrder}, NEW id \in {0} \cup Ids,
         Begin(p, op, o, id, "connect"),
         repeated \subseteq repeated', repeated' \subseteq Orders,
         op = "place" =>
           /\ o \in Orders /\ id = 0
           /\ \/ o \in repeated'
              \/ o \notin placed /\ \A q \in Callers : call[q].op = "place" => call[q].order # o,
         op \in {"cancel", "modify"} => id # 0
  PROVE  GatewayInv'
<1>1. /\ call' \in [Callers -> CallRecord]
      /\ \A q \in Callers \ {p} : call'[q] = call[q]
      /\ call'[p].op = op /\ call'[p].order = o /\ call'[p].id = id /\ call'[p].step = "connect"
      /\ calls' = calls + 1 /\ calls' \in 0 .. MaxCalls /\ call[p].op = "none"
  BY BeginRecord DEF GatewayInv
<1>2. CallOk(p)'
  BY <1>1 DEF CallOk, Before, After
<1>3. CountInv'
  BY <1>1, WaitingMore, IdsAreNumbers DEF GatewayInv, GatewayType, ids
<1>4. LockInv'
  BY <1>1 DEF GatewayInv, LockInv, ids
<1> QED BY <1>1, <1>2, <1>3, <1>4, QuietStep DEF After, ids

LEMMA BeginsStep == ASSUME GatewayInv, NEW p \in Callers, Begins(p) PROVE GatewayInv'
<1> "place" \in Ops /\ "cancel" \in Ops /\ "modify" \in Ops /\ "query" \in Ops
    /\ Channels \subseteq Ops
  BY DEF Ops
<1>1. ASSUME NEW o \in Orders, PlaceOrder(p, o) PROVE GatewayInv'
  <2>1. /\ Begin(p, "place", o, 0, "connect") /\ UNCHANGED <<ids, holder>>
        /\ repeated' \in {repeated, repeated \cup {o}}
        /\ \/ o \in repeated'
           \/ o \notin placed /\ \A q \in Callers : call[q].op = "place" => call[q].order # o
    BY <1>1 DEF PlaceOrder, ids, maps
  <2>2. repeated \subseteq repeated' /\ repeated' \subseteq Orders
    BY <2>1 DEF GatewayInv, GatewayType
  <2> QED BY <2>1, <2>2, BeginStep
<1>2. ASSUME NEW o \in Orders, CancelOrder(p, o) PROVE GatewayInv'
  <2>1. PICK op \in {"cancel", "modify"} : Begin(p, op, o, orderIdMap[o], "connect")
    BY <1>2 DEF CancelOrder
  <2>2. /\ orderIdMap[o] # 0 /\ orderIdMap[o] \in {0} \cup Ids /\ UNCHANGED <<ids, holder, repeated>>
        /\ repeated \subseteq Orders
    BY <1>2 DEF CancelOrder, GatewayInv, GatewayType, ids, maps, ghosts
  <2> QED BY <2>1, <2>2, BeginStep
<1>3. ASSUME NEW o \in Orders, CancelUnknown(p, o) PROVE GatewayInv'
  <2>1. /\ UNCHANGED <<ids, holder, call, repeated>> /\ calls < MaxCalls /\ calls' = calls + 1
        /\ call[p] = Idle /\ repeated \subseteq Orders
    BY <1>3 DEF CancelUnknown, GatewayInv, GatewayType, ids, maps, ghosts
  <2>2. calls' \in 0 .. MaxCalls /\ calls \in Nat /\ calls' \in Nat /\ calls <= calls'
    BY <2>1, IdsAreNumbers DEF GatewayInv, GatewayType
  <2>3. nextValidId \in Nat /\ nextValidId' = nextValidId /\ CountInv
    BY <2>1 DEF GatewayInv, GatewayType, ids
  <2>4. CountInv'
    BY <2>1, <2>2, <2>3, WaitingSame
  <2>5. LockInv' /\ call' \in [Callers -> CallRecord] /\ CallOk(p)'
    BY <2>1 DEF GatewayInv, GatewayType, LockInv, CallOk, ids
  <2>6. call'[p].step \notin After /\ call'[p].op # "place"
    BY <2>1 DEF Idle, After
  <2> QED BY <2>1, <2>2, <2>4, <2>5, <2>6, QuietStep
<1>4. CASE SubscribeUpdates(p)
  <2>1. PICK ch \in Channels : Begin(p, ch, NoOrder, 0, "connect")
    BY <1>4 DEF SubscribeUpdates
  <2>2. ch \notin {"place", "cancel", "modify"} /\ UNCHANGED <<ids, holder, repeated>>
        /\ repeated \subseteq Orders
    BY <1>4 DEF SubscribeUpdates, Channels, GatewayInv, GatewayType, ids, maps, ghosts
  <2> QED BY <2>1, <2>2, BeginStep
<1>5. CASE QueryMarket(p)
  <2>1. /\ Begin(p, "query", NoOrder, 0, "connect") /\ UNCHANGED <<ids, holder, repeated>>
        /\ repeated \subseteq Orders
    BY <1>5 DEF QueryMarket, GatewayInv, GatewayType, ids, maps, ghosts
  <2> QED BY <2>1, BeginStep
<1> QED BY <1>1, <1>2, <1>3, <1>4, <1>5 DEF Begins

(* A call that does not begin to wait for an id.                           *)
LEMMA CountMoves ==
  ASSUME GatewayInv, NEW p \in Callers, \A q \in Callers \ {p} : call'[q] = call[q],
         nextValidId' = nextValidId, calls' = calls,
         call'[p].op = "place" /\ call'[p].id = 0 => call[p].op = "place" /\ call[p].id = 0
  PROVE  CountInv'
<1>1. CountInv /\ nextValidId \in Nat /\ calls \in Nat
  BY IdsAreNumbers DEF GatewayInv, GatewayType
<1>2. CASE (call'[p].op = "place" /\ call'[p].id = 0) <=> (call[p].op = "place" /\ call[p].id = 0)
  <2>1. \A q \in Callers : (call'[q].op = "place" /\ call'[q].id = 0)
                             <=> (call[q].op = "place" /\ call[q].id = 0)
    BY <1>2
  <2> QED BY <1>1, <2>1, WaitingSame
<1>3. CASE ~(call'[p].op = "place" /\ call'[p].id = 0) /\ call[p].op = "place" /\ call[p].id = 0
  BY <1>1, <1>3, WaitingLess
<1> QED BY <1>2, <1>3

(* A call that returns without a trace in the maps.                        *)
LEMMA ReturnStep ==
  ASSUME GatewayInv, NEW p \in Callers, UNCHANGED <<ids, repeated, calls>>, Return(p),
         holder' = holder \/ (call[p].step = "ask" /\ holder' = NoCaller)
  PROVE  GatewayInv'
<1>1. /\ call' \in [Callers -> CallRecord]
      /\ \A q \in Callers \ {p} : call'[q] = call[q]
      /\ call'[p].op = "none" /\ call'[p].step = "done" /\ call'[p].id = 0
  BY ReturnRecord DEF GatewayInv
<1>2. CountInv'
  BY <1>1, CountMoves DEF ids
<1>3. LockInv'
  BY <1>1, GatewayAssumption DEF GatewayInv, LockInv, ids
<1>4. CallOk(p)'
  BY <1>1 DEF CallOk, Before, After
<1>5. calls' \in 0 .. MaxCalls /\ repeated' = repeated /\ repeated \subseteq Orders
  BY DEF GatewayInv, GatewayType
<1> QED BY <1>1, <1>2, <1>3, <1>4, <1>5, QuietStep DEF After

LEMMA WaitStep ==
  ASSUME GatewayInv, NEW p \in Callers, Connected(p) \/ Lock(p)
  PROVE  GatewayInv'
<1>1. CallOk(p) /\ GatewayType
  BY DEF GatewayInv, GatewayType
<1>2. UNCHANGED <<ids, repeated, calls>> /\ repeated \subseteq Orders
  BY DEF Connected, Lock, GatewayInv, GatewayType, ids, maps, ghosts
<1>3. PICK step \in {"lock", "cancel", "query", "subscribe", "ask", "allocate"} :
        /\ Goto(p, step)
        /\ step = "lock" => call[p].op = "place" /\ call[p].step = "connect"
        /\ step \in {"ask", "allocate"} =>
             /\ Lock(p) /\ call[p].op = "place" /\ call[p].step = "lock"
             /\ step = "ask" <=> nextValidId = 0
        /\ step \notin {"ask", "allocate"} => holder' = holder
        /\ step \in {"query", "subscribe"} => call[p].op # "place"
        /\ step = "cancel" => call[p].op \in {"cancel", "modify"}
  <2>1. CASE Connected(p)
    BY <2>1 DEF Connected, AfterConnect, At
  <2>2. CASE Lock(p)
    BY <1>1, <2>2 DEF Lock, At, CallOk
  <2> QED BY <2>1, <2>2
<1>4. step \in Steps
  BY DEF Steps
<1>5. /\ call' \in [Callers -> CallRecord]
      /\ \A q \in Callers \ {p} : call'[q] = call[q]
      /\ call'[p].op = call[p].op /\ call'[p].order = call[p].order
      /\ call'[p].id = call[p].id /\ call'[p].step = step
  BY <1>1, <1>3, <1>4, GotoRecord
<1>6. CountInv'
  BY <1>2, <1>5, CountMoves DEF ids
<1>7. CallOk(p)'
  BY <1>1, <1>3, <1>5 DEF CallOk, Before, After
<1>8. LockInv'
  <2>1. CASE step \in {"ask", "allocate"}
    <3>1. holder = NoCaller /\ holder' = p
      BY <1>3, <2>1 DEF Lock
    <3> QED BY <1>2, <1>3, <1>5, <2>1, <3>1, GatewayAssumption DEF GatewayInv, LockInv, ids
  <2>2. CASE step \notin {"ask", "allocate"}
    BY <1>2, <1>3, <1>5, <2>2 DEF GatewayInv, LockInv, ids
  <2> QED BY <2>1, <2>2
<1>9. calls' \in 0 .. MaxCalls
  BY <1>1, <1>2 DEF GatewayType
<1> QED BY <1>2, <1>3, <1>5, <1>6, <1>7, <1>8, <1>9, QuietStep DEF After

(* The first id comes while nothing has an id.                             *)
LEMMA FirstIdStep ==
  ASSUME GatewayInv, NEW p \in Callers, FirstIdGiven(p)
  PROVE  GatewayInv'
<1> USE DEF GatewayInv
<1>1. /\ call[p].step = "ask" /\ Goto(p, "allocate") /\ nextValidId' = FirstId
      /\ UNCHANGED <<holder, orderIdMap, reverseMap, tracking, placed, repeated, market, calls>>
  BY DEF FirstIdGiven, At, maps, ghosts
<1>2. nextValidId = 0 /\ holder = p
  BY <1>1 DEF LockInv
<1>3. FirstId \in Nat \ {0}
  BY GatewayAssumption
<1>4. /\ call' \in [Callers -> CallRecord]
      /\ \A q \in Callers \ {p} : call'[q] = call[q]
      /\ call'[p].op = call[p].op /\ call'[p].order = call[p].order
      /\ call'[p].id = call[p].id /\ call'[p].step = "allocate"
  BY <1>1, GotoRecord DEF Steps
<1>5. \A q \in Callers : ~Placing(q) /\ ~Placing(q)'
  <2>1. \A q \in Callers : call[q].id \in Nat
    BY IdsInUse
  <2>2. \A q \in Callers : ~Placing(q)
    BY <1>2, <2>1 DEF BelowInv, Placing
  <2> QED BY <1>4, <2>2 DEF Placing
<1>6. \A o \in Orders : orderIdMap[o] = 0
  BY <1>2, IdsInUse DEF BelowInv
<1>7. CallOk(p)
  BY DEF GatewayType
<1>8. GatewayType'
  BY <1>1, <1>3, <1>4, <1>7 DEF GatewayType, CallOk, Before, After
<1>9. CountInv'
  <2>1. Waiting' = Waiting
    BY <1>4 DEF Waiting
  <2> QED BY <1>1, <1>2, <1>3, <2>1 DEF CountInv
<1>10. LockInv'
  BY <1>1, <1>2, <1>3, <1>4 DEF LockInv
<1>11. BelowInv' /\ IdsNotShared'
  BY <1>1, <1>5, <1>6 DEF BelowInv, IdsNotShared
<1>12. OnePlacing' /\ ProgressInv'
  BY <1>1, <1>4 DEF OnePlacing, ProgressInv
<1>13. PlacedIsReachable'
  BY <1>1 DEF PlacedIsReachable
<1> QED BY <1>8, <1>9, <1>10, <1>11, <1>12, <1>13

(* The id that is allocated is above all that are in use.                  *)
LEMMA AllocateStep ==
  ASSUME GatewayInv, NEW p \in Callers, Allocate(p)
  PROVE  GatewayInv'
<1> USE DEF GatewayInv
<1>1. /\ call[p].step = "allocate" /\ nextValidId' = nextValidId + 1 /\ holder' = NoCaller
      /\ UNCHANGED <<orderIdMap, reverseMap, tracking, placed, repeated, market, calls>>
  BY DEF Allocate, At, maps, ghosts
<1>2. nextValidId # 0 /\ holder = p /\ nextValidId \in Nat /\ nextValidId >= FirstId
  BY <1>1 DEF LockInv, GatewayType
<1>3. CallOk(p) /\ call[p].op = "place" /\ call[p].id = 0
  BY <1>1 DEF GatewayType, CallOk, Before
<1>4. /\ \A q \in Callers \ {p} : call'[q] = call[q]
      /\ call'[p].op = "place" /\ call'[p].order = call[p].order
      /\ call'[p].id = nextValidId /\ call'[p].step = "map"
  BY <1>3 DEF Allocate, GatewayType, CallRecord
<1>5. CountInv' /\ nextValidId < FirstId + calls
  <2>1. CountInv /\ nextValidId' \in Nat /\ calls \in Nat /\ calls' = calls
    BY <1>1, <1>2, IdsAreNumbers DEF GatewayType
  <2>2. ~(call'[p].op = "place" /\ call'[p].id = 0)
    BY <1>2, <1>4
  <2>3. /\ CountInv'
        /\ nextValidId # 0 => nextValidId < FirstId + calls
    BY <1>1, <1>2, <1>3, <1>4, <2>1, <2>2, WaitingLess
  <2> QED BY <1>2, <2>3
<1>6. nextValidId \in Ids
  BY <1>2, <1>5, IdsAreNumbers DEF Ids, GatewayType
<1>7. call' \in [Callers -> CallRecord]
  BY <1>6, ZenonT(40) DEF Allocate, GatewayType, CallRecord, Steps
<1>8. (\A q \in Callers : call[q].id \in Nat) /\ (\A o \in Orders : orderIdMap[o] \in Nat)
  BY IdsInUse
<1>9. GatewayType'
  BY <1>1, <1>2, <1>3, <1>4, <1>7, IdsAreNumbers DEF GatewayType, CallOk, Before, After
<1>10. LockInv'
  BY <1>1, <1>2, <1>4, GatewayAssumption DEF LockInv
<1>11. BelowInv'
  BY <1>1, <1>2, <1>4, <1>8 DEF BelowInv, Placing
<1>12. IdsNotShared'
  BY <1>1, <1>2, <1>4, <1>8 DEF IdsNotShared, BelowInv, Placing
<1>13. OnePlacing'
  BY <1>1, <1>3, <1>4 DEF OnePlacing
<1>14. ProgressInv'
  BY <1>1, <1>4 DEF ProgressInv
<1>15. PlacedIsReachable'
  BY <1>1 DEF PlacedIsReachable
<1> QED BY <1>5, <1>9, <1>10, <1>11, <1>12, <1>13, <1>14, <1>15

(* A step after the allocation, of a call that goes on with its id: what   *)
(* it shares with the others is told by the lemmas below.                  *)
LEMMA AfterRecord ==
  ASSUME GatewayInv, NEW p \in Callers, NEW step \in After,
         call[p].step \in After, Goto(p, step), UNCHANGED <<nextValidId, holder, calls>>
  PROVE  /\ call' \in [Callers -> CallRecord]
         /\ \A q \in Callers \ {p} : call'[q] = call[q]
         /\ call'[p].op = "place" /\ call[p].op = "place"
         /\ call'[p].order = call[p].order /\ call[p].order \in Orders
         /\ call'[p].id = call[p].id /\ call[p].id # 0 /\ call[p].id \in Ids
         /\ call'[p].step = step
         /\ \A q \in Callers : CallOk(q)'
         /\ CountInv' /\ LockInv'
<1> USE DEF GatewayInv
<1>1. step \in Steps
  BY DEF After, Steps
<1>2. /\ call' \in [Callers -> CallRecord]
      /\ \A q \in Callers \ {p} : call'[q] = call[q]
      /\ call'[p].op = call[p].op /\ call'[p].order = call[p].order
      /\ call'[p].id = call[p].id /\ call'[p].step = step
  BY <1>1, GotoRecord
<1>3. call[p] \in CallRecord /\ CallOk(p)
  BY DEF GatewayType
<1>4. call[p].op = "place" /\ call[p].order \in Orders /\ call[p].id # 0 /\ call[p].id \in Ids
  BY <1>3 DEF CallOk, CallRecord, After
<1>5. \A q \in Callers : CallOk(q)'
  BY <1>2, <1>3, <1>4 DEF GatewayType, CallOk, Before, After
<1>6. CountInv'
  BY <1>2, <1>4, CountMoves
<1>7. LockInv'
  BY <1>2 DEF LockInv, After
<1> QED BY <1>2, <1>4, <1>5, <1>6, <1>7

(* The id of a call that places is nobody else's, in either map.           *)
LEMMA OwnId ==
  ASSUME GatewayInv, NEW p \in Callers, call[p].op = "place", call[p].id # 0
  PROVE  /\ \A q \in Callers \ {p} : call[q].op = "place" /\ call[q].id # 0 => call[q].id # call[p].id
         /\ \A q \in Callers \ {p} : call[q].op = "place" /\ call[q].order \notin repeated =>
              call[q].order # call[p].order
         /\ \A o \in Orders : o # call[p].order => orderIdMap[o] # call[p].id
         /\ \A o \in placed \ repeated : o # call[p].order /\ orderIdMap[o] # call[p].id
<1>1. \A o \in Orders : o # call[p].order => orderIdMap[o] # call[p].id
  BY DEF GatewayInv, IdsNotShared, Placing
<1>2. \A o \in placed \ repeated : o # call[p].order /\ o \in Orders
  BY DEF GatewayInv, OnePlacing, GatewayType
<1> QED BY <1>1, <1>2 DEF GatewayInv, IdsNotShared, Placing, OnePlacing

LEMMA MapIdStep ==
  ASSUME GatewayInv, NEW p \in Callers, MapId(p)
  PROVE  GatewayInv'
<1> USE DEF GatewayInv
<1>1. /\ call[p].step = "map" /\ Goto(p, "reverse")
      /\ orderIdMap' = [orderIdMap EXCEPT ![call[p].order] = call[p].id]
      /\ UNCHANGED <<nextValidId, holder, reverseMap, tracking, placed, repeated, market, calls>>
  BY DEF MapId, At, ghosts
<1>2. /\ call' \in [Callers -> CallRecord]
      /\ \A q \in Callers \ {p} : call'[q] = call[q]
      /\ call'[p].op = "place" /\ call[p].op = "place"
      /\ call'[p].order = call[p].order /\ call[p].order \in Orders
      /\ call'[p].id = call[p].id /\ call[p].id # 0 /\ call[p].id \in Ids
      /\ call'[p].step = "reverse"
      /\ \A q \in Callers : CallOk(q)'
      /\ CountInv' /\ LockInv'
  BY <1>1, AfterRecord DEF After
<1>3. /\ \A q \in Callers \ {p} : call[q].op = "place" /\ call[q].id # 0 => call[q].id # call[p].id
      /\ \A q \in Callers \ {p} : call[q].op = "place" /\ call[q].order \notin repeated =>
           call[q].order # call[p].order
      /\ \A o \in Orders : o # call[p].order => orderIdMap[o] # call[p].id
      /\ \A o \in placed \ repeated : o # call[p].order /\ orderIdMap[o] # call[p].id
  BY <1>2, OwnId
<1>4. /\ orderIdMap'[call[p].order] = call[p].id
      /\ \A o \in Orders : o # call[p].order => orderIdMap'[o] = orderIdMap[o]
      /\ orderIdMap' \in [Orders -> {0} \cup Ids]
  BY <1>1, <1>2 DEF GatewayType
<1>5. GatewayType'
  BY <1>1, <1>2, <1>4 DEF GatewayType
<1>6. BelowInv'
  BY <1>1, <1>2, <1>4 DEF BelowInv, Placing
<1>7. IdsNotShared'
  BY <1>2, <1>3, <1>4 DEF IdsNotShared, Placing
<1>8. OnePlacing'
  BY <1>1, <1>2 DEF OnePlacing
<1>9. ProgressInv'
  <2> SUFFICES ASSUME NEW q \in Callers
               PROVE  /\ /\ call'[q].step \in {"reverse", "track", "send", "unmap"}
                         /\ call'[q].order \notin repeated'
                         => orderIdMap'[call'[q].order] = call'[q].id
                      /\ call'[q].step \in {"track", "send", "unmap"} =>
                           reverseMap'[call'[q].id] = call'[q].order
                      /\ call'[q].step \in {"send", "unmap"} => call'[q].id \in tracking'
    BY DEF ProgressInv
  <2>1. CASE q = p
    BY <1>2, <1>4, <2>1
  <2>2. CASE q # p
    <3>1. CallOk(q) /\ call'[q] = call[q]
      BY <1>2, <2>2 DEF GatewayType
    <3>2. call[q].step \in {"reverse", "track", "send", "unmap"} =>
            call[q].op = "place" /\ call[q].order \in Orders
      BY <3>1 DEF CallOk, After
    <3> QED BY <1>1, <1>3, <1>4, <2>2, <3>1, <3>2 DEF ProgressInv
  <2> QED BY <2>1, <2>2
<1>10. PlacedIsReachable'
  BY <1>1, <1>3, <1>4 DEF PlacedIsReachable, GatewayType
<1> QED BY <1>2, <1>5, <1>6, <1>7, <1>8, <1>9, <1>10

LEMMA MapBackStep ==
  ASSUME GatewayInv, NEW p \in Callers, MapBack(p)
  PROVE  GatewayInv'
<1> USE DEF GatewayInv
<1>1. /\ call[p].step = "reverse" /\ Goto(p, "track")
      /\ reverseMap' = [reverseMap EXCEPT ![call[p].id] = call[p].order]
      /\ UNCHANGED <<nextValidId, holder, orderIdMap, tracking, placed, repeated, market, calls>>
  BY DEF MapBack, At, ghosts
<1>2. /\ call' \in [Callers -> CallRecord]
      /\ \A q \in Callers \ {p} : call'[q] = call[q]
      /\ call'[p].op = "place" /\ call[p].op = "place"
      /\ call'[p].order = call[p].order /\ call[p].order \in Orders
      /\ call'[p].id = call[p].id /\ call[p].id # 0 /\ call[p].id \in Ids
      /\ call'[p].step = "track"
      /\ \A q \in Callers : CallOk(q)'
      /\ CountInv' /\ LockInv'
  BY <1>1, AfterRecord DEF After
<1>3. /\ \A q \in Callers \ {p} : call[q].op = "place" /\ call[q].id # 0 => call[q].id # call[p].id
      /\ \A o \in placed \ repeated : o # call[p].order /\ orderIdMap[o] # call[p].id
  BY <1>2, OwnId
<1>4. /\ reverseMap'[call[p].id] = call[p].order
      /\ \A id \in Ids : id # call[p].id => reverseMap'[id] = reverseMap[id]
      /\ reverseMap' \in [Ids -> Orders \cup {NoOrder}]
  BY <1>1, <1>2 DEF GatewayType
<1>5. GatewayType'
  BY <1>1, <1>2, <1>4 DEF GatewayType
<1>6. BelowInv' /\ IdsNotShared' /\ OnePlacing'
  BY <1>1, <1>2 DEF BelowInv, IdsNotShared, OnePlacing, Placing
<1>7. ProgressInv'
  <2> SUFFICES ASSUME NEW q \in Callers
               PROVE  /\ /\ call'[q].step \in {"reverse", "track", "send", "unmap"}
                         /\ call'[q].order \notin repeated'
                         => orderIdMap'[call'[q].order] = call'[q].id
                      /\ call'[q].step \in {"track", "send", "unmap"} =>
                           reverseMap'[call'[q].id] = call'[q].order
                      /\ call'[q].step \in {"send", "unmap"} => call'[q].id \in tracking'
    BY DEF ProgressInv
  <2>1. CASE q = p
    BY <1>1, <1>2, <1>4, <2>1 DEF ProgressInv
  <2>2. CASE q # p
    <3>1. CallOk(q) /\ call'[q] = call[q] /\ call[q] \in CallRecord
      BY <1>2, <2>2 DEF GatewayType
    <3>2. call[q].step \in {"reverse", "track", "send", "unmap"} =>
            call[q].op = "place" /\ call[q].id # 0 /\ call[q].id \in Ids
      BY <3>1 DEF CallOk, After, CallRecord
    <3> QED BY <1>1, <1>3, <1>4, <2>2, <3>1, <3>2 DEF ProgressInv
  <2> QED BY <2>1, <2>2
<1>8. \A o \in placed : orderIdMap[o] \in {0} \cup Ids
  BY DEF GatewayType
<1>9. PlacedIsReachable'
  BY <1>1, <1>3, <1>4, <1>8 DEF PlacedIsReachable
<1> QED BY <1>2, <1>5, <1>6, <1>7, <1>9

LEMMA TrackStep ==
  ASSUME GatewayInv, NEW p \in Callers, Track(p)
  PROVE  GatewayInv'
<1> USE DEF GatewayInv
<1>1. /\ call[p].step = "track" /\ Goto(p, "send")
      /\ tracking' = tracking \cup {call[p].id}
      /\ UNCHANGED <<nextValidId, holder, orderIdMap, reverseMap, placed, repeated, market, calls>>
  BY DEF Track, At, ghosts
<1>2. /\ call' \in [Callers -> CallRecord]
      /\ \A q \in Callers \ {p} : call'[q] = call[q]
      /\ call'[p].op = "place" /\ call[p].op = "place"
      /\ call'[p].order = call[p].order
      /\ call'[p].id = call[p].id /\ call[p].id \in Ids
      /\ call'[p].step = "send"
      /\ \A q \in Callers : CallOk(q)'
      /\ CountInv' /\ LockInv'
  BY <1>1, AfterRecord DEF After
<1>3. GatewayType'
  BY <1>1, <1>2 DEF GatewayType
<1>4. BelowInv' /\ IdsNotShared' /\ OnePlacing'
  BY <1>1, <1>2 DEF BelowInv, IdsNotShared, OnePlacing, Placing
<1>5. ProgressInv'
  BY <1>1, <1>2 DEF ProgressInv
<1>6. PlacedIsReachable'
  BY <1>1 DEF PlacedIsReachable
<1> QED BY <1>2, <1>3, <1>4, <1>5, <1>6

(* A call that returns: the parts of the invariant that speak of it end.   *)
LEMMA EndRecord ==
  ASSUME GatewayInv, NEW p \in Callers, Return(p), UNCHANGED <<nextValidId, holder, calls>>,
         call[p].step # "ask"
  PROVE  /\ call' \in [Callers -> CallRecord]
         /\ \A q \in Callers \ {p} : call'[q] = call[q]
         /\ call'[p].op = "none" /\ call'[p].step = "done"
         /\ \A q \in Callers : CallOk(q)'
         /\ CountInv' /\ LockInv'
<1>1. /\ call' \in [Callers -> CallRecord]
      /\ \A q \in Callers \ {p} : call'[q] = call[q]
      /\ call'[p].op = "none" /\ call'[p].step = "done" /\ call'[p].id = 0
  BY ReturnRecord DEF GatewayInv
<1>2. \A q \in Callers : CallOk(q)'
  BY <1>1 DEF GatewayInv, GatewayType, CallOk, Before, After
<1>3. CountInv'
  BY <1>1, CountMoves
<1>4. LockInv'
  BY <1>1 DEF GatewayInv, LockInv
<1> QED BY <1>1, <1>2, <1>3, <1>4

LEMMA SentStep ==
  ASSUME GatewayInv, NEW p \in Callers, Sent(p)
  PROVE  GatewayInv'
<1> USE DEF GatewayInv
<1>1. /\ call[p].step = "send" /\ Return(p)
      /\ market' = [market EXCEPT ![call[p].id] = "working"]
      /\ placed' = placed \cup {call[p].order}
      /\ UNCHANGED <<nextValidId, holder, orderIdMap, reverseMap, tracking, repeated, calls>>
  BY DEF Sent, At, maps
<1>2. /\ call' \in [Callers -> CallRecord]
      /\ \A q \in Callers \ {p} : call'[q] = call[q]
      /\ call'[p].op = "none" /\ call'[p].step = "done"
      /\ \A q \in Callers : CallOk(q)'
      /\ CountInv' /\ LockInv'
  BY <1>1, EndRecord
<1>3. call[p] \in CallRecord /\ CallOk(p)
  BY DEF GatewayType
<1>4. call[p].op = "place" /\ call[p].order \in Orders /\ call[p].id # 0 /\ call[p].id \in Ids
  BY <1>1, <1>3 DEF CallOk, CallRecord, After
<1>5. /\ \A q \in Callers \ {p} : call[q].op = "place" /\ call[q].order \notin repeated =>
           call[q].order # call[p].order
      /\ \A o \in placed \ repeated : o # call[p].order /\ orderIdMap[o] # call[p].id
  BY <1>4, OwnId
<1>6. /\ market' \in [Ids -> {"unknown", "working", "cancelled"}]
      /\ market'[call[p].id] = "working"
      /\ \A id \in Ids : id # call[p].id => market'[id] = market[id]
  BY <1>1, <1>4 DEF GatewayType
<1>7. GatewayType'
  BY <1>1, <1>2, <1>4, <1>6 DEF GatewayType
<1>8. BelowInv' /\ IdsNotShared'
  BY <1>1, <1>2 DEF BelowInv, IdsNotShared, Placing
<1>9. OnePlacing'
  BY <1>1, <1>2, <1>5 DEF OnePlacing
<1>10. ProgressInv'
  BY <1>1, <1>2 DEF ProgressInv
<1>11. PlacedIsReachable'
  <2> SUFFICES ASSUME NEW o \in placed' \ repeated'
               PROVE  /\ orderIdMap[o] # 0 /\ reverseMap[orderIdMap[o]] = o
                      /\ market'[orderIdMap[o]] # "unknown" /\ orderIdMap[o] \in tracking
    BY <1>1 DEF PlacedIsReachable
  <2>1. CASE o = call[p].order
    BY <1>1, <1>4, <1>6, <2>1 DEF ProgressInv
  <2>2. CASE o \in placed \ repeated
    <3>1. orderIdMap[o] \in Ids /\ orderIdMap[o] # call[p].id
      BY <1>5, <2>2 DEF GatewayType, PlacedIsReachable
    <3> QED BY <1>6, <2>2, <3>1 DEF PlacedIsReachable
  <2> QED BY <1>1, <2>1, <2>2
<1> QED BY <1>2, <1>7, <1>8, <1>9, <1>10, <1>11

LEMMA SendFailsStep ==
  ASSUME GatewayInv, NEW p \in Callers, SendFails(p)
  PROVE  GatewayInv'
<1> USE DEF GatewayInv
<1>1. /\ call[p].step = "send" /\ Goto(p, "unmap")
      /\ UNCHANGED <<nextValidId, holder, orderIdMap, reverseMap, tracking, placed, repeated, calls>>
  BY DEF SendFails, At, maps, ghosts
<1>2. PICK fate \in {"unknown", "working"} : market' = [market EXCEPT ![call[p].id] = fate]
  BY DEF SendFails
<1>3. /\ call' \in [Callers -> CallRecord]
      /\ \A q \in Callers \ {p} : call'[q] = call[q]
      /\ call'[p].op = "place" /\ call[p].op = "place"
      /\ call'[p].order = call[p].order
      /\ call'[p].id = call[p].id /\ call[p].id \in Ids /\ call[p].id # 0
      /\ call'[p].step = "unmap"
      /\ \A q \in Callers : CallOk(q)'
      /\ CountInv' /\ LockInv'
  BY <1>1, AfterRecord DEF After
<1>4. \A o \in placed \ repeated : orderIdMap[o] # call[p].id
  BY <1>3, OwnId
<1>5. /\ market' \in [Ids -> {"unknown", "working", "cancelled"}]
      /\ \A id \in Ids : id # call[p].id => market'[id] = market[id]
  BY <1>2, <1>3 DEF GatewayType
<1>6. GatewayType'
  BY <1>1, <1>3, <1>5 DEF GatewayType
<1>7. BelowInv' /\ IdsNotShared' /\ OnePlacing'
  BY <1>1, <1>3 DEF BelowInv, IdsNotShared, OnePlacing, Placing
<1>8. ProgressInv'
  BY <1>1, <1>3 DEF ProgressInv
<1>9. \A o \in placed : orderIdMap[o] \in {0} \cup Ids
  BY DEF GatewayType
<1>10. PlacedIsReachable'
  BY <1>1, <1>4, <1>5, <1>9 DEF PlacedIsReachable
<1> QED BY <1>3, <1>6, <1>7, <1>8, <1>10

LEMMA UnmapStep ==
  ASSUME GatewayInv, NEW p \in Callers, Unmap(p)
  PROVE  GatewayInv'
<1> USE DEF GatewayInv
<1>1. /\ call[p].step = "unmap" /\ Return(p)
      /\ orderIdMap' = [orderIdMap EXCEPT ![call[p].order] = 0]
      /\ reverseMap' = [reverseMap EXCEPT ![call[p].id] = NoOrder]
      /\ UNCHANGED <<nextValidId, holder, tracking, placed, repeated, market, calls>>
  BY DEF Unmap, At, ghosts
<1>2. /\ call' \in [Callers -> CallRecord]
      /\ \A q \in Callers \ {p} : call'[q] = call[q]
      /\ call'[p].op = "none" /\ call'[p].step = "done"
      /\ \A q \in Callers : CallOk(q)'
      /\ CountInv' /\ LockInv'
  BY <1>1, EndRecord
<1>3. call[p] \in CallRecord /\ CallOk(p)
  BY DEF GatewayType
<1>4. call[p].op = "place" /\ call[p].order \in Orders /\ call[p].id # 0 /\ call[p].id \in Ids
  BY <1>1, <1>3 DEF CallOk, CallRecord, After
<1>5. /\ \A q \in Callers \ {p} : call[q].op = "place" /\ call[q].id # 0 => call[q].id # call[p].id
      /\ \A q \in Callers \ {p} : call[q].op = "place" /\ call[q].order \notin repeated =>
           call[q].order # call[p].order
      /\ \A o \in placed \ repeated : o # call[p].order /\ orderIdMap[o] # call[p].id
  BY <1>4, OwnId
<1>6. /\ orderIdMap' \in [Orders -> {0} \cup Ids]
      /\ \A o \in Orders : o # call[p].order => orderIdMap'[o] = orderIdMap[o]
      /\ orderIdMap'[call[p].order] = 0
  BY <1>1, <1>4 DEF GatewayType
<1>7. /\ reverseMap' \in [Ids -> Orders \cup {NoOrder}]
      /\ \A id \in Ids : id # call[p].id => reverseMap'[id] = reverseMap[id]
  BY <1>1, <1>4 DEF GatewayType
<1>8. GatewayType'
  BY <1>1, <1>2, <1>6, <1>7 DEF GatewayType
<1>9. BelowInv'
  BY <1>1, <1>2, <1>4, <1>6 DEF BelowInv, Placing
<1>10. IdsNotShared'
  BY <1>2, <1>4, <1>6 DEF IdsNotShared, Placing
<1>11. OnePlacing'
  BY <1>1, <1>2 DEF OnePlacing
<1>12. ProgressInv'
  <2> SUFFICES ASSUME NEW q \in Callers, call'[q].step \in {"reverse", "track", "send", "unmap"}
               PROVE  /\ call'[q].order \notin repeated' => orderIdMap'[call'[q].order] = call'[q].id
                      /\ call'[q].step \in {"track", "send", "unmap"} =>
                           reverseMap'[call'[q].id] = call'[q].order
                      /\ call'[q].step \in {"send", "unmap"} => call'[q].id \in tracking'
    BY DEF ProgressInv
  <2>1. q # p /\ call'[q] = call[q] /\ CallOk(q) /\ call[q] \in CallRecord
    BY <1>2 DEF GatewayType
  <2>2. /\ call[q].op = "place" /\ call[q].id # 0 /\ call[q].id \in Ids
        /\ call[q].order \in Orders
    BY <2>1 DEF CallOk, After, CallRecord
  <2> QED BY <1>1, <1>5, <1>6, <1>7, <2>1, <2>2 DEF ProgressInv
<1>13. \A o \in placed : o \in Orders /\ orderIdMap[o] \in {0} \cup Ids
  BY DEF GatewayType
<1>14. PlacedIsReachable'
  BY <1>1, <1>5, <1>6, <1>7, <1>13 DEF PlacedIsReachable
<1> QED BY <1>2, <1>8, <1>9, <1>10, <1>11, <1>12, <1>14

LEMMA CancelledStep ==
  ASSUME GatewayInv, NEW p \in Callers, Cancelled(p)
  PROVE  GatewayInv'
<1> USE DEF GatewayInv
<1>1. /\ call[p].step = "cancel" /\ Return(p)
      /\ market' = [market EXCEPT ![call[p].id] = "cancelled"]
      /\ UNCHANGED <<nextValidId, holder, orderIdMap, reverseMap, tracking, placed, repeated, calls>>
  BY DEF Cancelled, At, maps, ghosts
<1>2. /\ call' \in [Callers -> CallRecord]
      /\ \A q \in Callers \ {p} : call'[q] = call[q]
      /\ call'[p].op = "none" /\ call'[p].step = "done"
      /\ \A q \in Callers : CallOk(q)'
      /\ CountInv' /\ LockInv'
  BY <1>1, EndRecord
<1>3. /\ market' \in [Ids -> {"unknown", "working", "cancelled"}]
      /\ \A id \in Ids : market[id] # "unknown" => market'[id] # "unknown"
  BY <1>1 DEF GatewayType
<1>4. GatewayType'
  BY <1>1, <1>2, <1>3 DEF GatewayType
<1>5. BelowInv' /\ IdsNotShared' /\ OnePlacing' /\ ProgressInv'
  BY <1>1, <1>2 DEF BelowInv, IdsNotShared, OnePlacing, Placing, ProgressInv
<1>6. \A o \in placed : orderIdMap[o] \in {0} \cup Ids
  BY DEF GatewayType
<1>7. PlacedIsReachable'
  BY <1>1, <1>3, <1>6 DEF PlacedIsReachable
<1> QED BY <1>2, <1>4, <1>5, <1>7

LEMMA GatewayStep == GatewayInv /\ [Next]_vars => GatewayInv'
<1> SUFFICES ASSUME GatewayInv, [Next]_vars PROVE GatewayInv'
  OBVIOUS
<1>1. ASSUME NEW p \in Callers, NeedsClient(p) \/ Works(p) PROVE GatewayInv'
  <2>1. CASE \/ ConnectFails(p) \/ NoFirstId(p) \/ ConvertFails(p)
             \/ CancelFails(p) \/ Subscribed(p) \/ Answered(p)
    <3>1. /\ UNCHANGED <<ids, repeated, calls>> /\ Return(p)
          /\ holder' = holder \/ (call[p].step = "ask" /\ holder' = NoCaller)
      BY <2>1 DEF ConnectFails, NoFirstId, ConvertFails, CancelFails, Subscribed, Answered, At,
         ids, maps, ghosts
    <3> QED BY <3>1, ReturnStep
  <2>2. CASE Connected(p)
    BY <2>2, WaitStep
  <2>3. CASE FirstIdGiven(p)
    BY <2>3, FirstIdStep
  <2>4. CASE Allocate(p)
    BY <2>4, AllocateStep
  <2>5. CASE MapId(p)
    BY <2>5, MapIdStep
  <2>6. CASE MapBack(p)
    BY <2>6, MapBackStep
  <2>7. CASE Track(p)
    BY <2>7, TrackStep
  <2>8. CASE Sent(p)
    BY <2>8, SentStep
  <2>9. CASE SendFails(p)
    BY <2>9, SendFailsStep
  <2>10. CASE Unmap(p)
    BY <2>10, UnmapStep
  <2>11. CASE Cancelled(p)
    BY <2>11, CancelledStep
  <2> QED BY <1>1, <2>1, <2>2, <2>3, <2>4, <2>5, <2>6, <2>7, <2>8, <2>9, <2>10, <2>11
     DEF NeedsClient, Works
<1>2. ASSUME NEW p \in Callers, Lock(p) PROVE GatewayInv'
  BY <1>2, WaitStep
<1>3. ASSUME NEW p \in Callers, Begins(p) PROVE GatewayInv'
  BY <1>3, BeginsStep
<1>4. CASE ProcessorEnds \/ UNCHANGED vars
  <2>1. UNCHANGED <<ids, repeated, holder, call, calls>>
    BY <1>4 DEF ProcessorEnds, vars, maps, streams, ghosts, ids
  <2>2. Waiting' = Waiting
    BY <2>1 DEF Waiting
  <2>3. CountInv'
    BY <2>1, <2>2 DEF GatewayInv, CountInv, ids
  <2>4. GatewayType' /\ LockInv'
    BY <2>1 DEF GatewayInv, GatewayType, LockInv, CallOk, ids
  <2>5. BelowInv' /\ IdsNotShared' /\ OnePlacing' /\ ProgressInv' /\ PlacedIsReachable'
    BY <2>1 DEF GatewayInv, BelowInv, IdsNotShared, OnePlacing, ProgressInv, PlacedIsReachable,
       Placing, ids
  <2> QED BY <2>3, <2>4, <2>5 DEF GatewayInv
<1> QED BY <1>1, <1>2, <1>3, <1>4 DEF Next

LEMMA GatewayAlways == Spec => []GatewayInv
<1>1. Init => GatewayInv
  <2> SUFFICES ASSUME Init PROVE GatewayInv
    OBVIOUS
  <2>1. GatewayType /\ CountInv
    BY GatewayInit
  <2>2. \A p \in Callers : call[p] = Idle
    BY DEF Init
  <2>3. LockInv /\ OnePlacing /\ ProgressInv /\ \A p \in Callers : ~Placing(p)
    BY <2>2 DEF Idle, LockInv, OnePlacing, ProgressInv, Placing
  <2>4. BelowInv /\ IdsNotShared /\ PlacedIsReachable
    BY <2>3 DEF Init, BelowInv, IdsNotShared, PlacedIsReachable
  <2> QED BY <2>1, <2>3, <2>4 DEF GatewayInv
<1> QED BY <1>1, GatewayStep, PTL DEF Spec

(* allocate_order_id() gives every placement an id of its own: no two      *)
(* calls of place_order() use one, and no order is mapped to the id of     *)
(* another, whatever fails and whoever waits for the mutex.                *)
THEOREM EveryIdHasOneOwner == Spec => []IdsNotShared
<1>1. GatewayInv => IdsNotShared
  BY DEF GatewayInv
<1> QED BY <1>1, GatewayAlways, PTL

(* An order whose place_order() returned Ok stays reachable until it is    *)
(* placed again: both maps lead from it to the id that works, and it is    *)
(* tracked, whatever other placements clean up.                            *)
THEOREM PlacedStaysReachable == Spec => []PlacedIsReachable
<1>1. GatewayInv => PlacedIsReachable
  BY DEF GatewayInv
<1> QED BY <1>1, GatewayAlways, PTL

(* Nobody else asks for the first id or allocates meanwhile.               *)
OneAllocates ==
  \A p, q \in Callers :
    {call[p].step, call[q].step} \subseteq {"ask", "allocate"} => p = q

(* Between the request for the first id and the allocation nobody else     *)
(* asks or allocates: the guard of the mutex lives to the end.             *)
THEOREM OneCallerAllocates == Spec => []OneAllocates
<1>1. GatewayInv => OneAllocates
  BY DEF GatewayInv, LockInv, OneAllocates
<1> QED BY <1>1, GatewayAlways, PTL
=============================================================================
