---------------------------- MODULE IBExecution ----------------------------
(***************************************************************************)
(* IBExecutionGateway (crates/infrastructure/src/external/ib/execution.rs):*)
(* order ids of Interactive Brokers are allocated under a mutex that is    *)
(* held while the first one is asked for, and mapped to the ids of the     *)
(* domain in both directions.  The API call itself is a stub in the code;  *)
(* Interactive Brokers answers here in every way its caller handles.       *)
(***************************************************************************)
EXTENDS Integers, FiniteSets

CONSTANTS
  Callers,    \* tasks that use the gateway
  Orders,     \* ids of the domain
  NoCaller, NoOrder,
  FirstId,    \* what IB gives as the next valid id
  MaxCalls,   \* bound: operations that are begun
  MaxFaults   \* bound: connections and calls that fail

ASSUME GatewayAssumption ==
  /\ NoCaller \notin Callers /\ NoOrder \notin Orders
  /\ FirstId \in Nat \ {0} /\ MaxCalls \in Nat /\ MaxFaults \in Nat

Channels == {"updates", "fills"}

(* At most one id is allocated in each call.                               *)
Ids == FirstId .. FirstId + MaxCalls

VARIABLES
  nextValidId, holder,    \* the counter, and who holds its mutex
  orderIdMap, reverseMap, \* domain id to IB id, and back
  tracking,               \* IB ids with an entry of order_tracking
  sender, processors,     \* whose receiver each channel feeds; running processors
  call,                   \* per caller: operation, order, IB id and next step
  placed,                 \* ghost: orders whose place_order() returned Ok
  repeated,               \* ghost: orders placed again then, or in two calls at a time
  market,                 \* IB's side: what became of an id
  calls, faults

maps == <<orderIdMap, reverseMap, tracking>>
streams == <<sender, processors>>
ghosts == <<placed, repeated>>
vars == <<nextValidId, holder, maps, streams, call, ghosts, market, calls, faults>>

Idle == [op |-> "none", order |-> NoOrder, id |-> 0, step |-> "done"]

Init ==
  /\ nextValidId = 0 /\ holder = NoCaller
  /\ orderIdMap = [o \in Orders |-> 0] /\ reverseMap = [id \in Ids |-> NoOrder]
  /\ tracking = {}
  /\ sender = [ch \in Channels |-> NoCaller] /\ processors = 0
  /\ call = [p \in Callers |-> Idle]
  /\ placed = {} /\ repeated = {} /\ market = [id \in Ids |-> "unknown"]
  /\ calls = 0 /\ faults = 0

At(p, step) == call[p].step = step
Goto(p, step) == call' = [call EXCEPT ![p].step = step]
Return(p) == call' = [call EXCEPT ![p] = Idle]
Begin(p, op, order, id, step) ==
  /\ call[p] = Idle /\ calls < MaxCalls /\ calls' = calls + 1
  /\ call' = [call EXCEPT ![p] = [op |-> op, order |-> order, id |-> id, step |-> step]]
Fault == faults < MaxFaults /\ faults' = faults + 1
-----------------------------------------------------------------------------
(* place_order() does not look whether the order has been placed already.  *)
PlaceOrder(p, o) ==
  /\ Begin(p, "place", o, 0, "connect")
  /\ repeated' = IF \/ o \in placed
                    \/ \E q \in Callers : call[q].op = "place" /\ call[q].order = o
                 THEN repeated \cup {o} ELSE repeated
  /\ UNCHANGED <<nextValidId, holder, maps, streams, placed, market, faults>>

(* cancel_order() looks the id up before it connects; modify_order() is a  *)
(* cancellation that returns an error.                                     *)
CancelOrder(p, o) ==
  /\ orderIdMap[o] # 0
  /\ \E op \in {"cancel", "modify"} : Begin(p, op, o, orderIdMap[o], "connect")
  /\ UNCHANGED <<nextValidId, holder, maps, streams, ghosts, market, faults>>

CancelUnknown(p, o) ==
  /\ orderIdMap[o] = 0
  /\ call[p] = Idle /\ calls < MaxCalls /\ calls' = calls + 1
  /\ UNCHANGED <<nextValidId, holder, maps, streams, call, ghosts, market, faults>>

SubscribeUpdates(p) ==
  /\ \E ch \in Channels : Begin(p, ch, NoOrder, 0, "connect")
  /\ UNCHANGED <<nextValidId, holder, maps, streams, ghosts, market, faults>>

(* get_open_orders() and get_positions() connect and find nothing.         *)
QueryMarket(p) ==
  /\ Begin(p, "query", NoOrder, 0, "connect")
  /\ UNCHANGED <<nextValidId, holder, maps, streams, ghosts, market, faults>>

Answered(p) ==
  /\ At(p, "query") /\ Return(p)
  /\ UNCHANGED <<nextValidId, holder, maps, streams, ghosts, market, calls, faults>>

AfterConnect(op) ==
  CASE op = "place" -> "lock"
    [] op \in {"cancel", "modify"} -> "cancel"
    [] op = "query" -> "query"
    [] OTHER -> "subscribe"

Connected(p) ==
  /\ At(p, "connect") /\ Goto(p, AfterConnect(call[p].op))
  /\ UNCHANGED <<nextValidId, holder, maps, streams, ghosts, market, calls, faults>>

ConnectFails(p) ==
  /\ At(p, "connect") /\ Fault /\ Return(p)
  /\ UNCHANGED <<nextValidId, holder, maps, streams, ghosts, market, calls>>
-----------------------------------------------------------------------------
LockFree(p) ==  \* seeded fault: the counter is read without the mutex
  /\ At(p, "lock")
  /\ holder' = IF holder = NoCaller THEN p ELSE holder
  /\ Goto(p, IF nextValidId = 0 THEN "ask" ELSE "allocate")
  /\ UNCHANGED <<nextValidId, maps, streams, ghosts, market, calls, faults>>

(* allocate_order_id(): the guard is held to the end of the function.      *)
Lock(p) ==
  /\ At(p, "lock") /\ holder = NoCaller /\ holder' = p
  /\ Goto(p, IF nextValidId = 0 THEN "ask" ELSE "allocate")
  /\ UNCHANGED <<nextValidId, maps, streams, ghosts, market, calls, faults>>

FirstIdAllocatesAgain(p) ==  \* seeded fault: with the first id it calls allocate_order_id() again
  /\ At(p, "ask") /\ Goto(p, "lock")
  /\ nextValidId' = FirstId
  /\ UNCHANGED <<holder, maps, streams, ghosts, market, calls, faults>>

(* The answer, once the client has sent its event into a bounded channel.  *)
FirstIdGiven(p) ==
  /\ At(p, "ask") /\ Goto(p, "allocate")
  /\ nextValidId' = FirstId
  /\ UNCHANGED <<holder, maps, streams, ghosts, market, calls, faults>>

NoFirstId(p) ==
  /\ At(p, "ask") /\ Fault /\ Return(p)
  /\ holder' = NoCaller
  /\ UNCHANGED <<nextValidId, maps, streams, ghosts, market, calls>>

Allocate(p) ==
  /\ At(p, "allocate")
  /\ call' = [call EXCEPT ![p].step = "map", ![p].id = nextValidId]
  /\ nextValidId' = nextValidId + 1
  /\ holder' = NoCaller
  /\ UNCHANGED <<maps, streams, ghosts, market, calls, faults>>
-----------------------------------------------------------------------------
MapId(p) ==
  /\ At(p, "map") /\ Goto(p, "reverse")
  /\ orderIdMap' = [orderIdMap EXCEPT ![call[p].order] = call[p].id]
  /\ UNCHANGED <<nextValidId, holder, reverseMap, tracking, streams, ghosts, market, calls, faults>>

MapBack(p) ==
  /\ At(p, "reverse") /\ Goto(p, "track")
  /\ reverseMap' = [reverseMap EXCEPT ![call[p].id] = call[p].order]
  /\ UNCHANGED <<nextValidId, holder, orderIdMap, tracking, streams, ghosts, market, calls, faults>>

(* The order cannot be converted: both mappings stay.                      *)
ConvertFails(p) ==
  /\ At(p, "track") /\ Fault /\ Return(p)
  /\ UNCHANGED <<nextValidId, holder, maps, streams, ghosts, market, calls>>

Track(p) ==
  /\ At(p, "track") /\ Goto(p, "send")
  /\ tracking' = tracking \cup {call[p].id}
  /\ UNCHANGED <<nextValidId, holder, orderIdMap, reverseMap, streams, ghosts, market, calls, faults>>

Sent(p) ==
  /\ At(p, "send") /\ Return(p)
  /\ market' = [market EXCEPT ![call[p].id] = "working"]
  /\ placed' = placed \cup {call[p].order}
  /\ UNCHANGED <<nextValidId, holder, maps, streams, repeated, calls, faults>>

(* An error, or no answer in 30 seconds: then the order may be working.    *)
SendFails(p) ==
  /\ At(p, "send") /\ Fault /\ Goto(p, "unmap")
  /\ \E fate \in {"unknown", "working"} : market' = [market EXCEPT ![call[p].id] = fate]
  /\ UNCHANGED <<nextValidId, holder, maps, streams, ghosts, calls>>

UnmapAll(p) ==  \* seeded fault: the maps are cleared, not just this order's entries
  /\ At(p, "unmap") /\ Return(p)
  /\ orderIdMap' = [o \in Orders |-> 0]
  /\ reverseMap' = [id \in Ids |-> NoOrder]
  /\ UNCHANGED <<nextValidId, holder, tracking, streams, ghosts, market, calls, faults>>

(* The clean-up holds the write lock of the first map to its end.  The     *)
(* order stays tracked.                                                    *)
Unmap(p) ==
  /\ At(p, "unmap") /\ Return(p)
  /\ orderIdMap' = [orderIdMap EXCEPT ![call[p].order] = 0]
  /\ reverseMap' = [reverseMap EXCEPT ![call[p].id] = NoOrder]
  /\ UNCHANGED <<nextValidId, holder, tracking, streams, ghosts, market, calls, faults>>
-----------------------------------------------------------------------------
Cancelled(p) ==
  /\ At(p, "cancel") /\ Return(p)
  /\ market[call[p].id] = "working"
  /\ market' = [market EXCEPT ![call[p].id] = "cancelled"]
  /\ UNCHANGED <<nextValidId, holder, maps, streams, ghosts, calls, faults>>

(* Refused, because nothing works under that id, or timed out.             *)
CancelFails(p) ==
  /\ At(p, "cancel") /\ Return(p)
  /\ market[call[p].id] = "working" => faults < MaxFaults
  /\ faults' = IF market[call[p].id] = "working" THEN faults + 1 ELSE faults
  /\ UNCHANGED <<nextValidId, holder, maps, streams, ghosts, market, calls>>

(* The sender replaces the one before, whose receiver is then closed, and  *)
(* another processor is spawned.                                           *)
Subscribed(p) ==
  /\ At(p, "subscribe") /\ Return(p)
  /\ sender' = [sender EXCEPT ![call[p].op] = p]
  /\ processors' = processors + 1
  /\ UNCHANGED <<nextValidId, holder, maps, ghosts, market, calls, faults>>

(* start_event_processor() drops the sender of the channel that the        *)
(* processor reads, so its first recv() ends the loop.                     *)
ProcessorEnds ==
  /\ processors > 0 /\ processors' = processors - 1
  /\ UNCHANGED <<nextValidId, holder, maps, sender, call, ghosts, market, calls, faults>>

(* Steps that wait for the client, which sends its events into a bounded   *)
(* channel and waits while that is full.                                   *)
NeedsClient(p) == Connected(p) \/ ConnectFails(p) \/ FirstIdGiven(p) \/ NoFirstId(p)

Works(p) ==
  \/ Allocate(p) \/ MapId(p) \/ MapBack(p) \/ ConvertFails(p) \/ Track(p)
  \/ Sent(p) \/ SendFails(p) \/ Unmap(p)
  \/ Cancelled(p) \/ CancelFails(p) \/ Subscribed(p) \/ Answered(p)

Begins(p) ==
  \/ \E o \in Orders : PlaceOrder(p, o) \/ CancelOrder(p, o) \/ CancelUnknown(p, o)
  \/ SubscribeUpdates(p) \/ QueryMarket(p)

Next == ProcessorEnds \/ \E p \in Callers : Begins(p) \/ Lock(p) \/ NeedsClient(p) \/ Works(p)

Spec == Init /\ [][Next]_vars

(* The sends end or time out, and tokio's mutex is first come, first       *)
(* served.  The client owes no answer: nobody may read its events.         *)
FairSpec ==
  /\ Spec /\ WF_vars(ProcessorEnds)
  /\ \A p \in Callers : WF_vars(Works(p)) /\ SF_vars(Lock(p))
-----------------------------------------------------------------------------
TypeOK ==
  /\ nextValidId \in {0} \cup Ids \cup {FirstId + MaxCalls + 1}
  /\ holder \in Callers \cup {NoCaller}
  /\ orderIdMap \in [Orders -> {0} \cup Ids]
  /\ reverseMap \in [Ids -> Orders \cup {NoOrder}]
  /\ tracking \subseteq Ids /\ placed \subseteq Orders /\ repeated \subseteq Orders
  /\ sender \in [Channels -> Callers \cup {NoCaller}] /\ processors \in 0 .. calls
  /\ \A p \in Callers :
       call[p].step \in {"map", "reverse", "track", "send", "unmap", "cancel"} => call[p].id \in Ids
  /\ market \in [Ids -> {"unknown", "working", "cancelled"}]
  /\ calls \in 0 .. MaxCalls /\ faults \in 0 .. MaxFaults

Placing(p) == call[p].op = "place" /\ call[p].id # 0

(* However place_order() calls interleave, retries included, no two of     *)
(* them use one id of IB, and no order has the id of another.              *)
IdsNotShared ==
  /\ \A p, q \in Callers : Placing(p) /\ Placing(q) /\ p # q => call[p].id # call[q].id
  /\ \A p \in Callers, o \in Orders :
       Placing(p) /\ o # call[p].order => orderIdMap[o] # call[p].id
  /\ \A o, u \in Orders : o # u /\ orderIdMap[o] # 0 => orderIdMap[o] # orderIdMap[u]

(* An order that was placed, and not placed again, can be cancelled and    *)
(* its fills be assigned to it: both maps lead to the id under which it    *)
(* came to the market, and it is tracked; the failure of another placement *)
(* takes nothing of that.                                                  *)
PlacedIsReachable ==
  \A o \in placed \ repeated :
    /\ orderIdMap[o] # 0 /\ reverseMap[orderIdMap[o]] = o
    /\ market[orderIdMap[o]] # "unknown" /\ orderIdMap[o] \in tracking

(* Whatever fails, only the client holds a call for ever: one that waits   *)
(* for its answer, or for the mutex of a call that does.                   *)
CallsReturn ==
  \A p \in Callers :
    \/ []<>(call[p] = Idle)
    \/ <>[](call[p].step \in {"connect", "ask"})
    \/ <>[](At(p, "lock") /\ holder # NoCaller /\ call[holder].step = "ask")
=============================================================================
