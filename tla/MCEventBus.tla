----------------------------- MODULE MCEventBus -----------------------------
(* A subscriber is named for the call with which it subscribes.            *)
EXTENDS EventBus, DeadLetterQueue

EventTypes == {<<"order", "filled">>, <<"bar", "received">>}

Kinds == [s \in Subscribers |-> s]

Patterns == [s \in Subscribers |-> [form |-> "suffix", name |-> "filled"]]
=============================================================================
