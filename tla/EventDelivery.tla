---------------------------- MODULE EventDelivery ----------------------------
(***************************************************************************)
(* What an event bus promises its subscribers: each is given the events it *)
(* wants that were published after it joined, in the order in which they   *)
(* were published and each at most once.  It is spared one only if that    *)
(* many newer ones were published that the bus could not keep it.          *)
(***************************************************************************)
EXTENDS Naturals, Sequences

CONSTANTS
  Subscribers, Types,
  Wants,    \* Wants[s]: the types that subscriber s is to be given
  Capacity  \* how many events the bus keeps

VARIABLES
  log,   \* the types of the events that were published, in their order
  mark,  \* per subscriber, the last event that it was given or that it joined after
  given  \* per subscriber, the events it was given

vars == <<log, mark, given>>

Init ==
  /\ log = <<>>
  /\ mark = [s \in Subscribers |-> 0] /\ given = [s \in Subscribers |-> <<>>]

Publish ==
  /\ \E type \in Types : log' = Append(log, type)
  /\ UNCHANGED <<mark, given>>

(* Nothing was given to a subscriber before it joins.                      *)
Join(s) ==
  /\ given[s] = <<>>
  /\ mark' = [mark EXCEPT ![s] = Len(log)]
  /\ UNCHANGED <<log, given>>

Kept(n) == n + Capacity > Len(log)

Give(s) ==
  \E n \in mark[s] + 1 .. Len(log) :
    /\ log[n] \in Wants[s]
    /\ \A k \in mark[s] + 1 .. n - 1 : log[k] \in Wants[s] => ~Kept(k)
    /\ mark' = [mark EXCEPT ![s] = n]
    /\ given' = [given EXCEPT ![s] = Append(@, n)]
    /\ UNCHANGED log

Next == Publish \/ \E s \in Subscribers : Join(s) \/ Give(s)

Spec == Init /\ [][Next]_vars
=============================================================================
