------------------------------ MODULE Handlers ------------------------------
(***************************************************************************)
(* Request handlers in flight.  NestJS runs each call to its next await,   *)
(* so a handler is a slot that holds what the call has read so far and the *)
(* point where it waits; every step of a handler is one action.  A module  *)
(* keeps its own slots, over the same Requests.                            *)
(***************************************************************************)
CONSTANTS
    Requests,    \* handlers that can be in flight together
    None         \* an absent row, key or reference

\* A free slot.
Idle == [pc |-> "idle"]

AllIdle == [r \in Requests |-> Idle]

\* slots with request r moved to what it holds next.
Put(slots, r, next) == [slots EXCEPT ![r] = next]

=============================================================================
