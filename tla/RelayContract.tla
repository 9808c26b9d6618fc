---------------------------- MODULE RelayContract ---------------------------
(***************************************************************************)
(* What a peer may rely on when it asks a node to relay a connection: one  *)
(* answer, then what the target sent, in order and without a gap, then one *)
(* close, and nothing after a refusal or a close.  A close comes only when *)
(* the target ended the connection, and after all it sent unless the       *)
(* connection broke.                                                       *)
(***************************************************************************)
EXTENDS Integers, Sequences

CONSTANTS Streams, MaxDown, Accepted, Refused, Closed

VARIABLES
    heard,  \* heard[s]: what the peer was sent about stream s
    told,   \* told[s]: the number of blocks the target has sent
    over    \* over[s]: "open", "finished" or "broken", as the target left it

vars == <<heard, told, over>>

\* Blocks of a stream are numbered; the peer was sent those up to this one.
Delivered(s) == Len(heard[s]) - 1

Open(s) == heard[s] # <<>> /\ heard[s][Len(heard[s])] \notin {Refused, Closed}

Init ==
    /\ heard = [s \in Streams |-> <<>>]
    /\ told = [s \in Streams |-> 0]
    /\ over = [s \in Streams |-> "open"]

Tell(s, msg) ==
    /\ heard' = [heard EXCEPT ![s] = Append(@, msg)]
    /\ UNCHANGED <<told, over>>

Answer(s) == heard[s] = <<>> /\ (Tell(s, Accepted) \/ Tell(s, Refused))
Relay(s) == Open(s) /\ Delivered(s) < told[s] /\ Tell(s, Delivered(s) + 1)

Close(s) ==
    /\ Open(s)
    /\ over[s] = "broken" \/ (over[s] = "finished" /\ Delivered(s) = told[s])
    /\ Tell(s, Closed)

TargetSends(s) ==
    /\ over[s] = "open"
    /\ told[s] < MaxDown
    /\ told' = [told EXCEPT ![s] = @ + 1]
    /\ UNCHANGED <<heard, over>>

TargetEnds(s) ==
    /\ over[s] # "broken"
    /\ over' \in {[over EXCEPT ![s] = how] : how \in {"finished", "broken"}}
    /\ UNCHANGED <<heard, told>>

Next ==
    \E s \in Streams :
        Answer(s) \/ Relay(s) \/ Close(s) \/ TargetSends(s) \/ TargetEnds(s)

Spec == Init /\ [][Next]_vars

=============================================================================
