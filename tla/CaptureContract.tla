--------------------------- MODULE CaptureContract --------------------------
(***************************************************************************)
(* What the receiver of a screen capture's callbacks may rely on, whatever *)
(* the platform and however often an attempt failed: the capture starts    *)
(* before it is active, is active once before its first frame, and once it *)
(* has reported that it stopped, which it does only when it was told to or *)
(* the screen has gone, no attempt and no frame follows.  Errors may be    *)
(* reported at any time and end nothing.                                   *)
(***************************************************************************)
EXTENDS Sequences

VARIABLES
    heard,   \* the statuses and frames reported so far
    mayStop  \* whether the capture was told to stop or its screen has gone

vars == <<heard, mayStop>>

Heard(what) == \E i \in DOMAIN heard : heard[i] = what

MayHear(what) ==
    \/ what = "Error"
    \/ what = "Starting" /\ ~Heard("Active") /\ ~Heard("Stopped")
    \/ what = "Active" /\ Heard("Starting") /\ ~Heard("Active") /\ ~Heard("Stopped")
    \/ what = "Frame" /\ Heard("Active") /\ ~Heard("Stopped")
    \/ what = "Stopped" /\ Heard("Starting") /\ ~Heard("Stopped") /\ mayStop

Init == heard = <<>> /\ mayStop = FALSE

Hear ==
    /\ \E what \in {"Error", "Starting", "Active", "Frame", "Stopped"} :
          MayHear(what) /\ heard' = Append(heard, what)
    /\ UNCHANGED mayStop

Allow == mayStop' = TRUE /\ UNCHANGED heard

Next == Hear \/ Allow

Spec == Init /\ [][Next]_vars

=============================================================================
