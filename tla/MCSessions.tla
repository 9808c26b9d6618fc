----------------------------- MODULE MCSessions -----------------------------
(***************************************************************************)
(* What a peer starts on a node and stops again: terminals and a screen    *)
(* capture.  They share nothing, so TLC looks at behaviours that use one   *)
(* kind (OneKind).  Terminal sessions share the map of active terminals    *)
(* alone: one of them, Lively, does all a session may do, beside one whose *)
(* peer sends no sizes and whose shell writes nothing and starts no job    *)
(* (QuietSiblings).                                                        *)
(***************************************************************************)
EXTENDS TerminalSession, DesktopCapture

CONSTANT Lively \* the session without restrictions

VARIABLE kind \* the kind of session this behaviour is about

OneKind == kind \in {"terminal", "desktop"} /\ UNCHANGED kind

SessionsInit ==
    /\ Init
    /\ CaptureInit
    /\ kind \in {"terminal", "desktop"}
    /\ kind = "terminal" => backend = "none"

QuietSiblings ==
    \A s \in Sessions \ {Lively} :
        job'[s] = job[s] /\ resizes'[s] = resizes[s] /\ produced'[s] = produced[s]

TerminalStep == kind = "terminal" /\ Next /\ QuietSiblings /\ UNCHANGED captureVars
DesktopStep == kind = "desktop" /\ CaptureNext /\ UNCHANGED vars

SessionsNext == OneKind /\ (TerminalStep \/ DesktopStep)

SessionsSpec ==
    /\ SessionsInit
    /\ [][SessionsNext]_<<vars, captureVars, kind>>
    /\ Fairness
    /\ CaptureFairness

\* Types of the variables of both components.
TypesOK == TypeOK /\ CaptureTypeOK

=============================================================================
