--------------------------- MODULE DesktopCapture ---------------------------
(***************************************************************************)
(* One screen capture, from start_desktop_stream to its end, on any of the *)
(* backends of node-functions/src: Linux (portal and GStreamer pipeline,   *)
(* else a loop of screenshots), Windows, macOS, and synthetic frames.  The *)
(* tasks, the platform's frame callback, the bus watch of the pipeline and *)
(* whoever sets the stop flag run concurrently and share only that flag    *)
(* and the two callbacks.                                                  *)
(*                                                                         *)
(* The platforms are the environment.  Stopping a platform's stream waits  *)
(* for a frame callback that is under way, and a pipeline that cannot be   *)
(* played delivers no frame.                                               *)
(***************************************************************************)
EXTENDS Integers, Sequences

CONSTANTS
    Backends,      \* the backends a build may have
    MaxFrames,     \* bound on the frames that are recorded
    MaxBusErrors   \* bound on the errors the pipeline reports

ASSUME CaptureAssumption ==
    /\ Backends \subseteq {"linux", "windows", "macos", "synthetic", "none"}
    /\ {MaxFrames, MaxBusErrors} \subseteq Nat

VARIABLES
    backend,    \* the backend of this build
    stop_flag,  \* the flag the receiver sets to end the capture
    task,       \* where the backend's own task is
    loop,       \* where the loop that takes pictures itself is
    arrived,    \* whether the platform has a new frame
    callback,   \* whether the frame callback is handling one
    first,      \* first_frame, is_first: no frame was delivered yet
    watch,      \* whether the bus watch of the pipeline exists
    busErrors,  \* errors the bus watch reported
    closed,     \* whether the captured screen has gone (Windows)
    told        \* the statuses and frames reported so far

captureVars == <<backend, stop_flag, task, loop, arrived, callback, first, watch,
                 busErrors, closed, told>>

environment == <<backend, stop_flag, arrived, closed, busErrors>>

Tell(what) == told' = Append(told, what)

-----------------------------------------------------------------------------
(* Starting.                                                               *)

\* A build without a backend reports an error; the others spawn their task.
StartCapture ==
    /\ task = "none"
    /\ \/ /\ backend = "none"
          /\ task' = "ended"
          /\ Tell("Error")
          /\ UNCHANGED loop
       \/ /\ backend = "synthetic"
          /\ task' = "ended"
          /\ loop' = "spawned"
          /\ UNCHANGED told
       \/ /\ backend \in {"linux", "windows", "macos"}
          /\ task' = "spawned"
          /\ UNCHANGED <<loop, told>>
    /\ UNCHANGED <<environment, callback, first, watch>>

TaskStarts ==
    /\ task = "spawned"
    /\ task' = IF backend = "linux" THEN "portal" ELSE "opening"
    /\ Tell("Starting")
    /\ UNCHANGED <<environment, loop, callback, first, watch>>

\* Linux: GStreamer, the portal, a session and its sources, then the dialog in
\* which the user picks a screen.
PortalAnswers ==
    /\ task \in {"portal", "dialog"}
    /\ task' = IF task = "portal" THEN "dialog" ELSE "opening"
    /\ UNCHANGED <<environment, loop, callback, first, watch, told>>

\* The pipeline is built, with its callbacks and its bus watch.
PipelineBuilt ==
    /\ backend = "linux"
    /\ task = "opening"
    /\ task' = "playing"
    /\ watch' = TRUE
    /\ UNCHANGED <<environment, loop, callback, first, told>>

\* Every failure on the way is reported, and another attempt announced.
PortalFails ==
    /\ backend = "linux"
    /\ task \in {"portal", "dialog", "opening", "playing"}
    /\ task' = "falling back"
    /\ Tell("Error")
    /\ UNCHANGED <<environment, loop, callback, first, watch>>

FallBack ==
    /\ task = "falling back"
    /\ task' = "leaving"
    /\ loop' = "spawned"
    /\ Tell("Starting")
    /\ UNCHANGED <<environment, callback, first, watch>>

\* Windows and macOS: no monitor, no permission, no stream.
OpenFails ==
    /\ backend \in {"windows", "macos"}
    /\ task = "opening"
    /\ task' = "ended"
    /\ Tell("Error")
    /\ UNCHANGED <<environment, loop, callback, first, watch>>

\* From here on the platform delivers frames.
StreamRuns ==
    /\ task = (IF backend = "linux" THEN "playing" ELSE "opening")
    /\ task' = IF backend = "windows" THEN "capturing" ELSE "polling"
    /\ UNCHANGED <<environment, loop, callback, first, watch, told>>

-----------------------------------------------------------------------------
(* The frame callback.                                                     *)

\* At most MaxFrames frames are recorded.
Recorded(what) ==
    IF Len(SelectSeq(told, LAMBDA w : w = what)) < MaxFrames THEN Append(told, what) ELSE told

FirstIgnored == TRUE
IsFirst == first

\* The first frame is announced.  On Windows the flag is looked at first.  A
\* frame may still come between the flag seen and the stream stopped.
FrameCallback ==
    /\ task \in {"polling", "capturing", "stopping"}
    /\ ~(backend = "windows" /\ (stop_flag \/ closed))
    /\ arrived /\ ~callback
    /\ arrived' = FALSE
    /\ callback' = TRUE
    /\ first' = FALSE
    /\ told' = IF IsFirst THEN Append(told, "Active") ELSE told
    /\ UNCHANGED <<backend, stop_flag, task, loop, watch, busErrors, closed>>

DeliverFrame ==
    /\ callback
    /\ callback' = FALSE
    /\ told' = Recorded("Frame")
    /\ UNCHANGED <<environment, task, loop, first, watch>>

\* Windows: the callback stops the capture, without a status.
CallbackStops ==
    /\ task = "capturing"
    /\ ~callback
    /\ stop_flag
    /\ arrived
    /\ task' = "ended"
    /\ UNCHANGED <<environment, loop, callback, first, watch, told>>

\* Windows: a frame without a buffer ends the capture.
CallbackFails ==
    /\ task = "capturing"
    /\ ~callback /\ ~stop_flag
    /\ arrived
    /\ task' = "ended"
    /\ Tell("Error")
    /\ UNCHANGED <<environment, loop, callback, first, watch>>

\* Windows: on_closed.
ScreenGone ==
    /\ task = "capturing"
    /\ ~callback
    /\ closed
    /\ task' = "ended"
    /\ Tell("Stopped")
    /\ UNCHANGED <<environment, loop, callback, first, watch>>

-----------------------------------------------------------------------------
(* Stopping.                                                               *)

StopUnseen == FALSE
StopSeen == stop_flag

\* Linux and macOS look at the flag every 100 ms.
PollSeesStop ==
    /\ task = "polling"
    /\ StopSeen
    /\ task' = "stopping"
    /\ UNCHANGED <<environment, loop, callback, first, watch, told>>

\* The stream is stopped; a portal session is then closed.
StreamStops ==
    /\ task = "stopping"
    /\ ~callback
    /\ \/ /\ backend = "linux"
          /\ task' = "closing"
          /\ UNCHANGED told
       \/ /\ backend = "macos"
          /\ task' = "leaving"
          /\ Tell("Stopped")
    /\ UNCHANGED <<environment, loop, callback, first, watch>>

\* The portal has answered, be it with an error.
SessionCloses ==
    /\ task = "closing"
    /\ task' = "leaving"
    /\ Tell("Stopped")
    /\ UNCHANGED <<environment, loop, callback, first, watch>>

\* What the task owns goes with it, the bus watch included.
TaskLeaves ==
    /\ task = "leaving"
    /\ task' = "ended"
    /\ watch' = FALSE
    /\ UNCHANGED <<environment, loop, callback, first, told>>

-----------------------------------------------------------------------------
(* The loop that takes pictures itself: Linux without a portal, and the    *)
(* synthetic frames, for which nothing fails.                              *)

LoopStarts ==
    /\ loop = "spawned"
    /\ loop' = "querying"
    /\ Tell("Starting")
    /\ UNCHANGED <<environment, task, callback, first, watch>>

LoopFindsScreen ==
    /\ loop = "querying"
    /\ \/ loop' = "checking" /\ Tell("Active")
       \/ backend = "linux" /\ loop' = "ended" /\ Tell("Error")
    /\ UNCHANGED <<environment, task, callback, first, watch>>

LoopChecks ==
    /\ loop = "checking"
    /\ \/ StopSeen /\ loop' = "ended" /\ Tell("Stopped")
       \/ ~StopSeen /\ loop' = "capturing" /\ UNCHANGED told
    /\ UNCHANGED <<environment, task, callback, first, watch>>

\* A picture that cannot be taken is skipped.
LoopCaptures ==
    /\ loop = "capturing"
    /\ loop' = "checking"
    /\ \/ told' = Recorded("Frame")
       \/ backend = "linux" /\ UNCHANGED told
    /\ UNCHANGED <<environment, task, callback, first, watch>>

-----------------------------------------------------------------------------
(* The environment: the receiver, the platform and the pipeline's bus.     *)

SetStopFlag ==
    /\ task # "none"
    /\ ~stop_flag
    /\ stop_flag' = TRUE
    /\ UNCHANGED <<backend, task, loop, arrived, callback, first, watch, busErrors, closed, told>>

FrameArrives ==
    /\ task \in {"polling", "capturing"}
    /\ ~arrived
    /\ arrived' = TRUE
    /\ UNCHANGED <<backend, stop_flag, task, loop, callback, first, watch, busErrors, closed, told>>

ScreenCloses ==
    /\ task = "capturing"
    /\ ~closed
    /\ closed' = TRUE
    /\ UNCHANGED <<backend, stop_flag, task, loop, arrived, callback, first, watch, busErrors, told>>

\* An error is reported and nothing else: the task goes on polling.
BusError ==
    /\ watch
    /\ busErrors < MaxBusErrors
    /\ busErrors' = busErrors + 1
    /\ Tell("Error")
    /\ UNCHANGED <<backend, stop_flag, task, loop, arrived, callback, first, watch, closed>>

-----------------------------------------------------------------------------
CaptureInit ==
    /\ backend \in Backends
    /\ stop_flag = FALSE
    /\ task = "none"
    /\ loop = "none"
    /\ arrived = FALSE
    /\ callback = FALSE
    /\ first = TRUE
    /\ watch = FALSE
    /\ busErrors = 0
    /\ closed = FALSE
    /\ told = <<>>

CaptureTask ==
    TaskStarts \/ FallBack \/ PollSeesStop \/ StreamStops \/ TaskLeaves

Callback == FrameCallback \/ DeliverFrame \/ CallbackStops \/ CallbackFails \/ ScreenGone
CaptureLoop == LoopStarts \/ LoopFindsScreen \/ LoopChecks \/ LoopCaptures

Platform ==
    \/ PortalAnswers \/ PipelineBuilt \/ PortalFails \/ OpenFails \/ StreamRuns
    \/ SessionCloses \/ FrameArrives \/ ScreenCloses \/ BusError

CaptureNext ==
    StartCapture \/ SetStopFlag \/ CaptureTask \/ Callback \/ CaptureLoop \/ Platform

\* Tasks that can run do, and so does the callback for a frame that is there.
\* The platform calls return, but for those that wait for the portal; the
\* screen need not change, and nothing makes the receiver set the flag.
CaptureFairness ==
    /\ WF_captureVars(CaptureTask)
    /\ WF_captureVars(Callback)
    /\ WF_captureVars(CaptureLoop)
    /\ WF_captureVars(OpenFails \/ StreamRuns)

CaptureSpec == CaptureInit /\ [][CaptureNext]_captureVars /\ CaptureFairness

-----------------------------------------------------------------------------
(* Properties.                                                             *)

\* Types of the variables; only one of task and loop has a stream.
CaptureTypeOK ==
    /\ backend \in Backends
    /\ task \in {"none", "spawned", "portal", "dialog", "opening", "playing", "falling back",
                 "polling", "capturing", "stopping", "closing", "leaving", "ended"}
    /\ loop \in {"none", "spawned", "querying", "checking", "capturing", "ended"}
    /\ {stop_flag, arrived, callback, first, watch, closed} \subseteq BOOLEAN
    /\ busErrors \in 0 .. MaxBusErrors
    /\ told \in Seq({"Starting", "Active", "Frame", "Error", "Stopped"})
    /\ loop # "none" => task \in {"leaving", "ended"}
    /\ callback => task \in {"polling", "capturing", "stopping"}

\* The receiver sees the capture contract, on every platform.
Contracted == INSTANCE CaptureContract WITH
    heard <- told, mayStop <- stop_flag \/ closed

HonoursCapture == Contracted!Spec

CaptureOver == task = "ended" /\ loop \in {"none", "ended"}

\* The flag ends the capture, unless the portal never answers or, on Windows,
\* where only a frame makes the code look at the flag, the screen stands still.
StopHeeded ==
    stop_flag ~>
        \/ CaptureOver
        \/ [](task \in {"portal", "dialog", "closing"})
        \/ [](backend = "linux" /\ task = "opening")
        \/ [](task = "capturing" /\ ~arrived)

=============================================================================
