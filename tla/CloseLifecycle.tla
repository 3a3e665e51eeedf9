--------------------------- MODULE CloseLifecycle ---------------------------
(***************************************************************************)
(* Closing the desktop window: the main process intercepts every close and *)
(* quit event, asks the renderer to save (a request with an id of its own), *)
(* and replays the event only after the renderer, or the user in a native  *)
(* dialog, has decided. Main, renderer and the two message channels        *)
(* between them interleave; a flush or a prompt may take forever.          *)
(*                                                                         *)
(* One action is one event-loop callback of one of the two processes. The  *)
(* channels keep the order of their messages, as Electron's IPC does.      *)
(***************************************************************************)
EXTENDS Naturals, Sequences

CONSTANTS
  MaxRequests \* bound: close requests made

ASSUME CloseAssumption == MaxRequests \in Nat

VARIABLES
  pending,     \* pendingRequest of AppCloseLifecycleState
  held,        \* heldRequestId, 0 when null
  replay,      \* replayRequest
  permitQuit,  \* permitNextQuit
  permitClose, \* permitNextWindowClose
  timer,       \* the request closeTimer was armed for, 0 when it is not
  dialog,      \* timeoutDialogRequestId, 0 when null
  replays,     \* requests whose replayClose is queued by setImmediate
  window,      \* the BrowserWindow
  asked,       \* requests made so far: request ids are 1..asked
  dispatching, \* the Knowledge outbox dispatcher is started
  toRenderer,  \* messages from main to the renderer
  toMain,      \* messages from the renderer to main
  subscribed,  \* the application has mounted and subscribed to requests
  waiting,     \* pendingRequest of the coordinator in the preload script
  run,         \* the barrier run of a request
  lock,        \* exitPreparationRequestIdRef of the canvas page, 0 when null
  dirty        \* the canvas document differs from what is persisted

stateVars == <<pending, held, replay, permitQuit, permitClose, asked>>

mainVars == <<stateVars, timer, dialog, replays, window, dispatching>>

rendererVars == <<subscribed, waiting, run, lock, dirty>>

vars == <<mainVars, toRenderer, toMain, rendererVars>>

-----------------------------------------------------------------------------
Ids == 1..MaxRequests

NoRequest == [id |-> 0, intent |-> "none"]

NoReplay == [id |-> 0, intent |-> "none", decision |-> "none"]

Decisions == {"ready", "force", "cancel"}

Requested(id) == [kind |-> "requested", id |-> id, arg |-> "none"]
Cancelled(id) == [kind |-> "cancelled", id |-> id, arg |-> "none"]
HoldReply(id, ok) == [kind |-> "holdReply", id |-> id, arg |-> IF ok THEN "held" ELSE "refused"]
Reply(id) == [kind |-> "reply", id |-> id, arg |-> "none"]
Hold(id) == [kind |-> "hold", id |-> id, arg |-> "none"]
Respond(id, decision) == [kind |-> "respond", id |-> id, arg |-> decision]

RunStep == {"none", "editors", "flushing", "holding", "prompting", "responding", "done"}

\* A run that activeRequests still holds.
Active(id) == run[id].step \notin {"none", "done"}

-----------------------------------------------------------------------------
(* Main process: events of the window and the application.                 *)

\* webContents.send of the request, and the timer unless a prompt is held.
Announce(request) ==
  /\ toRenderer' = Append(toRenderer, Requested(request.id))
  /\ timer' = IF held' = request.id THEN timer ELSE request.id

\* requestClose with begin: a second close joins the request in progress, and
\* a quit turns it into a quit.
RequestClose(intent) ==
  \/ /\ pending # NoRequest
     /\ intent = "quit" /\ pending.intent = "window"
     /\ pending' = [pending EXCEPT !.intent = "quit"]
     /\ UNCHANGED <<held, replay, permitQuit, asked>>
     /\ Announce(pending)
  \/ /\ pending # NoRequest
     /\ intent = "window" \/ pending.intent = "quit"
     /\ UNCHANGED <<pending, held, replay, permitQuit, asked, timer, toRenderer>>
  \/ /\ pending = NoRequest /\ replay # NoReplay
     /\ IF intent = "quit" /\ replay.intent = "window"
        THEN replay' = [replay EXCEPT !.intent = "quit"] /\ permitQuit' = TRUE
        ELSE UNCHANGED <<replay, permitQuit>>
     /\ UNCHANGED <<pending, held, asked, timer, toRenderer>>
  \/ /\ pending = NoRequest /\ replay = NoReplay
     /\ asked < MaxRequests
     /\ asked' = asked + 1
     /\ pending' = [id |-> asked + 1, intent |-> intent]
     /\ held' = 0
     /\ UNCHANGED <<replay, permitQuit>>
     /\ Announce(pending')

\* The window's "close" event: a permit lets it through once.
CloseEvent ==
  \/ /\ permitClose
     /\ permitClose' = FALSE
     /\ window' = "unloading"
     /\ UNCHANGED <<pending, held, replay, permitQuit, asked, timer, toRenderer>>
  \/ /\ ~permitClose
     /\ RequestClose("window")
     /\ UNCHANGED <<permitClose, window>>

\* "before-quit", which also stops the dispatcher (main.ts); once let through,
\* the application closes its window.
QuitEvent ==
  /\ dispatching' = FALSE
  /\ \/ /\ ~permitQuit
        /\ RequestClose("quit")
        /\ UNCHANGED <<permitClose, window>>
     \/ /\ permitQuit
        /\ permitQuit' = FALSE
        /\ permitClose' = FALSE
        /\ window' = "unloading"
        /\ UNCHANGED <<pending, held, replay, asked, timer, toRenderer>>

UserCloses ==
  /\ window # "closed"
  /\ CloseEvent
  /\ UNCHANGED <<dialog, replays, dispatching, toMain, rendererVars>>

UserQuits ==
  /\ window # "closed"
  /\ QuitEvent
  /\ UNCHANGED <<dialog, replays, toMain, rendererVars>>

\* replayClose, in a later turn of the event loop than the decision.
ReplayClose(id) ==
  /\ window # "closed"
  /\ id \in replays
  /\ replays' = replays \ {id}
  /\ \/ /\ replay.id # id
        /\ UNCHANGED <<stateVars, timer, window, dispatching, toRenderer>>
     \/ /\ replay.id = id /\ replay.intent = "window"
        /\ CloseEvent
        /\ UNCHANGED dispatching
     \/ /\ replay.id = id /\ replay.intent = "quit"
        /\ QuitEvent
  /\ UNCHANGED <<dialog, toMain, rendererVars>>

\* Mutant: the permits outlive the request they were granted for.
ClearReplayOnly ==
  /\ replay' = NoReplay
  /\ UNCHANGED <<permitQuit, permitClose>>

ClearReplay ==
  /\ replay' = NoReplay
  /\ permitQuit' = FALSE
  /\ permitClose' = FALSE

\* The page unloads, or one of its beforeunload handlers prevents it.
Unload ==
  /\ window = "unloading"
  /\ \/ /\ window' = "closed"
        /\ pending' = NoRequest
        /\ held' = 0
        /\ timer' = 0
        /\ ClearReplay
        /\ UNCHANGED toRenderer
     \/ /\ replay.decision # "force"
        /\ window' = "open"
        /\ toRenderer' = IF replay = NoReplay THEN toRenderer
                         ELSE Append(toRenderer, Cancelled(replay.id))
        /\ ClearReplay
        /\ UNCHANGED <<pending, held, timer>>
  /\ UNCHANGED <<asked, dialog, replays, dispatching, toMain, rendererVars>>

-----------------------------------------------------------------------------
(* Main process: the renderer's answers, the timer and the native dialog.  *)

\* Mutant: the held request is not forgotten with the pending one.
ResolveStillHeld(decision) ==
  /\ pending' = NoRequest
  /\ UNCHANGED held
  /\ \/ decision = "cancel" /\ ClearReplay /\ UNCHANGED replays
     \/ /\ decision # "cancel"
        /\ replay' = [id |-> pending.id, intent |-> pending.intent, decision |-> decision]
        /\ permitClose' = TRUE
        /\ permitQuit' = (pending.intent = "quit")
        /\ replays' = replays \cup {pending.id}

\* resolve of the pending request.
Resolve(decision) ==
  /\ pending' = NoRequest
  /\ held' = 0
  /\ \/ decision = "cancel" /\ ClearReplay /\ UNCHANGED replays
     \/ /\ decision # "cancel"
        /\ replay' = [id |-> pending.id, intent |-> pending.intent, decision |-> decision]
        /\ permitClose' = TRUE
        /\ permitQuit' = (pending.intent = "quit")
        /\ replays' = replays \cup {pending.id}

HandleHold(id) ==
  LET ok == dialog # id /\ pending.id = id
  IN  /\ held' = IF ok THEN id ELSE held
      /\ timer' = IF ok THEN 0 ELSE timer
      /\ toRenderer' = Append(toRenderer, HoldReply(id, ok))
      /\ UNCHANGED <<pending, replay, permitQuit, permitClose, replays>>

HandleResponse(id, decision) ==
  \/ /\ pending.id = id
     /\ Resolve(decision)
     /\ timer' = 0
     /\ toRenderer' = IF decision = "cancel"
                      THEN Append(Append(toRenderer, Cancelled(id)), Reply(id))
                      ELSE Append(toRenderer, Reply(id))
  \/ /\ pending.id # id
     /\ toRenderer' = Append(toRenderer, Reply(id))
     /\ UNCHANGED <<pending, held, replay, permitQuit, permitClose, replays, timer>>

HandleMessage ==
  /\ window # "closed"
  /\ toMain # <<>>
  /\ toMain' = Tail(toMain)
  /\ LET m == Head(toMain)
     IN  \/ m.kind = "hold" /\ HandleHold(m.id)
         \/ m.kind = "respond" /\ HandleResponse(m.id, m.arg)
  /\ UNCHANGED <<asked, dialog, window, dispatching, rendererVars>>

\* The timer of armCloseTimer, and the guards of showCloseTimeoutDialog.
TimerFires ==
  /\ window # "closed"
  /\ timer # 0
  /\ timer' = 0
  /\ dialog' = IF dialog = 0 /\ pending.id = timer THEN timer ELSE dialog
  /\ UNCHANGED <<stateVars, replays, window, dispatching, toRenderer, toMain, rendererVars>>

\* Mutant: the renderer is not told that its request is over.
StayUntold ==
  /\ pending' = NoRequest
  /\ held' = 0
  /\ ClearReplay
  /\ UNCHANGED toRenderer

\* cancelPending, then notifyCloseCancelled.
Stay ==
  /\ pending' = NoRequest
  /\ held' = 0
  /\ ClearReplay
  /\ toRenderer' = Append(toRenderer, Cancelled(pending.id))

\* The user's choice in the dialog; it may be about a request that is over.
DialogAnswered(choice) ==
  /\ window # "closed"
  /\ dialog # 0
  /\ dialog' = 0
  /\ \/ /\ pending.id # dialog
        /\ UNCHANGED <<stateVars, timer, replays, toRenderer>>
     \/ /\ pending.id = dialog /\ choice = "wait"
        /\ timer' = dialog
        /\ UNCHANGED <<stateVars, replays, toRenderer>>
     \/ /\ pending.id = dialog /\ choice = "force"
        /\ Resolve("force")
        /\ UNCHANGED <<asked, timer, toRenderer>>
     \/ /\ pending.id = dialog /\ choice = "stay"
        /\ Stay
        /\ UNCHANGED <<asked, timer, replays>>
  /\ UNCHANGED <<window, dispatching, toMain, rendererVars>>

-----------------------------------------------------------------------------
(* Renderer: the coordinator of the preload script and the exit barriers.  *)

GoTo(id, step) == run' = [run EXCEPT ![id].step = step]

StartRun(id) == run' = [run EXCEPT ![id] = [step |-> "editors", retired |-> FALSE]]

\* Mutant: a request that arrives before the application mounted is dropped.
TakeRequestMounted(id) ==
  IF Active(id) \/ ~subscribed
  THEN UNCHANGED <<run, waiting>>
  ELSE StartRun(id) /\ UNCHANGED waiting

\* receive, with deliverPending
TakeRequest(id) ==
  IF Active(id)
  THEN UNCHANGED <<run, waiting>>
  ELSE IF subscribed
       THEN StartRun(id) /\ UNCHANGED waiting
       ELSE waiting' = id /\ UNCHANGED run

\* cancel of the coordinator, cancelExitBarriers and the canvas page's observer.
TakeCancellation(id) ==
  /\ waiting' = IF waiting = id THEN 0 ELSE waiting
  /\ run' = IF Active(id) THEN [run EXCEPT ![id].retired = TRUE] ELSE run
  /\ lock' = IF lock = id THEN 0 ELSE lock

\* Mutant: activeRequests forgets a request when its answer is sent.
FinishAtOnce(id, decision) ==
  IF run[id].retired
  THEN /\ GoTo(id, "done")
       /\ UNCHANGED toMain
  ELSE /\ GoTo(id, "done")
       /\ toMain' = Append(toMain, Respond(id, decision))

\* The barriers are through; a retired request is answered no more.
Finish(id, decision) ==
  IF run[id].retired
  THEN /\ GoTo(id, "done")
       /\ UNCHANGED toMain
  ELSE /\ GoTo(id, "responding")
       /\ toMain' = Append(toMain, Respond(id, decision))

\* The answer to holdClose: a prompt is shown only while the request lives.
TakeHoldReply(id, arg) ==
  IF arg = "held" /\ lock = id
  THEN GoTo(id, "prompting") /\ UNCHANGED toMain
  ELSE Finish(id, "cancel")

Receive ==
  /\ window # "closed"
  /\ toRenderer # <<>>
  /\ toRenderer' = Tail(toRenderer)
  /\ LET m == Head(toRenderer)
     IN  \/ m.kind = "requested" /\ TakeRequest(m.id) /\ UNCHANGED <<toMain, lock>>
         \/ m.kind = "cancelled" /\ TakeCancellation(m.id) /\ UNCHANGED toMain
         \/ m.kind = "holdReply" /\ TakeHoldReply(m.id, m.arg) /\ UNCHANGED <<waiting, lock>>
         \/ /\ m.kind = "reply"
            /\ GoTo(m.id, "done")
            /\ UNCHANGED <<toMain, waiting, lock>>
  /\ UNCHANGED <<mainVars, subscribed, dirty>>

Subscribe ==
  /\ window # "closed"
  /\ ~subscribed
  /\ subscribed' = TRUE
  /\ waiting' = 0
  /\ IF waiting # 0 THEN StartRun(waiting) ELSE UNCHANGED run
  /\ UNCHANGED <<mainVars, toRenderer, toMain, lock, dirty>>

\* The editors' barrier (prepareCanvasEditors); the canvas page's own barrier
\* then locks the document and starts to flush it.
EditorsPrepared(id) ==
  /\ window # "closed"
  /\ run[id].step = "editors"
  /\ \/ Finish(id, "cancel") /\ UNCHANGED lock
     \/ /\ ~run[id].retired
        /\ GoTo(id, "flushing")
        /\ lock' = id
        /\ UNCHANGED toMain
  /\ UNCHANGED <<mainVars, toRenderer, subscribed, waiting, dirty>>

\* flushAllWorkspaces returns once the latest document is the persisted one.
Flushed(id) ==
  /\ window # "closed"
  /\ run[id].step = "flushing"
  /\ dirty' = FALSE
  /\ Finish(id, IF lock = id THEN "ready" ELSE "cancel")
  /\ UNCHANGED <<mainVars, toRenderer, subscribed, waiting, lock>>

FlushFails(id) ==
  /\ window # "closed"
  /\ run[id].step = "flushing"
  /\ dirty
  /\ \/ lock # id /\ Finish(id, "cancel")
     \/ /\ lock = id
        /\ GoTo(id, "holding")
        /\ toMain' = Append(toMain, Hold(id))
  /\ UNCHANGED <<mainVars, toRenderer, subscribed, waiting, lock, dirty>>

PromptAnswered(id, force) ==
  /\ window # "closed"
  /\ run[id].step = "prompting"
  /\ \/ lock # id /\ Finish(id, "cancel") /\ UNCHANGED lock
     \/ lock = id /\ force /\ Finish(id, "force") /\ UNCHANGED lock
     \/ lock = id /\ ~force /\ Finish(id, "cancel") /\ lock' = 0
  /\ UNCHANGED <<mainVars, toRenderer, subscribed, waiting, dirty>>

\* Mutant: the document takes changes while an exit is prepared.
EditUnlocked ==
  /\ window # "closed"
  /\ subscribed
  /\ dirty' = TRUE
  /\ UNCHANGED <<mainVars, toRenderer, toMain, subscribed, waiting, run, lock>>

\* applyActiveDocumentUpdate
Edit ==
  /\ window # "closed"
  /\ subscribed
  /\ lock = 0
  /\ dirty' = TRUE
  /\ UNCHANGED <<mainVars, toRenderer, toMain, subscribed, waiting, run, lock>>

\* The debounced save of the canvas page.
Autosave ==
  /\ window # "closed"
  /\ dirty
  /\ dirty' = FALSE
  /\ UNCHANGED <<mainVars, toRenderer, toMain, subscribed, waiting, run, lock>>

-----------------------------------------------------------------------------
Init ==
  /\ pending = NoRequest
  /\ held = 0
  /\ replay = NoReplay
  /\ permitQuit = FALSE
  /\ permitClose = FALSE
  /\ timer = 0
  /\ dialog = 0
  /\ replays = {}
  /\ window = "open"
  /\ asked = 0
  /\ dispatching = TRUE
  /\ toRenderer = <<>>
  /\ toMain = <<>>
  /\ subscribed = FALSE
  /\ waiting = 0
  /\ run = [id \in Ids |-> [step |-> "none", retired |-> FALSE]]
  /\ lock = 0
  /\ dirty = FALSE

Choices == {"stay", "wait", "force"}

Main ==
  \/ HandleMessage
  \/ TimerFires
  \/ \E choice \in Choices : DialogAnswered(choice)
  \/ Unload

Barrier(id) ==
  \/ EditorsPrepared(id)
  \/ Flushed(id)
  \/ FlushFails(id)
  \/ \E force \in BOOLEAN : PromptAnswered(id, force)

Closed == window = "closed" /\ UNCHANGED vars

Next ==
  \/ UserCloses \/ UserQuits \/ Edit \/ Autosave
  \/ Main
  \/ Receive \/ Subscribe
  \/ \E id \in Ids : ReplayClose(id) \/ Barrier(id)
  \/ Closed

Spec == Init /\ [][Next]_vars

\* Queued callbacks and messages are run, the application mounts, and every
\* save and prompt comes to an end; when the user closes or edits is not said.
Fairness ==
  /\ WF_vars(HandleMessage) /\ WF_vars(Receive) /\ WF_vars(Subscribe) /\ WF_vars(Unload)
  /\ \A id \in Ids : WF_vars(Barrier(id)) /\ WF_vars(ReplayClose(id))

FairSpec == Spec /\ Fairness

-----------------------------------------------------------------------------
(* Properties.                                                             *)

Request == {NoRequest} \cup [id : Ids, intent : {"window", "quit"}]

FromMain ==
  [kind : {"requested", "cancelled", "reply"}, id : Ids, arg : {"none"}]
    \cup [kind : {"holdReply"}, id : Ids, arg : {"held", "refused"}]

FromRenderer ==
  [kind : {"hold"}, id : Ids, arg : {"none"}]
    \cup [kind : {"respond"}, id : Ids, arg : Decisions]

\* Every variable keeps its shape, and a held prompt belongs to the request in
\* progress.
TypeOK ==
  /\ pending \in Request
  /\ held \in {0, pending.id}
  /\ replay \in {NoReplay} \cup [id : Ids, intent : {"window", "quit"},
                                 decision : {"ready", "force"}]
  /\ {permitQuit, permitClose, dispatching, subscribed, dirty} \subseteq BOOLEAN
  /\ {timer, dialog, waiting, lock, asked} \subseteq {0} \cup Ids
  /\ replays \subseteq Ids
  /\ window \in {"open", "unloading", "closed"}
  /\ toRenderer \in Seq(FromMain) /\ toMain \in Seq(FromRenderer)
  /\ run \in [Ids -> [step : RunStep, retired : BOOLEAN]]

\* README.md, "Close-safe local persistence": the window goes away only with the
\* canvas saved, or after the user chose to force it. No edit slips in between
\* the flush and the close, and no answer to an older request closes the window.
ClosedMeansSaved ==
  [][window' = "closed" /\ window # "closed" => ~dirty \/ replay.decision = "force"]_vars

\* How far the request in progress has come, as the user sees it.
Phase ==
  IF window = "closed" THEN "closed"
  ELSE IF pending # NoRequest THEN "asked"
  ELSE IF replay = NoReplay THEN "open"
  ELSE IF window = "unloading" THEN "leaving" ELSE "granted"

Intent == IF pending # NoRequest THEN pending.intent ELSE replay.intent

Guarded == INSTANCE GuardedClose WITH
  phase    <- Phase,
  request  <- asked,
  intent   <- Intent,
  decision <- replay.decision,
  saved    <- ~dirty

\* The two processes carry out one guarded close: however messages, timers and
\* dialogs cross, the window goes away only in answer to a request of its own
\* decision, and a close that was cancelled or prevented leaves no way around the
\* next save ("without leaving a permanent escape hatch around renderer
\* persistence", close-lifecycle-state.ts).
ExitsAreGuarded == Guarded!Spec

\* The canvas never stays locked after an exit that did not happen: while it is
\* locked for a request, main still works on that request or its cancellation
\* is on the way. (exitPreparationRequestIdRef of SpatialCanvasPage.tsx.)
LockIsReleased ==
  lock # 0 /\ window # "closed" =>
    \/ pending.id = lock
    \/ replay.id = lock
    \/ \E i \in DOMAIN toRenderer : toRenderer[i] = Cancelled(lock)

\* The barriers of a request run once, however often main announces it: an
\* upgrade to quit that crosses the answer starts no second save or prompt.
BarriersRunOnce ==
  [][\A id \in Ids : run[id].step = "done" => run'[id].step = "done"]_vars

\* Every close request is decided, and none is left pending by crossed messages,
\* retired runs or a request that came before the application had mounted.
CloseIsDecided ==
  \A id \in Ids : pending.id = id ~> pending.id # id

\* README.md: "Window close and app quit additionally use a bounded
\* renderer/main-process save handshake". A pending request is watched by the
\* timer, a dialog or a prompt the user can answer. showCloseTimeoutDialog gives
\* up while the dialog of an older request is still on the screen, and nothing
\* arms the timer again.
NeverStranded ==
  pending # NoRequest /\ window # "closed" =>
    pending.id \in {timer, dialog, held}

\* knowledge-outbox-dispatcher.ts: "Jobs remain in the outbox and the next
\* interval retries the handoff." While the window is open and no close is in
\* progress, the dispatcher runs. before-quit stops it even when the quit is then
\* prevented and cancelled, and nothing starts it again.
DispatcherKeepsRunning ==
  window = "open" /\ pending = NoRequest /\ replay = NoReplay => dispatching

=============================================================================
