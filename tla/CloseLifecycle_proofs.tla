------------------------ MODULE CloseLifecycle_proofs ------------------------
(***************************************************************************)
(* Type correctness of the close lifecycle and the life of its permits, for *)
(* any number of requests.                                                 *)
(***************************************************************************)
EXTENDS CloseLifecycle, TLAPS

USE CloseAssumption

LEMMA IdsAreNumbers == \A i \in Ids : i \in Nat /\ i # 0
BY DEF Ids

LEMMA QueueTypes ==
  ASSUME NEW S, NEW s \in Seq(S), s # <<>>
  PROVE  Tail(s) \in Seq(S) /\ Head(s) \in S
OBVIOUS

LEMMA MessageTypes ==
  ASSUME NEW i \in Ids
  PROVE  /\ {Requested(i), Cancelled(i), Reply(i)} \subseteq FromMain
         /\ \A ok \in BOOLEAN : HoldReply(i, ok) \in FromMain
         /\ Hold(i) \in FromRenderer
         /\ \A decision \in Decisions : Respond(i, decision) \in FromRenderer
BY DEF Requested, Cancelled, Reply, HoldReply, Hold, Respond, FromMain, FromRenderer

LEMMA TypeInit == Init => TypeOK
<1> SUFFICES ASSUME Init PROVE TypeOK
  OBVIOUS
<1>1. /\ pending \in Request /\ held \in {0, pending.id} /\ replay \in {NoReplay}
      /\ {permitQuit, permitClose, dispatching, subscribed, dirty} \subseteq BOOLEAN
      /\ {timer, dialog, waiting, lock, asked} \subseteq {0} \cup Ids
      /\ replays \subseteq Ids /\ window \in {"open", "unloading", "closed"}
  BY DEF Init, Request
<1>2. toRenderer \in Seq(FromMain) /\ toMain \in Seq(FromRenderer)
  BY DEF Init
<1>3. run \in [Ids -> [step : RunStep, retired : BOOLEAN]]
  BY DEF Init, RunStep
<1> QED
  BY <1>1, <1>2, <1>3 DEF TypeOK

\* A request or its replay that is turned into a quit.
LEMMA UpgradeTypes ==
  ASSUME NEW r \in [id : Ids, intent : {"window", "quit"}],
         NEW p \in [id : Ids, intent : {"window", "quit"}, decision : {"ready", "force"}]
  PROVE  /\ [r EXCEPT !.intent = "quit"] \in [id : Ids, intent : {"window", "quit"}]
         /\ [r EXCEPT !.intent = "quit"].id = r.id
         /\ [p EXCEPT !.intent = "quit"] \in
              [id : Ids, intent : {"window", "quit"}, decision : {"ready", "force"}]
         /\ [p EXCEPT !.intent = "quit"].id = p.id
         /\ [r EXCEPT !.intent = "quit"].intent = "quit"
         /\ [p EXCEPT !.intent = "quit"].intent = "quit"
         /\ [p EXCEPT !.intent = "quit"].decision = p.decision
OBVIOUS

\* A close in progress, and one being replayed, are told from none by their id.
LEMMA RequestShape ==
  ASSUME TypeOK
  PROVE  /\ pending = NoRequest <=> pending.id = 0
         /\ pending # NoRequest => pending \in [id : Ids, intent : {"window", "quit"}]
         /\ replay = NoReplay <=> replay.id = 0
         /\ replay # NoReplay =>
              replay \in [id : Ids, intent : {"window", "quit"}, decision : {"ready", "force"}]
         /\ replay = NoReplay => replay.decision = "none"
BY IdsAreNumbers DEF TypeOK, Request, NoRequest, NoReplay

\* requestClose announces the request in progress (made a quit), leaves
\* everything as it is but for the intent of a replay, or begins a request.
LEMMA RequestCloseCases ==
  ASSUME TypeOK, NEW intent \in {"window", "quit"}, RequestClose(intent)
  PROVE  \/ /\ pending # NoRequest
            /\ pending' \in [id : Ids, intent : {"window", "quit"}] /\ pending'.id = pending.id
            /\ pending.intent = "window" /\ pending'.intent = "quit"
            /\ UNCHANGED <<held, replay, permitQuit, asked>>
            /\ timer' \in {timer, pending.id}
            /\ toRenderer' = Append(toRenderer, Requested(pending.id))
         \/ /\ replay # NoReplay
            /\ replay' \in [id : Ids, intent : {"window", "quit"}, decision : {"ready", "force"}]
            /\ replay'.id = replay.id /\ replay'.decision = replay.decision
            /\ replay.intent = "window" /\ replay'.intent = "quit"
            /\ permitQuit' \in BOOLEAN
            /\ UNCHANGED <<pending, held, asked, timer, toRenderer>>
         \/ UNCHANGED <<pending, held, replay, permitQuit, asked, timer, toRenderer>>
         \/ /\ pending = NoRequest /\ replay = NoReplay
            /\ asked' = asked + 1 /\ asked' \in Ids
            /\ pending' \in [id : Ids, intent : {"window", "quit"}] /\ pending'.id = asked'
            /\ held' = 0 /\ timer' = asked'
            /\ UNCHANGED <<replay, permitQuit>>
            /\ toRenderer' = Append(toRenderer, Requested(asked'))
<1>1. CASE pending # NoRequest /\ pending' = [pending EXCEPT !.intent = "quit"] /\ Announce(pending)
           /\ pending.intent = "window" /\ UNCHANGED <<held, replay, permitQuit, asked>>
  BY <1>1, RequestShape, UpgradeTypes DEF Announce
<1>2. CASE UNCHANGED <<pending, held, replay, permitQuit, asked, timer, toRenderer>>
  BY <1>2
<1>3. CASE /\ replay # NoReplay /\ replay.intent = "window"
           /\ replay' = [replay EXCEPT !.intent = "quit"] /\ permitQuit' = TRUE
           /\ UNCHANGED <<pending, held, asked, timer, toRenderer>>
  BY <1>3, RequestShape, UpgradeTypes
<1>4. CASE /\ pending = NoRequest /\ replay = NoReplay
           /\ asked < MaxRequests
           /\ asked' = asked + 1
           /\ pending' = [id |-> asked + 1, intent |-> intent]
           /\ held' = 0
           /\ UNCHANGED <<replay, permitQuit>>
           /\ Announce(pending')
  <2>1. asked' \in Ids
    BY <1>4 DEF TypeOK, Ids
  <2> QED
    BY <1>4, <2>1, IdsAreNumbers DEF Announce
<1> QED
  BY <1>1, <1>2, <1>3, <1>4, Zenon DEF RequestClose

\* What a close or quit event comes to: a request to the renderer, a permit that
\* lets the event through, or a replay that is out of date.
Asks ==
  /\ \E intent \in {"window", "quit"} : RequestClose(intent)
  /\ UNCHANGED <<permitClose, window>>

Passes ==
  /\ permitClose \/ permitQuit
  /\ permitClose' = FALSE
  /\ permitQuit' \in {permitQuit, FALSE}
  /\ window' = "unloading"
  /\ UNCHANGED <<pending, held, replay, asked, timer, toRenderer>>

Stale == UNCHANGED <<stateVars, timer, window, toRenderer>>

Event == UserCloses \/ UserQuits \/ \E id \in Ids : ReplayClose(id)

LEMMA EventCases ==
  ASSUME Event, TypeOK
  PROVE  /\ window # "closed"
         /\ Asks \/ Passes \/ Stale
         /\ replays' \subseteq replays /\ dispatching' \in BOOLEAN
         /\ UNCHANGED <<dialog, toMain, rendererVars>>
<1>1. CloseEvent => Asks \/ Passes
  BY DEF CloseEvent, Asks, Passes
<1>2. QuitEvent => (Asks \/ Passes) /\ dispatching' \in BOOLEAN
  BY DEF QuitEvent, Asks, Passes
<1>3. dispatching \in BOOLEAN
  BY DEF TypeOK
<1>4. CASE UserCloses
  BY <1>1, <1>3, <1>4 DEF UserCloses
<1>5. CASE UserQuits
  BY <1>2, <1>5 DEF UserQuits
<1>6. ASSUME NEW id \in Ids, ReplayClose(id) PROVE
         /\ window # "closed"
         /\ Asks \/ Passes \/ Stale
         /\ replays' \subseteq replays /\ dispatching' \in BOOLEAN
         /\ UNCHANGED <<dialog, toMain, rendererVars>>
  BY <1>1, <1>2, <1>3, <1>6 DEF ReplayClose, Stale
<1> QED
  BY <1>4, <1>5, <1>6 DEF Event

LEMMA EventTypes ==
  ASSUME TypeOK, Event
  PROVE  TypeOK'
<1> DEFINE Replays == {NoReplay} \cup [id : Ids, intent : {"window", "quit"},
                                       decision : {"ready", "force"}]
<1>1. CASE Passes \/ Stale
  BY <1>1, EventCases DEF Passes, Stale, stateVars, TypeOK, rendererVars
<1>2. ASSUME NEW intent \in {"window", "quit"}, RequestClose(intent),
             UNCHANGED <<permitClose, window>>
      PROVE  TypeOK'
  <2>1. /\ pending \in Request /\ replay \in Replays /\ held \in {0, pending.id}
        /\ timer \in {0} \cup Ids /\ asked \in {0} \cup Ids /\ permitQuit \in BOOLEAN
        /\ toRenderer \in Seq(FromMain)
    BY DEF TypeOK
  <2>2. \A i \in Ids : Append(toRenderer, Requested(i)) \in Seq(FromMain)
    BY <2>1, MessageTypes
  <2>3. pending # NoRequest => pending.id \in Ids
    BY RequestShape
  <2>4. /\ pending' \in Request /\ held' \in {0, pending'.id} /\ replay' \in Replays
        /\ permitQuit' \in BOOLEAN /\ timer' \in {0} \cup Ids /\ asked' \in {0} \cup Ids
        /\ toRenderer' \in Seq(FromMain)
    BY <1>2, <2>1, <2>2, <2>3, RequestCloseCases DEF Request
  <2> QED
    BY <1>2, <2>4, EventCases DEF TypeOK, rendererVars
<1> QED
  BY <1>1, <1>2, EventCases DEF Asks

-----------------------------------------------------------------------------
(* Messages and decisions in the main process.                             *)

\* The request in progress is over, and a close is let through for it.
LetsThrough(i, decision) ==
  /\ pending.id = i
  /\ pending' = NoRequest /\ held' = 0
  /\ replay' \in [id : Ids, intent : {"window", "quit"}, decision : {"ready", "force"}]
  /\ replay'.id = i /\ replay'.decision = decision /\ replay'.intent = pending.intent
  /\ permitClose' = TRUE /\ permitQuit' \in BOOLEAN
  /\ replays' = replays \cup {i}

\* The request in progress is over, and nothing is closed.
GivesUp(i) ==
  /\ pending.id = i
  /\ pending' = NoRequest /\ held' = 0
  /\ replay' = NoReplay /\ permitClose' = FALSE /\ permitQuit' = FALSE
  /\ UNCHANGED replays

\* What a message from the renderer about request i, the head of toMain, does.
Answers(i) ==
  \/ /\ Head(toMain) = Hold(i)
     /\ \E ok \in BOOLEAN : toRenderer' = Append(toRenderer, HoldReply(i, ok))
     /\ held' \in {held, pending.id} /\ timer' \in {timer, 0}
     /\ UNCHANGED <<pending, replay, permitQuit, permitClose, replays>>
  \/ /\ \E decision \in Decisions : Head(toMain) = Respond(i, decision)
     /\ pending.id # i
     /\ toRenderer' = Append(toRenderer, Reply(i))
     /\ UNCHANGED <<pending, held, replay, permitQuit, permitClose, replays, timer>>
  \/ /\ \E decision \in {"ready", "force"} :
          Head(toMain) = Respond(i, decision) /\ LetsThrough(i, decision)
     /\ toRenderer' = Append(toRenderer, Reply(i)) /\ timer' = 0
  \/ /\ Head(toMain) = Respond(i, "cancel") /\ GivesUp(i)
     /\ toRenderer' = Append(Append(toRenderer, Cancelled(i)), Reply(i)) /\ timer' = 0

LEMMA ResolveCases ==
  ASSUME TypeOK, pending # NoRequest, NEW decision \in Decisions, Resolve(decision)
  PROVE  IF decision = "cancel" THEN GivesUp(pending.id) ELSE LetsThrough(pending.id, decision)
<1>1. pending \in [id : Ids, intent : {"window", "quit"}]
  BY RequestShape
<1>2. CASE decision = "cancel"
  BY <1>2, Zenon DEF Resolve, ClearReplay, GivesUp
<1>3. CASE decision # "cancel"
  <2> DEFINE replayed == [id |-> pending.id, intent |-> pending.intent, decision |-> decision]
  <2>1. /\ replayed \in [id : Ids, intent : {"window", "quit"}, decision : {"ready", "force"}]
        /\ replayed.id = pending.id /\ replayed.decision = decision
        /\ replayed.intent = pending.intent
    BY <1>1, <1>3 DEF Decisions
  <2>2. permitQuit' \in BOOLEAN
    BY <1>3 DEF Resolve
  <2> QED
    BY <1>3, <2>1, <2>2, Zenon DEF Resolve, LetsThrough
<1> QED
  BY <1>2, <1>3

LEMMA HandleMessageCases ==
  ASSUME TypeOK, HandleMessage
  PROVE  /\ toMain # <<>> /\ toMain' = Tail(toMain)
         /\ \E i \in Ids : Answers(i)
<1>1. toMain # <<>> /\ toMain' = Tail(toMain) /\ Head(toMain) \in FromRenderer
  BY DEF HandleMessage, TypeOK
<1>2. CASE Head(toMain).kind = "hold"
  <2>1. PICK i \in Ids : Head(toMain) = Hold(i) /\ Head(toMain).id = i
    BY <1>1, <1>2 DEF FromRenderer, Hold
  <2>2. HandleHold(i)
    BY <1>2, <2>1 DEF HandleMessage
  <2>3. Answers(i)
    BY <2>1, <2>2 DEF HandleHold, Answers
  <2> QED
    BY <1>1, <2>3
<1>3. CASE Head(toMain).kind = "respond"
  <2>1. PICK i \in Ids, decision \in Decisions :
          Head(toMain) = Respond(i, decision) /\ Head(toMain).id = i /\ Head(toMain).arg = decision
    BY <1>1, <1>3 DEF FromRenderer, Respond
  <2>2. HandleResponse(i, decision)
    BY <1>3, <2>1 DEF HandleMessage
  <2>3. ASSUME pending.id # i PROVE Answers(i)
    BY <2>1, <2>2, <2>3, Zenon DEF HandleResponse, Answers
  <2>4. ASSUME pending.id = i PROVE Answers(i)
    <3>1. pending # NoRequest
      BY <2>4, RequestShape, IdsAreNumbers
    <3>2. IF decision = "cancel" THEN GivesUp(i) ELSE LetsThrough(i, decision)
      BY <2>2, <2>4, <3>1, ResolveCases DEF HandleResponse
    <3>3. decision # "cancel" => decision \in {"ready", "force"}
      BY DEF Decisions
    <3> QED
      BY <2>1, <2>2, <2>4, <3>2, <3>3, Zenon DEF HandleResponse, Answers
  <2> QED
    BY <1>1, <2>3, <2>4
<1> QED
  BY <1>1, <1>2, <1>3 DEF FromRenderer

LEMMA HandleMessageTypes ==
  ASSUME TypeOK, HandleMessage
  PROVE  TypeOK'
<1>1. PICK i \in Ids : Answers(i)
  BY HandleMessageCases
<1>2. toMain' \in Seq(FromRenderer)
  <2>1. toMain \in Seq(FromRenderer) /\ toMain # <<>> /\ toMain' = Tail(toMain)
    BY HandleMessageCases DEF TypeOK
  <2> QED
    BY <2>1, QueueTypes
<1>3. /\ Append(toRenderer, Reply(i)) \in Seq(FromMain)
      /\ Append(Append(toRenderer, Cancelled(i)), Reply(i)) \in Seq(FromMain)
      /\ \A ok \in BOOLEAN : Append(toRenderer, HoldReply(i, ok)) \in Seq(FromMain)
  <2>1. /\ toRenderer \in Seq(FromMain) /\ Reply(i) \in FromMain /\ Cancelled(i) \in FromMain
        /\ \A ok \in BOOLEAN : HoldReply(i, ok) \in FromMain
    BY MessageTypes DEF TypeOK
  <2> QED
    BY <2>1
<1>4. toRenderer' \in Seq(FromMain)
  BY <1>1, <1>3 DEF Answers
<1>5. held' \in {0, pending'.id}
  BY <1>1 DEF Answers, LetsThrough, GivesUp, NoRequest, TypeOK
<1>6. /\ pending' \in Request
      /\ replay' \in {NoReplay} \cup [id : Ids, intent : {"window", "quit"},
                                      decision : {"ready", "force"}]
      /\ permitQuit' \in BOOLEAN /\ permitClose' \in BOOLEAN
      /\ timer' \in {0, timer} /\ replays' \in {replays, replays \cup {i}}
  BY <1>1 DEF Answers, LetsThrough, GivesUp, TypeOK, Request
<1> QED
  BY <1>2, <1>4, <1>5, <1>6 DEF HandleMessage, TypeOK, rendererVars

LEMMA TimerTypes ==
  ASSUME TypeOK, TimerFires
  PROVE  TypeOK'
BY DEF TimerFires, TypeOK, stateVars, rendererVars

\* The dialog decides about its own request or about none.
LEMMA DialogCases ==
  ASSUME TypeOK, NEW choice \in Choices, DialogAnswered(choice)
  PROVE  \/ timer' \in {timer, dialog} /\ UNCHANGED <<stateVars, replays, toRenderer>>
         \/ /\ LetsThrough(dialog, "force") /\ dialog \in Ids
            /\ UNCHANGED <<asked, timer, toRenderer>>
         \/ /\ GivesUp(dialog) /\ dialog \in Ids
            /\ toRenderer' = Append(toRenderer, Cancelled(dialog))
            /\ UNCHANGED <<asked, timer>>
<1>1. pending.id = dialog => pending # NoRequest /\ dialog \in Ids
  BY RequestShape, IdsAreNumbers DEF DialogAnswered, TypeOK
<1>2. CASE pending.id = dialog /\ Resolve("force") /\ UNCHANGED <<asked, timer, toRenderer>>
  BY <1>1, <1>2, ResolveCases DEF Decisions
<1>3. CASE pending.id = dialog /\ Stay /\ UNCHANGED <<asked, timer, replays>>
  BY <1>1, <1>3 DEF Stay, ClearReplay, GivesUp
<1> QED
  BY <1>2, <1>3 DEF DialogAnswered

LEMMA DialogTypes ==
  ASSUME TypeOK, NEW choice \in Choices, DialogAnswered(choice)
  PROVE  TypeOK'
<1>1. dialog \in Ids => Append(toRenderer, Cancelled(dialog)) \in Seq(FromMain)
  BY MessageTypes DEF TypeOK
<1>2. toRenderer' \in Seq(FromMain) /\ held' \in {0, pending'.id} /\ pending' \in Request
  BY <1>1, DialogCases DEF TypeOK, LetsThrough, GivesUp, stateVars, Request
<1> QED
  BY <1>2, DialogCases
  DEF DialogAnswered, LetsThrough, GivesUp, TypeOK, stateVars, rendererVars

LEMMA UnloadTypes ==
  ASSUME TypeOK, Unload
  PROVE  TypeOK'
<1>1. replay # NoReplay => Append(toRenderer, Cancelled(replay.id)) \in Seq(FromMain)
  BY RequestShape, MessageTypes DEF TypeOK
<1>2. toRenderer' \in Seq(FromMain) /\ held' \in {0, pending'.id} /\ pending' \in Request
  BY <1>1 DEF Unload, TypeOK, Request
<1> QED
  BY <1>2 DEF Unload, ClearReplay, TypeOK, rendererVars

-----------------------------------------------------------------------------
(* Messages and barriers in the renderer.                                  *)

Runs == [Ids -> [step : RunStep, retired : BOOLEAN]]

\* A run that takes a step, starts or is retired changes in that alone.
LEMMA GoToEffect ==
  ASSUME TypeOK, NEW i \in Ids, NEW step \in RunStep, GoTo(i, step)
  PROVE  /\ run' \in Runs
         /\ run'[i].step = step /\ run'[i].retired = run[i].retired
         /\ \A k \in Ids : k # i => run'[k] = run[k]
BY DEF TypeOK, GoTo, Runs

LEMMA StartEffect ==
  ASSUME TypeOK, NEW i \in Ids, StartRun(i)
  PROVE  /\ run' \in Runs
         /\ run'[i].step = "editors" /\ run'[i].retired = FALSE
         /\ \A k \in Ids : k # i => run'[k] = run[k]
BY DEF TypeOK, StartRun, Runs, RunStep

LEMMA CancelEffect ==
  ASSUME TypeOK, NEW i \in Ids, TakeCancellation(i)
  PROVE  /\ run' \in Runs
         /\ run'[i].step = run[i].step
         /\ run'[i].retired = (run[i].retired \/ Active(i))
         /\ \A k \in Ids : k # i => run'[k] = run[k]
         /\ waiting' = IF waiting = i THEN 0 ELSE waiting
         /\ lock' = IF lock = i THEN 0 ELSE lock
<1>1. run[i].retired \in BOOLEAN /\ run \in Runs
  BY DEF TypeOK, Runs
<1>2. CASE Active(i)
  BY <1>1, <1>2 DEF TakeCancellation, Runs
<1>3. CASE ~Active(i)
  BY <1>1, <1>3 DEF TakeCancellation
<1> QED
  BY <1>2, <1>3

LEMMA FinishEffect ==
  ASSUME TypeOK, NEW i \in Ids, NEW decision \in Decisions, Finish(i, decision)
  PROVE  /\ run' \in Runs
         /\ run'[i].retired = run[i].retired
         /\ \A k \in Ids : k # i => run'[k] = run[k]
         /\ \/ run[i].retired /\ run'[i].step = "done" /\ UNCHANGED toMain
            \/ /\ ~run[i].retired /\ run'[i].step = "responding"
               /\ toMain' = Append(toMain, Respond(i, decision))
         /\ toMain' \in Seq(FromRenderer)
<1>1. toMain \in Seq(FromRenderer) /\ Respond(i, decision) \in FromRenderer
  BY MessageTypes DEF TypeOK
<1>2. {"done", "responding"} \subseteq RunStep
  BY DEF RunStep
<1> QED
  BY <1>1, <1>2, GoToEffect DEF Finish

LEMMA ReceiveCases ==
  ASSUME TypeOK, Receive
  PROVE  /\ toRenderer # <<>> /\ toRenderer' = Tail(toRenderer)
         /\ UNCHANGED <<mainVars, subscribed, dirty>>
         /\ \E i \in Ids :
              \/ Head(toRenderer) = Requested(i) /\ TakeRequest(i) /\ UNCHANGED <<toMain, lock>>
              \/ Head(toRenderer) = Cancelled(i) /\ TakeCancellation(i) /\ UNCHANGED toMain
              \/ /\ \E ok \in BOOLEAN : Head(toRenderer) = HoldReply(i, ok)
                 /\ TakeHoldReply(i, Head(toRenderer).arg)
                 /\ UNCHANGED <<waiting, lock>>
              \/ /\ Head(toRenderer) = Reply(i)
                 /\ GoTo(i, "done")
                 /\ UNCHANGED <<toMain, waiting, lock>>
<1>1. toRenderer \in Seq(FromMain) /\ toRenderer # <<>> /\ toRenderer' = Tail(toRenderer)
  BY DEF Receive, TypeOK
<1>2. PICK i \in Ids : Head(toRenderer).id = i
  BY <1>1, QueueTypes DEF FromMain
<1>3. \/ Head(toRenderer).kind = "requested" /\ Head(toRenderer) = Requested(i)
      \/ Head(toRenderer).kind = "cancelled" /\ Head(toRenderer) = Cancelled(i)
      \/ /\ Head(toRenderer).kind = "holdReply"
         /\ \E ok \in BOOLEAN : Head(toRenderer) = HoldReply(i, ok)
      \/ Head(toRenderer).kind = "reply" /\ Head(toRenderer) = Reply(i)
  <2>1. Head(toRenderer) \in FromMain
    BY <1>1, QueueTypes
  <2>2. CASE Head(toRenderer) \in
               [kind : {"requested", "cancelled", "reply"}, id : Ids, arg : {"none"}]
    BY <1>2, <2>2 DEF Requested, Cancelled, Reply
  <2>3. CASE Head(toRenderer) \in [kind : {"holdReply"}, id : Ids, arg : {"held", "refused"}]
    <3>1. Head(toRenderer) \in {HoldReply(i, TRUE), HoldReply(i, FALSE)}
      BY <1>2, <2>3 DEF HoldReply
    <3> QED
      BY <2>3, <3>1
  <2> QED
    BY <2>1, <2>2, <2>3 DEF FromMain
<1> QED
  BY <1>1, <1>2, <1>3 DEF Receive

LEMMA ReceiveTypes ==
  ASSUME TypeOK, Receive
  PROVE  TypeOK'
<1>1. toRenderer' \in Seq(FromMain)
  <2>1. toRenderer \in Seq(FromMain)
    BY DEF TypeOK
  <2> QED
    BY <2>1, ReceiveCases, QueueTypes
<1>2. PICK i \in Ids :
              \/ TakeRequest(i) /\ UNCHANGED <<toMain, lock>>
              \/ TakeCancellation(i) /\ UNCHANGED toMain
              \/ TakeHoldReply(i, Head(toRenderer).arg) /\ UNCHANGED <<waiting, lock>>
              \/ GoTo(i, "done") /\ UNCHANGED <<toMain, waiting, lock>>
  BY ReceiveCases
<1>3. /\ run' \in Runs
      /\ toMain' \in Seq(FromRenderer)
      /\ {waiting', lock'} \subseteq {0} \cup Ids
  <2>1. CASE TakeHoldReply(i, Head(toRenderer).arg) /\ UNCHANGED <<waiting, lock>>
    <3>1. "cancel" \in Decisions /\ "prompting" \in RunStep
      BY DEF Decisions, RunStep
    <3> QED
      BY <2>1, <3>1, GoToEffect, FinishEffect DEF TakeHoldReply, TypeOK
  <2>2. CASE TakeRequest(i) /\ UNCHANGED <<toMain, lock>>
    <3>1. run \in Runs /\ toMain \in Seq(FromRenderer) /\ {waiting, lock} \subseteq {0} \cup Ids
      BY DEF TypeOK, Runs
    <3> QED
      BY <2>2, <3>1, StartEffect DEF TakeRequest
  <2>3. CASE TakeCancellation(i) /\ UNCHANGED toMain
    BY <2>3, CancelEffect, SMTT(30) DEF TypeOK
  <2>4. CASE GoTo(i, "done") /\ UNCHANGED <<toMain, waiting, lock>>
    <3>1. "done" \in RunStep
      BY DEF RunStep
    <3> QED
      BY <2>4, <3>1, GoToEffect DEF TypeOK
  <2> QED
    BY <1>2, <2>1, <2>2, <2>3, <2>4
<1> QED
  BY <1>1, <1>3, ReceiveCases DEF TypeOK, mainVars, stateVars, Runs

LEMMA BarrierTypes ==
  ASSUME TypeOK, NEW i \in Ids, Barrier(i)
  PROVE  TypeOK'
<1>1. /\ run' \in Runs
      /\ toMain' \in Seq(FromRenderer)
      /\ lock' \in {0} \cup Ids /\ dirty' \in BOOLEAN
  <2>1. toMain \in Seq(FromRenderer) /\ Hold(i) \in FromRenderer /\ lock \in {0} \cup Ids
        /\ dirty \in BOOLEAN
    BY MessageTypes DEF TypeOK
  <2>2. Decisions = {"ready", "force", "cancel"} /\ {"flushing", "holding"} \subseteq RunStep
    BY DEF Decisions, RunStep
  <2>3. CASE EditorsPrepared(i)
    BY <2>1, <2>2, <2>3, GoToEffect, FinishEffect DEF EditorsPrepared
  <2>4. CASE Flushed(i)
    BY <2>1, <2>2, <2>4, FinishEffect DEF Flushed
  <2>5. CASE FlushFails(i)
    BY <2>1, <2>2, <2>5, GoToEffect, FinishEffect DEF FlushFails
  <2>6. ASSUME NEW force \in BOOLEAN, PromptAnswered(i, force) 
        PROVE  /\ run' \in Runs /\ toMain' \in Seq(FromRenderer)
               /\ lock' \in {0} \cup Ids /\ dirty' \in BOOLEAN
    BY <2>1, <2>2, <2>6, FinishEffect DEF PromptAnswered
  <2> QED
    BY <2>3, <2>4, <2>5, <2>6 DEF Barrier
<1>2. UNCHANGED <<mainVars, toRenderer, subscribed, waiting>>
  BY DEF Barrier, EditorsPrepared, Flushed, FlushFails, PromptAnswered
<1> QED
  BY <1>1, <1>2 DEF TypeOK, mainVars, stateVars, Runs

LEMMA DocumentTypes ==
  ASSUME TypeOK, Subscribe \/ Edit \/ Autosave
  PROVE  TypeOK'
<1>1. waiting # 0 => waiting \in Ids
  BY DEF TypeOK
<1>2. run' \in Runs
  BY <1>1, StartEffect DEF Subscribe, Edit, Autosave, TypeOK, Runs
<1> QED
  BY <1>2 DEF Subscribe, Edit, Autosave, TypeOK, mainVars, stateVars, Runs

LEMMA TypeNext == TypeOK /\ [Next]_vars => TypeOK'
<1> SUFFICES ASSUME TypeOK, [Next]_vars PROVE TypeOK'
  OBVIOUS
<1>1. CASE UNCHANGED vars
  BY <1>1 DEF TypeOK, vars, mainVars, stateVars, rendererVars
<1>2. CASE Next
  BY <1>1, <1>2, EventTypes, HandleMessageTypes, TimerTypes, DialogTypes, UnloadTypes,
     ReceiveTypes, BarrierTypes, DocumentTypes
  DEF Next, Event, Main, Closed
<1> QED
  BY <1>1, <1>2

\* Every variable of the two processes and both channels keeps its shape, for
\* any number of close requests.
THEOREM TypeCorrect == Spec => []TypeOK
BY TypeInit, TypeNext, PTL DEF Spec
=============================================================================
