------------------------- MODULE CloseSafety_proofs -------------------------
(***************************************************************************)
(* The window goes away only with the canvas saved or by force, and the    *)
(* canvas is unlocked after an exit that did not happen, for any number of *)
(* close requests and any interleaving of the two processes. The invariant *)
(* speaks about the messages that are still on their way.                  *)
(***************************************************************************)
EXTENDS CloseLifecycle_proofs

USE CloseAssumption

-----------------------------------------------------------------------------
(* Queues of messages.                                                     *)

In(m, queue) == \E p \in DOMAIN queue : queue[p] = m

\* No message m may come before a message n of the main process about an
\* earlier request, about the same one once that is cancelled, or, when n asks
\* the renderer to save, once that was answered.
Follows(m, n) ==
  n.kind \in {"requested", "cancelled"} =>
    /\ m.id <= n.id
    /\ m.kind = "cancelled" => m.id # n.id
    /\ m.kind = "reply" /\ n.kind = "requested" => m.id # n.id

Ordered(queue) == \A p, q \in DOMAIN queue : p < q => Follows(queue[p], queue[q])

\* Messages of the hold of request i, of which there is at most one.
IsHold(m, i) == m.kind \in {"hold", "holdReply"} /\ m.id = i

NoHold(i, queue) == \A p \in DOMAIN queue : ~IsHold(queue[p], i)

OneHold(i, queue) ==
  \A p, q \in DOMAIN queue : IsHold(queue[p], i) /\ IsHold(queue[q], i) => p = q

LEMMA AppendShape ==
  ASSUME NEW S, NEW s \in Seq(S), NEW m \in S
  PROVE  /\ DOMAIN s = 1..Len(s) /\ Len(s) \in Nat
         /\ DOMAIN Append(s, m) = 1..(Len(s) + 1)
         /\ \A p \in 1..Len(s) : Append(s, m)[p] = s[p]
         /\ Append(s, m)[Len(s) + 1] = m
OBVIOUS

LEMMA TailShape ==
  ASSUME NEW S, NEW s \in Seq(S), s # <<>>
  PROVE  /\ DOMAIN s = 1..Len(s) /\ Len(s) \in Nat \ {0}
         /\ DOMAIN Tail(s) = 1..(Len(s) - 1)
         /\ \A p \in 1..(Len(s) - 1) : Tail(s)[p] = s[p + 1]
         /\ Head(s) = s[1]
OBVIOUS

\* What a queue holds after one more message.
LEMMA AppendMessages ==
  ASSUME NEW S, NEW s \in Seq(S), NEW m \in S
  PROVE  /\ \A x : In(x, Append(s, m)) <=> In(x, s) \/ x = m
         /\ Ordered(s) /\ (\A x \in S : In(x, s) => Follows(x, m)) => Ordered(Append(s, m))
         /\ \A i : /\ NoHold(i, Append(s, m)) <=> NoHold(i, s) /\ ~IsHold(m, i)
                   /\ NoHold(i, s) => OneHold(i, Append(s, m))
                   /\ OneHold(i, s) /\ ~IsHold(m, i) => OneHold(i, Append(s, m))
<1>1. \A x : In(x, Append(s, m)) <=> In(x, s) \/ x = m
  BY AppendShape DEF In
<1>2. ASSUME Ordered(s), \A x \in S : In(x, s) => Follows(x, m) PROVE Ordered(Append(s, m))
  <2> SUFFICES ASSUME NEW p \in 1..(Len(s) + 1), NEW q \in 1..(Len(s) + 1), p < q
               PROVE  Follows(Append(s, m)[p], Append(s, m)[q])
    BY AppendShape DEF Ordered
  <2>1. p \in 1..Len(s) /\ Append(s, m)[p] = s[p] /\ s[p] \in S /\ In(s[p], s)
    BY AppendShape DEF In
  <2>2. CASE q \in 1..Len(s)
    BY <1>2, <2>1, <2>2, AppendShape DEF Ordered
  <2>3. CASE q = Len(s) + 1
    BY <1>2, <2>1, <2>3, AppendShape
  <2> QED
    BY <2>2, <2>3, AppendShape
<1>3. ASSUME NEW i PROVE
        /\ NoHold(i, Append(s, m)) <=> NoHold(i, s) /\ ~IsHold(m, i)
        /\ NoHold(i, s) => OneHold(i, Append(s, m))
        /\ OneHold(i, s) /\ ~IsHold(m, i) => OneHold(i, Append(s, m))
  BY AppendShape DEF NoHold, OneHold
<1> QED
  BY <1>1, <1>2, <1>3

\* What a queue holds after its head was taken.
LEMMA TailMessages ==
  ASSUME NEW S, NEW s \in Seq(S), s # <<>>
  PROVE  /\ \A x : In(x, s) <=> x = Head(s) \/ In(x, Tail(s))
         /\ Ordered(s) => Ordered(Tail(s)) /\ \A x : In(x, Tail(s)) => Follows(Head(s), x)
         /\ \A i : /\ NoHold(i, s) => NoHold(i, Tail(s))
                   /\ OneHold(i, s) => OneHold(i, Tail(s))
                   /\ OneHold(i, s) /\ IsHold(Head(s), i) => NoHold(i, Tail(s))
                   /\ NoHold(i, s) => ~IsHold(Head(s), i)
<1>1. ASSUME NEW x PROVE In(x, s) <=> x = Head(s) \/ In(x, Tail(s))
  <2>1. In(x, Tail(s)) => In(x, s)
    BY TailShape DEF In
  <2>2. In(Head(s), s)
    BY TailShape DEF In
  <2>3. ASSUME NEW p \in DOMAIN s, s[p] = x PROVE x = Head(s) \/ In(x, Tail(s))
    <3>1. p = 1 \/ (p - 1 \in 1..(Len(s) - 1) /\ Tail(s)[p - 1] = s[p])
      BY TailShape
    <3> QED
      BY <2>3, <3>1, TailShape DEF In
  <2> QED
    BY <2>1, <2>2, <2>3 DEF In
<1>2. ASSUME Ordered(s) PROVE Ordered(Tail(s)) /\ \A x : In(x, Tail(s)) => Follows(Head(s), x)
  <2>1. \A p, q \in 1..(Len(s) - 1) : p < q => Follows(Tail(s)[p], Tail(s)[q])
    BY <1>2, TailShape DEF Ordered
  <2>2. \A p \in 1..(Len(s) - 1) : Follows(Head(s), Tail(s)[p])
    BY <1>2, TailShape DEF Ordered
  <2> QED
    BY <2>1, <2>2, TailShape DEF Ordered, In
<1>3. ASSUME NEW i PROVE
        /\ NoHold(i, s) => NoHold(i, Tail(s))
        /\ OneHold(i, s) => OneHold(i, Tail(s))
        /\ OneHold(i, s) /\ IsHold(Head(s), i) => NoHold(i, Tail(s))
        /\ NoHold(i, s) => ~IsHold(Head(s), i)
  <2>1. \A p \in 1..(Len(s) - 1) : p + 1 \in DOMAIN s /\ Tail(s)[p] = s[p + 1] /\ p + 1 # 1
    BY TailShape
  <2>2. 1 \in DOMAIN s /\ Head(s) = s[1] /\ DOMAIN Tail(s) = 1..(Len(s) - 1)
    BY TailShape
  <2> QED
    BY <2>1, <2>2 DEF NoHold, OneHold
<1> QED
  BY <1>1, <1>2, <1>3

\* Messages are told apart by their kind and request.
LEMMA Distinct ==
  /\ \A i : /\ Requested(i).kind = "requested" /\ Requested(i).id = i
            /\ Cancelled(i).kind = "cancelled" /\ Cancelled(i).id = i
            /\ Reply(i).kind = "reply" /\ Reply(i).id = i
            /\ Hold(i).kind = "hold" /\ Hold(i).id = i
  /\ \A i : \A ok \in BOOLEAN : HoldReply(i, ok).kind = "holdReply" /\ HoldReply(i, ok).id = i
  /\ \A i, d : Respond(i, d).kind = "respond" /\ Respond(i, d).id = i /\ Respond(i, d).arg = d
BY DEF Requested, Cancelled, Reply, Hold, HoldReply, Respond

-----------------------------------------------------------------------------
(* The invariant.                                                          *)

Live(i) == pending.id = i \/ replay.id = i

Seen(i) == run[i].step # "none" \/ waiting = i

Answered(i) == run[i].step \in {"responding", "done"}

Ended(i) == run[i].retired \/ run[i].step = "done"

\* Main works on the newest request, or replays it.
OneRequest ==
  /\ pending.id = 0 \/ replay.id = 0
  /\ pending.id \in {0, asked} /\ replay.id \in {0, asked}

\* A cancellation, or an answer's receipt, is on its way only for a request
\* that is over, or no longer pending.
Sent ==
  /\ Ordered(toRenderer)
  /\ \A m \in FromMain : In(m, toRenderer) => m.id <= asked
  /\ \A i \in Ids : In(Cancelled(i), toRenderer) => ~Live(i)
  /\ \A i \in Ids : In(Reply(i), toRenderer) => pending.id # i

\* Once the renderer has seen a request, nothing older is on its way.
Received ==
  /\ lock <= asked
  /\ \A i \in Ids : Seen(i) => i <= asked
  /\ \A i \in Ids : run[i].step = "none" => ~run[i].retired
  /\ \A i, j \in Ids :
       Seen(i) /\ (In(Requested(j), toRenderer) \/ In(Cancelled(j), toRenderer)) => i <= j
  /\ subscribed => waiting = 0
  /\ ~subscribed => \A i \in Ids : run[i].step = "none"

\* An answered run stays so, and one that ended is not asked for again.
RunsOnce ==
  \A i \in Ids :
    /\ \A d \in Decisions : In(Respond(i, d), toMain) => Answered(i)
    /\ In(Reply(i), toRenderer) => Answered(i)
    /\ Ended(i) => pending.id # i /\ waiting # i /\ ~In(Requested(i), toRenderer)

\* A run waits for the answer to one hold.
HoldsOnce ==
  \A i \in Ids :
    /\ run[i].step # "holding" => NoHold(i, toMain) /\ NoHold(i, toRenderer)
    /\ NoHold(i, toMain) \/ NoHold(i, toRenderer)
    /\ OneHold(i, toMain) /\ OneHold(i, toRenderer)

\* The renderer does nothing more for request i.
Quiet(i) ==
  /\ lock # i /\ waiting # i
  /\ Active(i) => run[i].retired
  /\ ~In(Requested(i), toRenderer)

OverIsQuiet ==
  \A i \in Ids : i <= asked /\ ~Live(i) => Quiet(i) \/ In(Cancelled(i), toRenderer)

\* An answer "ready" that main will accept, or has accepted, holds the canvas
\* locked and saved.
ReadyIsSaved ==
  /\ \A i \in Ids : pending.id = i /\ In(Respond(i, "ready"), toMain) => lock = i /\ ~dirty
  /\ replay.decision = "ready" => lock = replay.id /\ ~dirty /\ Answered(replay.id)

Protocol ==
  OneRequest /\ Sent /\ Received /\ RunsOnce /\ HoldsOnce /\ OverIsQuiet /\ ReadyIsSaved

CloseInv == window # "closed" => Protocol

LEMMA ProtocolInit == Init => Protocol
BY DEF Init, Protocol, OneRequest, Sent, Received, RunsOnce, HoldsOnce, OverIsQuiet,
   ReadyIsSaved, Ordered, In, NoHold, OneHold, Live, Seen, Answered, Ended, NoRequest, NoReplay,
   Ids

-----------------------------------------------------------------------------
(* Steps of the main process that leave the renderer's state alone.        *)

\* Numbers and shapes the steps below use.
LEMMA Shapes ==
  ASSUME TypeOK
  PROVE  /\ asked \in Nat /\ lock \in Nat /\ waiting \in Nat
         /\ pending.id \in Nat /\ replay.id \in Nat
         /\ pending.id # 0 => pending.id \in Ids
         /\ replay.id # 0 => replay.id \in Ids
         /\ toRenderer \in Seq(FromMain) /\ toMain \in Seq(FromRenderer)
         /\ \A i \in Ids : run[i].step \in RunStep /\ run[i].retired \in BOOLEAN
         /\ dirty \in BOOLEAN /\ subscribed \in BOOLEAN
BY RequestShape, IdsAreNumbers DEF TypeOK, NoRequest, NoReplay, Request

\* Nothing the protocol speaks about changes.
SameProtocol ==
  /\ pending'.id = pending.id
  /\ replay'.id = replay.id /\ replay'.decision = replay.decision
  /\ UNCHANGED <<asked, toRenderer, toMain, rendererVars>>

LEMMA SameSteps ==
  ASSUME Protocol, SameProtocol
  PROVE  Protocol'
BY DEF SameProtocol, rendererVars, Protocol, OneRequest, Sent, Received, RunsOnce, HoldsOnce,
   OverIsQuiet, ReadyIsSaved, Live, Seen, Answered, Ended, Quiet, Active

\* A request or cancellation of the newest request goes to the end of the queue.
LEMMA ControlFollows ==
  ASSUME TypeOK, Sent, NEW i \in Ids, NEW m \in {Requested(i), Cancelled(i)}, asked <= i,
         ~In(Cancelled(i), toRenderer),
         m = Requested(i) => ~In(Reply(i), toRenderer)
  PROVE  /\ Append(toRenderer, m) \in Seq(FromMain)
         /\ Ordered(Append(toRenderer, m))
         /\ \A x : In(x, Append(toRenderer, m)) <=> In(x, toRenderer) \/ x = m
         /\ \A k : /\ NoHold(k, Append(toRenderer, m)) <=> NoHold(k, toRenderer)
                   /\ OneHold(k, toRenderer) => OneHold(k, Append(toRenderer, m))
<1>1. m \in FromMain /\ m.kind \in {"requested", "cancelled"} /\ m.id = i
  BY MessageTypes, Distinct
<1>2. ASSUME NEW x \in FromMain, In(x, toRenderer) PROVE Follows(x, m)
  <2>1. x.id \in Ids /\ x.id <= i
    BY <1>2, Shapes, IdsAreNumbers DEF FromMain, Sent
  <2>2. x.kind = "cancelled" => x.id # i
    <3>1. x.kind = "cancelled" => x = Cancelled(x.id)
      BY DEF FromMain, Cancelled
    <3> QED
      BY <1>2, <3>1
  <2>3. x.kind = "reply" => x.id # i \/ m.kind # "requested"
    <3>1. x.kind = "reply" => x = Reply(x.id)
      BY DEF FromMain, Reply
    <3> QED
      BY <1>2, <3>1, Distinct
  <2> QED
    BY <1>1, <2>1, <2>2, <2>3 DEF Follows
<1>3. Append(toRenderer, m) \in Seq(FromMain)
  BY <1>1, Shapes
<1> QED
  BY <1>1, <1>2, <1>3, Shapes, AppendMessages DEF Sent, IsHold

\* The request in progress is announced once more.
LEMMA AnnounceSteps ==
  ASSUME TypeOK, Protocol, pending.id # 0, pending'.id = pending.id,
         UNCHANGED <<replay, asked, toMain, rendererVars>>,
         toRenderer' = Append(toRenderer, Requested(pending.id))
  PROVE  Protocol'
<1> DEFINE i == pending.id
<1>1. i \in Ids /\ i \in Nat /\ i = asked /\ replay.id = 0
  BY Shapes DEF Protocol, OneRequest
<1>2. /\ Ordered(toRenderer')
      /\ \A x : In(x, toRenderer') <=> In(x, toRenderer) \/ x = Requested(i)
      /\ \A k : /\ NoHold(k, toRenderer') <=> NoHold(k, toRenderer)
                /\ OneHold(k, toRenderer) => OneHold(k, toRenderer')
  BY <1>1, ControlFollows DEF Protocol, Sent, Live
<1>3. Sent'
  BY <1>1, <1>2, Distinct, Shapes DEF Protocol, Sent, Live
<1>4. Received'
  BY <1>1, <1>2, Distinct, Shapes, IdsAreNumbers DEF Protocol, Received, Seen, rendererVars
<1>5. RunsOnce'
  BY <1>1, <1>2, Distinct DEF Protocol, RunsOnce, Answered, Ended, rendererVars
<1>6. HoldsOnce'
  BY <1>2 DEF Protocol, HoldsOnce, rendererVars
<1>7. OverIsQuiet'
  BY <1>1, <1>2, Distinct DEF Protocol, OverIsQuiet, Quiet, Live, Active, rendererVars
<1>8. ReadyIsSaved' /\ OneRequest'
  BY DEF Protocol, ReadyIsSaved, OneRequest, Answered, rendererVars
<1> QED
  BY <1>3, <1>4, <1>5, <1>6, <1>7, <1>8 DEF Protocol

\* A request with a new id begins.
LEMMA BeginSteps ==
  ASSUME TypeOK, Protocol, pending.id = 0, replay.id = 0, replay.decision = "none",
         asked' = asked + 1, asked' \in Ids, pending'.id = asked',
         UNCHANGED <<replay, toMain, rendererVars>>,
         toRenderer' = Append(toRenderer, Requested(asked'))
  PROVE  Protocol'
<1> DEFINE i == asked'
<1>1. i \in Ids /\ i \in Nat /\ asked < i /\ asked \in Nat
  BY Shapes
<1>2. \A m \in FromMain : In(m, toRenderer) => m.id # i /\ m.id <= i
  <2>1. \A m \in FromMain : m.id \in Nat
    BY IdsAreNumbers DEF FromMain
  <2> QED
    BY <1>1, <2>1 DEF Protocol, Sent
<1>3. /\ ~In(Requested(i), toRenderer) /\ ~In(Cancelled(i), toRenderer)
      /\ ~In(Reply(i), toRenderer)
  BY <1>1, <1>2, MessageTypes, Distinct
<1>4. /\ Ordered(toRenderer')
      /\ \A x : In(x, toRenderer') <=> In(x, toRenderer) \/ x = Requested(i)
      /\ \A k : /\ NoHold(k, toRenderer') <=> NoHold(k, toRenderer)
                /\ OneHold(k, toRenderer) => OneHold(k, toRenderer')
  BY <1>1, <1>3, ControlFollows DEF Protocol
<1>5. ~Seen(i) /\ ~run[i].retired /\ lock # i
  BY <1>1, Shapes DEF Protocol, Received, Seen
<1>6. Sent'
  BY <1>1, <1>2, <1>3, <1>4, Distinct, Shapes DEF Protocol, Sent, Live
<1>7. Received'
  <2>1. lock <= i /\ \A k \in Ids : Seen(k) => k <= asked /\ k <= i
    BY <1>1, Shapes, IdsAreNumbers DEF Protocol, Received
  <2>2. \A j \in Ids : In(Requested(j), toRenderer') \/ In(Cancelled(j), toRenderer') =>
          In(Requested(j), toRenderer) \/ In(Cancelled(j), toRenderer) \/ j = i
    BY <1>4, Distinct
  <2> QED
    BY <2>1, <2>2 DEF Protocol, Received, Seen, rendererVars
<1>8. RunsOnce'
  BY <1>1, <1>4, <1>5, Distinct DEF Protocol, RunsOnce, Answered, Ended, Seen, rendererVars
<1>9. HoldsOnce'
  BY <1>4 DEF Protocol, HoldsOnce, rendererVars
<1>10. OverIsQuiet'
  BY <1>1, <1>4, IdsAreNumbers, Distinct
  DEF Protocol, OverIsQuiet, Quiet, Live, Active, rendererVars
<1>11. ReadyIsSaved' /\ OneRequest'
  <2>1. ~In(Respond(i, "ready"), toMain)
    BY <1>1, <1>5 DEF Protocol, RunsOnce, Answered, Seen, Decisions
  <2> QED
    BY <2>1 DEF Protocol, ReadyIsSaved, OneRequest
<1> QED
  BY <1>6, <1>7, <1>8, <1>9, <1>10, <1>11 DEF Protocol

\* A receipt, or the answer to a hold, goes to the end of the queue.
LEMMA NoticeFollows ==
  ASSUME NEW queue \in Seq(FromMain), Ordered(queue), NEW m \in FromMain,
         m.kind \in {"reply", "holdReply"}
  PROVE  Ordered(Append(queue, m))
<1>1. \A x : Follows(x, m)
  BY DEF Follows
<1> QED
  BY <1>1, AppendMessages

\* The queue to main after its head was taken.
LEMMA MessageTaken ==
  ASSUME TypeOK, toMain # <<>>, toMain' = Tail(toMain)
  PROVE  /\ \A x : In(x, toMain) <=> x = Head(toMain) \/ In(x, toMain')
         /\ \A k : /\ NoHold(k, toMain) => NoHold(k, toMain') /\ ~IsHold(Head(toMain), k)
                   /\ OneHold(k, toMain) => OneHold(k, toMain')
                   /\ OneHold(k, toMain) /\ IsHold(Head(toMain), k) => NoHold(k, toMain')
BY Shapes, TailMessages

\* main's answer to a hold.
LEMMA HoldSteps ==
  ASSUME TypeOK, Protocol, toMain # <<>>, toMain' = Tail(toMain), NEW i \in Ids,
         Head(toMain) = Hold(i), NEW ok \in BOOLEAN,
         toRenderer' = Append(toRenderer, HoldReply(i, ok)),
         UNCHANGED <<pending, replay, asked, rendererVars>>
  PROVE  Protocol'
<1>1. HoldReply(i, ok) \in FromMain /\ HoldReply(i, ok).kind = "holdReply"
      /\ IsHold(HoldReply(i, ok), i) /\ IsHold(Hold(i), i)
      /\ \A k : k # i => ~IsHold(HoldReply(i, ok), k)
  BY MessageTypes, Distinct DEF IsHold
<1>2. /\ Ordered(toRenderer')
      /\ \A x : In(x, toRenderer') <=> In(x, toRenderer) \/ x = HoldReply(i, ok)
  BY <1>1, Shapes, AppendMessages, NoticeFollows DEF Protocol, Sent
<1>3. \A k : /\ k # i /\ NoHold(k, toRenderer) => NoHold(k, toRenderer')
             /\ k # i /\ OneHold(k, toRenderer) => OneHold(k, toRenderer')
             /\ NoHold(k, toRenderer) => OneHold(k, toRenderer')
  BY <1>1, Shapes, AppendMessages
<1>4. ~NoHold(i, toMain) /\ OneHold(i, toMain)
  BY <1>1, MessageTaken DEF Protocol, HoldsOnce
<1>5. NoHold(i, toMain') /\ NoHold(i, toRenderer) /\ run[i].step = "holding"
  BY <1>1, <1>4, MessageTaken DEF Protocol, HoldsOnce
<1>6. \A m \in FromMain : In(m, toRenderer') => m.id <= asked
  <2>1. i <= asked
    BY <1>5 DEF Protocol, Received, Seen
  <2> QED
    BY <1>2, <2>1, Distinct DEF Protocol, Sent
<1>7. \A x : In(x, toMain') => In(x, toMain)
  BY MessageTaken
<1>8. Sent' /\ Received'
  BY <1>1, <1>2, <1>6, Distinct DEF Protocol, Sent, Received, Live, Seen, rendererVars
<1>9. RunsOnce' /\ ReadyIsSaved' /\ OneRequest'
  BY <1>1, <1>2, <1>7, Distinct
  DEF Protocol, RunsOnce, ReadyIsSaved, OneRequest, Answered, Ended, rendererVars
<1>10. HoldsOnce'
  BY <1>3, <1>4, <1>5, MessageTaken DEF Protocol, HoldsOnce, rendererVars
<1>11. OverIsQuiet'
  BY <1>1, <1>2, Distinct DEF Protocol, OverIsQuiet, Quiet, Live, Active, rendererVars
<1> QED
  BY <1>8, <1>9, <1>10, <1>11 DEF Protocol

\* An answer to a request that is no longer pending.
LEMMA LateSteps ==
  ASSUME TypeOK, Protocol, toMain # <<>>, toMain' = Tail(toMain), NEW i \in Ids,
         NEW decision \in Decisions, Head(toMain) = Respond(i, decision), pending.id # i,
         toRenderer' = Append(toRenderer, Reply(i)),
         UNCHANGED <<pending, replay, asked, rendererVars>>
  PROVE  Protocol'
<1>1. Reply(i) \in FromMain /\ Reply(i).kind = "reply" /\ \A k : ~IsHold(Reply(i), k)
  BY MessageTypes, Distinct DEF IsHold
<1>2. /\ Ordered(toRenderer')
      /\ \A x : In(x, toRenderer') <=> In(x, toRenderer) \/ x = Reply(i)
      /\ \A k : /\ NoHold(k, toRenderer') <=> NoHold(k, toRenderer)
                /\ OneHold(k, toRenderer) => OneHold(k, toRenderer')
  BY <1>1, Shapes, AppendMessages, NoticeFollows DEF Protocol, Sent
<1>3. Answered(i)
  BY MessageTaken DEF Protocol, RunsOnce
<1>4. i <= asked
  BY <1>3 DEF Protocol, Received, Seen, Answered
<1>5. \A m \in FromMain : In(m, toRenderer') => m.id <= asked
  BY <1>2, <1>4, Distinct DEF Protocol, Sent
<1>6. \A x : In(x, toMain') => In(x, toMain)
  BY MessageTaken
<1>7. Sent' /\ Received'
  BY <1>1, <1>2, <1>5, Distinct DEF Protocol, Sent, Received, Live, Seen, rendererVars
<1>8. RunsOnce' /\ ReadyIsSaved' /\ OneRequest'
  BY <1>1, <1>2, <1>3, <1>6, Distinct
  DEF Protocol, RunsOnce, ReadyIsSaved, OneRequest, Answered, Ended, rendererVars
<1>9. HoldsOnce'
  BY <1>2, MessageTaken DEF Protocol, HoldsOnce, rendererVars
<1>10. OverIsQuiet'
  BY <1>1, <1>2, Distinct DEF Protocol, OverIsQuiet, Quiet, Live, Active, rendererVars
<1> QED
  BY <1>7, <1>8, <1>9, <1>10 DEF Protocol

\* The request in progress, or the one replayed, is decided: it is replayed, or
\* its cancellation is on its way.
LEMMA DecideSteps ==
  ASSUME TypeOK, Protocol, NEW i \in Ids, Live(i), pending'.id = 0,
         UNCHANGED <<asked, rendererVars>>,
         \A x : In(x, toMain') => In(x, toMain),
         \A k : /\ NoHold(k, toMain) => NoHold(k, toMain')
                /\ OneHold(k, toMain) => OneHold(k, toMain'),
         Ordered(toRenderer'),
         \A k : /\ NoHold(k, toRenderer) => NoHold(k, toRenderer')
                /\ OneHold(k, toRenderer) => OneHold(k, toRenderer'),
         \A x : In(x, toRenderer) => In(x, toRenderer'),
         \A x : In(x, toRenderer') => In(x, toRenderer) \/ x = Cancelled(i) \/ x = Reply(i),
         In(Reply(i), toRenderer') => Answered(i),
         \/ /\ replay'.id = i /\ replay'.decision \in {"ready", "force"}
            /\ ~In(Cancelled(i), toRenderer')
            /\ replay'.decision = "ready" => pending.id = i /\ In(Respond(i, "ready"), toMain)
         \/ /\ replay'.id = 0 /\ replay'.decision = "none"
            /\ In(Cancelled(i), toRenderer')
  PROVE  Protocol'
<1>1. /\ i = asked /\ i \in Nat /\ i # 0 /\ \A k \in Ids : k \in Nat /\ k # 0
      /\ \A k \in Ids : Live(k) => k = i
  BY Shapes, IdsAreNumbers DEF Protocol, OneRequest, Live
<1>2. \A k \in Ids : /\ In(Requested(k), toRenderer') <=> In(Requested(k), toRenderer)
                     /\ In(Cancelled(k), toRenderer') => In(Cancelled(k), toRenderer) \/ k = i
                     /\ In(Reply(k), toRenderer') => In(Reply(k), toRenderer) \/ k = i
  BY Distinct
<1>3. OneRequest'
  BY <1>1 DEF OneRequest
<1>4. Sent'
  <2>1. \A m \in FromMain : In(m, toRenderer') => m.id <= asked
    BY <1>1, Distinct DEF Protocol, Sent
  <2>2. \A k \in Ids : In(Cancelled(k), toRenderer') => ~Live(k)'
    BY <1>1, <1>2 DEF Protocol, Sent, Live
  <2> QED
    BY <1>1, <2>1, <2>2 DEF Sent
<1>5. Received'
  BY <1>1, <1>2 DEF Protocol, Received, Seen, rendererVars
<1>6. RunsOnce'
  BY <1>1, <1>2 DEF Protocol, RunsOnce, Answered, Ended, rendererVars
<1>7. HoldsOnce'
  BY DEF Protocol, HoldsOnce, rendererVars
<1>8. OverIsQuiet'
  BY <1>1, <1>2 DEF Protocol, OverIsQuiet, Quiet, Live, Active, rendererVars
<1>9. ReadyIsSaved'
  <2>1. \A k \in Ids : pending'.id # k
    BY <1>1
  <2>2. replay'.decision = "ready" => lock = i /\ ~dirty /\ Answered(i) /\ replay'.id = i
    BY DEF Protocol, ReadyIsSaved, RunsOnce, Decisions
  <2> QED
    BY <2>1, <2>2 DEF ReadyIsSaved, Answered, rendererVars
<1> QED
  BY <1>3, <1>4, <1>5, <1>6, <1>7, <1>8, <1>9 DEF Protocol

LEMMA EventSteps ==
  ASSUME TypeOK, Protocol, Event
  PROVE  Protocol'
<1>1. CASE Passes \/ Stale
  BY <1>1, EventCases, SameSteps DEF Passes, Stale, stateVars, SameProtocol
<1>2. ASSUME NEW intent \in {"window", "quit"}, RequestClose(intent) PROVE Protocol'
  <2>1. UNCHANGED <<toMain, rendererVars>>
    BY EventCases
  <2>2. CASE /\ pending # NoRequest /\ pending'.id = pending.id
             /\ UNCHANGED <<replay, asked>>
             /\ toRenderer' = Append(toRenderer, Requested(pending.id))
    BY <2>1, <2>2, RequestShape, AnnounceSteps
  <2>3. CASE /\ replay'.id = replay.id /\ replay'.decision = replay.decision
             /\ UNCHANGED <<pending, asked, toRenderer>>
    BY <2>1, <2>3, SameSteps DEF SameProtocol
  <2>4. CASE /\ pending = NoRequest /\ replay = NoReplay
             /\ asked' = asked + 1 /\ asked' \in Ids /\ pending'.id = asked'
             /\ UNCHANGED replay
             /\ toRenderer' = Append(toRenderer, Requested(asked'))
    BY <2>1, <2>4, RequestShape, BeginSteps
  <2> QED
    BY <1>2, <2>2, <2>3, <2>4, RequestCloseCases, Zenon
<1> QED
  BY <1>1, <1>2, EventCases DEF Asks

\* The receipt of an answer goes to the end of the queue.
LEMMA ReceiptMessages ==
  ASSUME NEW queue \in Seq(FromMain), Ordered(queue), NEW i \in Ids
  PROVE  /\ Ordered(Append(queue, Reply(i)))
         /\ \A x : In(x, Append(queue, Reply(i))) <=> In(x, queue) \/ x = Reply(i)
         /\ \A k : /\ NoHold(k, queue) => NoHold(k, Append(queue, Reply(i)))
                   /\ OneHold(k, queue) => OneHold(k, Append(queue, Reply(i)))
<1>1. Reply(i) \in FromMain /\ Reply(i).kind = "reply" /\ \A k : ~IsHold(Reply(i), k)
  BY MessageTypes, Distinct DEF IsHold
<1> QED
  BY <1>1, AppendMessages, NoticeFollows

LEMMA HandleMessageSteps ==
  ASSUME TypeOK, Protocol, HandleMessage
  PROVE  Protocol'
<1>1. PICK i \in Ids : Answers(i)
  BY HandleMessageCases
<1>2. toMain # <<>> /\ toMain' = Tail(toMain) /\ UNCHANGED <<asked, rendererVars>>
  BY HandleMessageCases DEF HandleMessage
<1>3. CASE /\ Head(toMain) = Hold(i)
           /\ \E ok \in BOOLEAN : toRenderer' = Append(toRenderer, HoldReply(i, ok))
           /\ UNCHANGED <<pending, replay>>
  BY <1>2, <1>3, HoldSteps
<1>4. CASE /\ \E decision \in Decisions : Head(toMain) = Respond(i, decision)
           /\ pending.id # i
           /\ toRenderer' = Append(toRenderer, Reply(i))
           /\ UNCHANGED <<pending, replay>>
  BY <1>2, <1>4, LateSteps
<1>5. ASSUME pending.id = i, pending'.id = 0,
             NEW decision \in Decisions, Head(toMain) = Respond(i, decision)
      PROVE  /\ Live(i) /\ Answered(i) /\ In(Respond(i, decision), toMain)
             /\ ~In(Cancelled(i), toRenderer) /\ asked <= i /\ Ordered(toRenderer)
             /\ toRenderer \in Seq(FromMain)
             /\ \A x : In(x, toMain') => In(x, toMain)
             /\ \A k : /\ NoHold(k, toMain) => NoHold(k, toMain')
                       /\ OneHold(k, toMain) => OneHold(k, toMain')
  <2>1. In(Respond(i, decision), toMain)
    BY <1>2, <1>5, MessageTaken
  <2>2. Live(i) /\ asked <= i /\ Ordered(toRenderer) /\ toRenderer \in Seq(FromMain)
    BY <1>5, Shapes, IdsAreNumbers DEF Protocol, Sent, Live, OneRequest
  <2>3. ~In(Cancelled(i), toRenderer)
    BY <2>2 DEF Protocol, Sent
  <2>4. Answered(i)
    BY <2>1 DEF Protocol, RunsOnce
  <2> QED
    BY <1>2, <2>1, <2>2, <2>3, <2>4, MessageTaken
<1>6. CASE /\ pending.id = i /\ pending'.id = 0
           /\ replay'.id = i /\ replay'.decision \in {"ready", "force"}
           /\ Head(toMain) = Respond(i, replay'.decision)
           /\ toRenderer' = Append(toRenderer, Reply(i))
  <2>1. replay'.decision \in Decisions
    BY <1>6 DEF Decisions
  <2>2. ~In(Cancelled(i), toRenderer')
    BY <1>5, <1>6, <2>1, ReceiptMessages, Distinct
  <2> QED
    BY <1>2, <1>5, <1>6, <2>1, <2>2, ReceiptMessages, DecideSteps
<1>7. CASE /\ pending.id = i /\ pending'.id = 0
           /\ replay'.id = 0 /\ replay'.decision = "none"
           /\ Head(toMain) = Respond(i, "cancel")
           /\ toRenderer' = Append(Append(toRenderer, Cancelled(i)), Reply(i))
  <2>1. "cancel" \in Decisions /\ Cancelled(i) # Requested(i)
    BY Distinct DEF Decisions
  <2> DEFINE queue == Append(toRenderer, Cancelled(i))
  <2>2. /\ queue \in Seq(FromMain) /\ Ordered(queue)
        /\ \A x : In(x, queue) <=> In(x, toRenderer) \/ x = Cancelled(i)
        /\ \A k : /\ NoHold(k, queue) <=> NoHold(k, toRenderer)
                  /\ OneHold(k, toRenderer) => OneHold(k, queue)
    BY <1>5, <1>7, <2>1, ControlFollows DEF Protocol
  <2> HIDE DEF queue
  <2>3. toRenderer' = Append(queue, Reply(i))
    BY <1>7 DEF queue
  <2>4. /\ Ordered(toRenderer')
        /\ \A x : In(x, toRenderer') <=> In(x, toRenderer) \/ x = Cancelled(i) \/ x = Reply(i)
        /\ \A k : /\ NoHold(k, toRenderer) => NoHold(k, toRenderer')
                  /\ OneHold(k, toRenderer) => OneHold(k, toRenderer')
    BY <2>2, <2>3, ReceiptMessages
  <2> QED
    BY <1>2, <1>5, <1>7, <2>1, <2>4, DecideSteps
<1> QED
  BY <1>1, <1>3, <1>4, <1>6, <1>7 DEF Answers, LetsThrough, GivesUp, NoReplay, NoRequest

LEMMA DialogSteps ==
  ASSUME TypeOK, Protocol, NEW choice \in Choices, DialogAnswered(choice)
  PROVE  Protocol'
<1>1. UNCHANGED <<toMain, rendererVars>>
  BY DEF DialogAnswered
<1>2. CASE UNCHANGED <<stateVars, toRenderer>>
  BY <1>1, <1>2, SameSteps DEF SameProtocol, stateVars
<1>3. ASSUME dialog \in Ids, pending.id = dialog
      PROVE  /\ Live(dialog) /\ ~In(Cancelled(dialog), toRenderer) /\ asked <= dialog
             /\ ~In(Reply(dialog), toRenderer)
             /\ Ordered(toRenderer) /\ Cancelled(dialog) # Requested(dialog)
             /\ Cancelled(dialog) # Reply(dialog)
  BY <1>3, Shapes, IdsAreNumbers, Distinct DEF Protocol, Sent, Live, OneRequest
<1>4. CASE /\ LetsThrough(dialog, "force") /\ dialog \in Ids
           /\ UNCHANGED <<asked, toRenderer>>
  BY <1>1, <1>3, <1>4, DecideSteps DEF LetsThrough, NoRequest
<1>5. CASE /\ GivesUp(dialog) /\ dialog \in Ids
           /\ toRenderer' = Append(toRenderer, Cancelled(dialog))
           /\ UNCHANGED asked
  <2>1. pending.id = dialog
    BY <1>5 DEF GivesUp
  <2>2. /\ Ordered(toRenderer')
        /\ \A x : In(x, toRenderer') <=> In(x, toRenderer) \/ x = Cancelled(dialog)
        /\ \A k : /\ NoHold(k, toRenderer') <=> NoHold(k, toRenderer)
                  /\ OneHold(k, toRenderer) => OneHold(k, toRenderer')
    BY <1>3, <1>5, <2>1, ControlFollows DEF Protocol
  <2> QED
    BY <1>1, <1>3, <1>5, <2>1, <2>2, DecideSteps DEF GivesUp, NoRequest, NoReplay
<1> QED
  BY <1>2, <1>4, <1>5, DialogCases

LEMMA TimerSteps ==
  ASSUME TypeOK, Protocol, TimerFires
  PROVE  Protocol'
BY SameSteps DEF TimerFires, SameProtocol, stateVars

\* A page that does not unload; the request replayed, if any, is cancelled.
LEMMA UnloadSteps ==
  ASSUME TypeOK, Protocol, Unload, window' # "closed"
  PROVE  Protocol'
<1> DEFINE i == replay.id
<1>1. UNCHANGED <<pending, asked, toMain, rendererVars>> /\ replay' = NoReplay
  BY DEF Unload, ClearReplay
<1>2. CASE replay = NoReplay
  BY <1>1, <1>2, SameSteps DEF Unload, SameProtocol
<1>3. CASE replay # NoReplay
  <2>1. i \in Ids /\ pending'.id = 0 /\ toRenderer' = Append(toRenderer, Cancelled(i))
    BY <1>1, <1>3, RequestShape, Shapes DEF Unload, Protocol, OneRequest
  <2>2. /\ Live(i) /\ ~In(Cancelled(i), toRenderer) /\ asked <= i
        /\ Cancelled(i) # Requested(i) /\ Cancelled(i) # Reply(i)
        /\ In(Reply(i), toRenderer) => Answered(i)
    BY <2>1, Shapes, IdsAreNumbers, Distinct DEF Protocol, Sent, Live, OneRequest, RunsOnce
  <2>3. /\ Ordered(toRenderer')
        /\ \A x : In(x, toRenderer') <=> In(x, toRenderer) \/ x = Cancelled(i)
        /\ \A k : /\ NoHold(k, toRenderer') <=> NoHold(k, toRenderer)
                  /\ OneHold(k, toRenderer) => OneHold(k, toRenderer')
    BY <2>1, <2>2, ControlFollows DEF Protocol
  <2> QED
    BY <1>1, <2>1, <2>2, <2>3, DecideSteps DEF NoReplay
<1> QED
  BY <1>2, <1>3

-----------------------------------------------------------------------------
(* Steps of the renderer, which leave the main process alone.              *)

\* The steps of a run that still works for its request.
Working == {"editors", "flushing", "holding", "prompting"}

\* The queue to the renderer is unchanged or lost its head, and every
\* cancellation but that of request i is still on its way.
Consumed(i) ==
  /\ Ordered(toRenderer')
  /\ \A x : In(x, toRenderer') => In(x, toRenderer)
  /\ \A k \in Ids : k # i /\ In(Cancelled(k), toRenderer) => In(Cancelled(k), toRenderer')
  /\ \A k : /\ NoHold(k, toRenderer) => NoHold(k, toRenderer')
            /\ OneHold(k, toRenderer) => OneHold(k, toRenderer')

\* Once the run of a live request was answered, every run that still works is
\* retired: it belongs to an older request, whose cancellation came first.
LEMMA NewestRuns ==
  ASSUME TypeOK, Protocol, NEW k \in Ids, Live(k), Answered(k),
         NEW i \in Ids, run[i].step \in Working, ~run[i].retired
  PROVE  FALSE
<1>1. k = asked /\ i # k /\ ~Live(i) /\ i <= asked
  BY Shapes, IdsAreNumbers
  DEF Protocol, OneRequest, Live, Answered, Working, Received, Seen
<1>2. Active(i)
  BY DEF Active, Working
<1>3. In(Cancelled(i), toRenderer)
  BY <1>1, <1>2 DEF Protocol, OverIsQuiet, Quiet
<1>4. k <= i
  BY <1>3 DEF Protocol, Received, Seen, Answered
<1> QED
  BY <1>1, <1>4, IdsAreNumbers, Shapes

LEMMA MainFrame ==
  ASSUME Protocol, UNCHANGED mainVars, NEW i, Consumed(i)
  PROVE  OneRequest' /\ Sent'
BY DEF Protocol, mainVars, stateVars, Consumed, OneRequest, Sent, Live

\* A run takes one more step before it is answered; it may lock the canvas.
LEMMA AdvanceSteps ==
  ASSUME TypeOK, Protocol, NEW i \in Ids, UNCHANGED <<mainVars, subscribed, waiting, dirty>>,
         run[i].step \in Working, run'[i].step \in Working, run'[i].retired = run[i].retired,
         \A k \in Ids : k # i => run'[k] = run[k],
         Consumed(0), HoldsOnce',
         \A k, d : In(Respond(k, d), toMain') => In(Respond(k, d), toMain),
         lock' = lock \/ (lock' = i /\ ~run[i].retired)
  PROVE  Protocol'
<1>1. OneRequest' /\ Sent'
  BY MainFrame
<1>2. /\ Active(i) /\ Active(i)' /\ ~Answered(i) /\ Seen(i) /\ Ended(i)' = Ended(i)
      /\ run[i].step # "none" /\ run'[i].step # "none"
  BY DEF Working, Active, Answered, Seen, Ended
<1>3. \A k \in Ids : /\ Seen(k)' <=> Seen(k)
                     /\ Answered(k) => Answered(k)'
                     /\ Ended(k)' => Ended(k)
                     /\ (Active(k) => run[k].retired) => (Active(k) => run[k].retired)'
  BY <1>2 DEF Seen, Answered, Ended, Active, Working
<1>4. \A k \in Ids : Live(k)' <=> Live(k)
  BY DEF Live, mainVars, stateVars
<1>5. Received'
  <2>1. lock' <= asked
    BY <1>2 DEF Protocol, Received
  <2>2. \A k \in Ids : /\ In(Requested(k), toRenderer') => In(Requested(k), toRenderer)
                       /\ In(Cancelled(k), toRenderer') => In(Cancelled(k), toRenderer)
    BY DEF Consumed
  <2>3. \A k \in Ids : Seen(k)' => k <= asked
    BY <1>3 DEF Protocol, Received
  <2>4. \A k, j \in Ids :
          Seen(k)' /\ (In(Requested(j), toRenderer') \/ In(Cancelled(j), toRenderer')) => k <= j
    BY <1>3, <2>2 DEF Protocol, Received
  <2>5. \A k \in Ids : run'[k].step = "none" => ~run'[k].retired
    BY <1>2 DEF Protocol, Received
  <2>6. subscribed /\ waiting = 0
    BY <1>2 DEF Protocol, Received
  <2> QED
    BY <2>1, <2>3, <2>4, <2>5, <2>6 DEF Received, mainVars, stateVars
<1>6. RunsOnce'
  BY <1>3 DEF Protocol, RunsOnce, mainVars, stateVars, Consumed
<1>7. OverIsQuiet'
  <2> SUFFICES ASSUME NEW k \in Ids, k <= asked, ~Live(k), ~In(Cancelled(k), toRenderer)
               PROVE  Quiet(k)'
    BY <1>4, IdsAreNumbers DEF OverIsQuiet, Consumed, mainVars, stateVars
  <2>1. Quiet(k)
    BY DEF Protocol, OverIsQuiet
  <2>2. lock' # k
    BY <1>2, <2>1 DEF Quiet
  <2> QED
    BY <1>3, <2>1, <2>2 DEF Quiet, Consumed
<1>8. ReadyIsSaved'
  <2>1. \A k \in Ids : Live(k) /\ Answered(k) => lock' = lock
    BY NewestRuns
  <2>2. ASSUME NEW k \in Ids, pending.id = k, In(Respond(k, "ready"), toMain')
        PROVE  lock' = k /\ ~dirty'
    BY <2>1, <2>2 DEF Protocol, ReadyIsSaved, RunsOnce, Decisions, Live
  <2>3. ASSUME replay.decision = "ready"
        PROVE  lock' = replay.id /\ ~dirty' /\ Answered(replay.id)'
    <3>1. replay.id \in Ids
      BY <2>3, RequestShape
    <3> QED
      BY <1>2, <2>1, <2>3, <3>1 DEF Protocol, ReadyIsSaved, Live, Answered, mainVars, stateVars
  <2> QED
    BY <2>2, <2>3 DEF ReadyIsSaved, Answered, mainVars, stateVars
<1> QED
  BY <1>1, <1>5, <1>6, <1>7, <1>8 DEF Protocol

\* A run comes to its end: the request is answered, unless it was cancelled.
LEMMA FinishSteps ==
  ASSUME TypeOK, Protocol, NEW i \in Ids, NEW decision \in Decisions, Finish(i, decision),
         run[i].step \in Working, UNCHANGED <<mainVars, subscribed, waiting>>,
         Consumed(0), NoHold(i, toMain), NoHold(i, toRenderer'),
         dirty' \in {dirty, FALSE},
         lock' = lock \/ (lock = i /\ lock' = 0),
         decision = "ready" => lock' = i /\ ~dirty'
  PROVE  Protocol'
<1>1. OneRequest' /\ Sent'
  BY MainFrame
<1>2. /\ Active(i) /\ ~Answered(i) /\ Seen(i) /\ run[i].step # "none" /\ run[i].step # "done"
      /\ i # 0
  BY IdsAreNumbers DEF Working, Active, Answered, Seen
<1>3. /\ \A x : In(x, toMain) => In(x, toMain')
      /\ \A x : In(x, toMain') => In(x, toMain) \/ (~run[i].retired /\ x = Respond(i, decision))
      /\ \A k : /\ NoHold(k, toMain) => NoHold(k, toMain')
                /\ OneHold(k, toMain) => OneHold(k, toMain')
  <2>1. /\ Respond(i, decision) \in FromRenderer /\ toMain \in Seq(FromRenderer)
        /\ \A k : ~IsHold(Respond(i, decision), k)
    BY MessageTypes, Shapes, Distinct DEF IsHold
  <2>2. CASE run[i].retired
    BY <2>2, FinishEffect
  <2>3. CASE ~run[i].retired
    <3>1. toMain' = Append(toMain, Respond(i, decision))
      BY <2>3, FinishEffect
    <3> QED
      BY <2>1, <2>3, <3>1, AppendMessages
  <2> QED
    BY <2>2, <2>3
<1>4. /\ run'[i].retired = run[i].retired /\ Answered(i)' /\ run'[i].step # "none"
      /\ \A k \in Ids : k # i => run'[k] = run[k]
      /\ Active(i)' => ~run[i].retired
      /\ run'[i].step = "done" => run[i].retired
  BY FinishEffect DEF Answered, Active
<1>5. \A k \in Ids : /\ Seen(k)' <=> Seen(k)
                     /\ Answered(k) => Answered(k)'
                     /\ Ended(k)' => Ended(k)
                     /\ Live(k)' <=> Live(k)
  BY <1>2, <1>4 DEF Seen, Answered, Ended, Live, mainVars, stateVars
<1>6. Received'
  <2>1. lock' <= asked
    BY Shapes DEF Protocol, Received
  <2>2. \A k \in Ids : /\ In(Requested(k), toRenderer') => In(Requested(k), toRenderer)
                       /\ In(Cancelled(k), toRenderer') => In(Cancelled(k), toRenderer)
    BY DEF Consumed
  <2>3. \A k \in Ids : Seen(k)' => k <= asked
    BY <1>5 DEF Protocol, Received
  <2>4. \A k, j \in Ids :
          Seen(k)' /\ (In(Requested(j), toRenderer') \/ In(Cancelled(j), toRenderer')) => k <= j
    BY <1>5, <2>2 DEF Protocol, Received
  <2>5. \A k \in Ids : run'[k].step = "none" => ~run'[k].retired
    BY <1>4 DEF Protocol, Received
  <2>6. subscribed /\ waiting = 0
    BY <1>2 DEF Protocol, Received
  <2> QED
    BY <2>1, <2>3, <2>4, <2>5, <2>6 DEF Received, mainVars, stateVars
<1>7. RunsOnce'
  <2>1. \A k \in Ids : \A d \in Decisions : In(Respond(k, d), toMain') => Answered(k)'
    BY <1>3, <1>4, <1>5, Distinct DEF Protocol, RunsOnce
  <2> QED
    BY <1>5, <2>1 DEF Protocol, RunsOnce, mainVars, stateVars, Consumed
<1>8. HoldsOnce'
  <2>1. run'[i].step # "holding"
    BY <1>4 DEF Answered
  <2> QED
    BY <1>3, <1>4, <2>1 DEF Protocol, HoldsOnce, Consumed
<1>9. OverIsQuiet'
  <2> SUFFICES ASSUME NEW k \in Ids, k <= asked, ~Live(k), ~In(Cancelled(k), toRenderer)
               PROVE  Quiet(k)'
    BY <1>5, IdsAreNumbers DEF OverIsQuiet, Consumed, mainVars, stateVars
  <2>1. Quiet(k)
    BY DEF Protocol, OverIsQuiet
  <2>2. lock' # k
    BY <2>1, IdsAreNumbers DEF Quiet
  <2>3. Active(k)' => run'[k].retired
    BY <1>2, <1>4, <2>1 DEF Quiet, Active
  <2> QED
    BY <2>1, <2>2, <2>3 DEF Quiet, Consumed
<1>10. ReadyIsSaved'
  <2>0. ~dirty => ~dirty'
    BY Shapes
  <2>1. ASSUME NEW k \in Ids, pending.id = k, In(Respond(k, "ready"), toMain')
        PROVE  lock' = k /\ ~dirty'
    <3>1. CASE In(Respond(k, "ready"), toMain)
      <4>1. lock = k /\ ~dirty
        BY <2>1, <3>1 DEF Protocol, ReadyIsSaved
      <4>2. k # i
        BY <1>2, <3>1 DEF Protocol, RunsOnce, Decisions
      <4> QED
        BY <2>0, <4>1, <4>2
    <3>2. CASE Respond(k, "ready") = Respond(i, decision)
      BY <3>2, Distinct
    <3> QED
      BY <1>3, <2>1, <3>1, <3>2
  <2>2. ASSUME replay.decision = "ready"
        PROVE  lock' = replay.id /\ ~dirty' /\ Answered(replay.id)'
    <3>1. replay.id \in Ids
      BY <2>2, RequestShape
    <3>2. lock = replay.id /\ ~dirty /\ Answered(replay.id)
      BY <2>2 DEF Protocol, ReadyIsSaved
    <3>3. replay'.id = replay.id
      BY DEF mainVars, stateVars
    <3>4. Answered(replay.id)'
      BY <1>5, <3>1, <3>2, <3>3
    <3> QED
      BY <1>2, <2>0, <3>2, <3>3, <3>4
  <2> QED
    BY <2>1, <2>2 DEF ReadyIsSaved, Answered, mainVars, stateVars
<1> QED
  BY <1>1, <1>6, <1>7, <1>8, <1>9, <1>10 DEF Protocol

\* Outside the wait for a hold, no message of it is on its way.
LEMMA NoHoldOnTheWay ==
  ASSUME Protocol, NEW i \in Ids, run[i].step # "holding"
  PROVE  NoHold(i, toMain) /\ NoHold(i, toRenderer)
BY DEF Protocol, HoldsOnce

LEMMA NothingConsumed ==
  ASSUME Protocol, UNCHANGED toRenderer
  PROVE  Consumed(0)
BY DEF Protocol, Sent, Consumed

LEMMA BarrierSteps ==
  ASSUME TypeOK, Protocol, NEW i \in Ids, Barrier(i)
  PROVE  Protocol'
<1>1. /\ UNCHANGED <<mainVars, toRenderer, subscribed, waiting>>
      /\ Consumed(0)
      /\ {"ready", "force", "cancel"} \subseteq Decisions
      /\ {"flushing", "holding"} \subseteq RunStep
      /\ i # 0
  BY NothingConsumed, IdsAreNumbers
  DEF Barrier, EditorsPrepared, Flushed, FlushFails, PromptAnswered, Decisions, RunStep
<1>2. ASSUME run[i].step \in {"editors", "flushing", "prompting"},
             NEW decision \in Decisions, Finish(i, decision),
             dirty' \in {dirty, FALSE},
             lock' = lock \/ (lock = i /\ lock' = 0),
             decision = "ready" => lock' = i /\ ~dirty'
      PROVE  Protocol'
  BY <1>1, <1>2, NoHoldOnTheWay, FinishSteps DEF Working
<1>3. CASE EditorsPrepared(i)
  <2>1. CASE Finish(i, "cancel") /\ UNCHANGED lock
    BY <1>1, <1>2, <1>3, <2>1 DEF EditorsPrepared
  <2>2. CASE ~run[i].retired /\ GoTo(i, "flushing") /\ lock' = i /\ UNCHANGED toMain
    <3>1. run[i].step = "editors" /\ UNCHANGED dirty
      BY <1>3 DEF EditorsPrepared
    <3>2. /\ run'[i].step = "flushing" /\ run'[i].retired = run[i].retired
          /\ \A k \in Ids : k # i => run'[k] = run[k]
      BY <1>1, <2>2, GoToEffect
    <3>3. HoldsOnce'
      BY <1>1, <2>2, <3>1, <3>2 DEF Protocol, HoldsOnce
    <3> QED
      BY <1>1, <2>2, <3>1, <3>2, <3>3, AdvanceSteps DEF Working
  <2> QED
    BY <1>3, <2>1, <2>2 DEF EditorsPrepared
<1>4. CASE Flushed(i)
  BY <1>1, <1>2, <1>4 DEF Flushed
<1>5. CASE FlushFails(i)
  <2>1. run[i].step = "flushing" /\ UNCHANGED <<dirty, lock>>
    BY <1>5 DEF FlushFails
  <2>2. CASE Finish(i, "cancel")
    BY <1>1, <1>2, <2>1, <2>2
  <2>3. CASE GoTo(i, "holding") /\ toMain' = Append(toMain, Hold(i))
    <3>1. /\ run'[i].step = "holding" /\ run'[i].retired = run[i].retired
          /\ \A k \in Ids : k # i => run'[k] = run[k]
      BY <1>1, <2>3, GoToEffect
    <3>2. NoHold(i, toMain) /\ NoHold(i, toRenderer)
      BY <2>1, NoHoldOnTheWay
    <3>3. /\ Hold(i) \in FromRenderer /\ toMain \in Seq(FromRenderer)
          /\ \A k : IsHold(Hold(i), k) => k = i
          /\ \A k, d : Hold(i) # Respond(k, d)
      BY MessageTypes, Shapes, Distinct DEF IsHold
    <3>4. /\ \A x : In(x, toMain') => In(x, toMain) \/ x = Hold(i)
          /\ \A k : k # i => /\ NoHold(k, toMain) => NoHold(k, toMain')
                             /\ OneHold(k, toMain) => OneHold(k, toMain')
          /\ OneHold(i, toMain')
      BY <2>3, <3>2, <3>3, AppendMessages
    <3>5. HoldsOnce'
      BY <1>1, <3>1, <3>2, <3>4 DEF Protocol, HoldsOnce
    <3> QED
      BY <1>1, <2>1, <3>1, <3>3, <3>4, <3>5, AdvanceSteps DEF Working
  <2> QED
    BY <1>5, <2>2, <2>3 DEF FlushFails
<1>6. ASSUME NEW force \in BOOLEAN, PromptAnswered(i, force) PROVE Protocol'
  BY <1>1, <1>2, <1>6 DEF PromptAnswered
<1> QED
  BY <1>3, <1>4, <1>5, <1>6 DEF Barrier

\* The queue to the renderer after its head was taken.
LEMMA HeadTaken ==
  ASSUME TypeOK, Protocol, toRenderer # <<>>, toRenderer' = Tail(toRenderer)
  PROVE  /\ Ordered(toRenderer')
         /\ \A x : In(x, toRenderer) <=> x = Head(toRenderer) \/ In(x, toRenderer')
         /\ \A x : In(x, toRenderer') => Follows(Head(toRenderer), x)
         /\ \A k : /\ NoHold(k, toRenderer) => NoHold(k, toRenderer') /\ ~IsHold(Head(toRenderer), k)
                   /\ OneHold(k, toRenderer) => OneHold(k, toRenderer')
                   /\ OneHold(k, toRenderer) /\ IsHold(Head(toRenderer), k) =>
                        NoHold(k, toRenderer')
BY Shapes, TailMessages DEF Protocol, Sent

\* A run starts when its request comes, or when the application mounts.
LEMMA StartSteps ==
  ASSUME TypeOK, Protocol, NEW i \in Ids, StartRun(i), run[i].step = "none",
         UNCHANGED <<mainVars, toMain, lock, dirty>>, subscribed', waiting' = 0,
         Consumed(0), In(Requested(i), toRenderer) \/ waiting = i,
         \A j \in Ids :
           In(Requested(j), toRenderer') \/ In(Cancelled(j), toRenderer') => i <= j
  PROVE  Protocol'
<1>1. OneRequest' /\ Sent'
  BY MainFrame
<1>2. /\ run'[i].step = "editors" /\ ~run'[i].retired
      /\ \A k \in Ids : k # i => run'[k] = run[k]
  BY StartEffect
<1>3. i <= asked /\ i # 0 /\ ~Answered(i)
  <2>1. In(Requested(i), toRenderer) => i <= asked
    BY MessageTypes, Distinct DEF Protocol, Sent
  <2>2. waiting = i => i <= asked
    BY DEF Protocol, Received, Seen
  <2> QED
    BY <2>1, <2>2, IdsAreNumbers DEF Answered
<1>4. \A k \in Ids : /\ Seen(k)' => Seen(k) \/ k = i
                     /\ Answered(k)' <=> Answered(k)
                     /\ Ended(k)' => Ended(k) /\ k # i
                     /\ Live(k)' <=> Live(k)
  BY <1>2, <1>3, IdsAreNumbers DEF Seen, Answered, Ended, Live, mainVars, stateVars
<1>5. Received'
  <2>1. lock' <= asked /\ \A k \in Ids : Seen(k)' => k <= asked
    BY <1>3, <1>4 DEF Protocol, Received
  <2>2. \A k, j \in Ids :
          Seen(k)' /\ (In(Requested(j), toRenderer') \/ In(Cancelled(j), toRenderer')) => k <= j
    BY <1>4 DEF Protocol, Received, Consumed
  <2>3. \A k \in Ids : run'[k].step = "none" => ~run'[k].retired
    BY <1>2 DEF Protocol, Received
  <2> QED
    BY <2>1, <2>2, <2>3 DEF Received, mainVars, stateVars
<1>6. RunsOnce'
  BY <1>4, IdsAreNumbers DEF Protocol, RunsOnce, mainVars, stateVars, Consumed
<1>7. HoldsOnce'
  BY <1>2 DEF Protocol, HoldsOnce, Consumed
<1>8. OverIsQuiet'
  <2> SUFFICES ASSUME NEW k \in Ids, k <= asked, ~Live(k), ~In(Cancelled(k), toRenderer)
               PROVE  Quiet(k)'
    BY <1>4, IdsAreNumbers DEF OverIsQuiet, Consumed, mainVars, stateVars
  <2>1. Quiet(k) /\ k # i
    BY DEF Protocol, OverIsQuiet, Quiet
  <2> QED
    BY <1>2, <2>1, IdsAreNumbers DEF Quiet, Consumed, Active
<1>9. ReadyIsSaved'
  <2>1. replay.decision = "ready" => replay.id \in Ids
    BY RequestShape
  <2>2. replay'.id = replay.id
    BY DEF mainVars, stateVars
  <2>3. replay.decision = "ready" => Answered(replay.id)'
    BY <1>4, <2>1, <2>2 DEF Protocol, ReadyIsSaved
  <2> QED
    BY <2>3 DEF Protocol, ReadyIsSaved, mainVars, stateVars
<1> QED
  BY <1>1, <1>5, <1>6, <1>7, <1>8, <1>9 DEF Protocol

\* A step that leaves the runs alone; a request may come to wait.
LEMMA IdleSteps ==
  ASSUME TypeOK, Protocol,
         UNCHANGED <<mainVars, toMain, run, lock>>, Consumed(0),
         \/ UNCHANGED <<waiting, subscribed>>
         \/ waiting' = 0 /\ waiting = 0 /\ subscribed'
         \/ \E i \in Ids :
              /\ waiting' = i /\ In(Requested(i), toRenderer) /\ UNCHANGED subscribed
              /\ ~subscribed
              /\ \A j \in Ids :
                   In(Requested(j), toRenderer') \/ In(Cancelled(j), toRenderer') => i <= j,
         dirty' = dirty \/ ~dirty' \/ lock = 0
  PROVE  Protocol'
<1>1. OneRequest' /\ Sent'
  BY MainFrame
<1>2. \A k \in Ids : /\ Answered(k)' <=> Answered(k)
                     /\ Ended(k)' <=> Ended(k)
                     /\ Live(k)' <=> Live(k)
                     /\ Active(k)' <=> Active(k)
  BY DEF Answered, Ended, Live, Active, mainVars, stateVars
<1>3. /\ HoldsOnce' /\ ReadyIsSaved'
  BY IdsAreNumbers, RequestShape
  DEF Protocol, HoldsOnce, ReadyIsSaved, Answered, Consumed, mainVars, stateVars
<1>4. CASE waiting' = waiting
  BY <1>1, <1>2, <1>3, <1>4, IdsAreNumbers
  DEF Protocol, Received, RunsOnce, OverIsQuiet, Quiet, Seen, Consumed, mainVars, stateVars
<1>5. CASE waiting' # waiting
  <2>1. PICK i \in Ids :
              /\ waiting' = i /\ In(Requested(i), toRenderer) /\ UNCHANGED subscribed
              /\ ~subscribed
              /\ \A j \in Ids :
                   In(Requested(j), toRenderer') \/ In(Cancelled(j), toRenderer') => i <= j
    BY <1>5
  <2>2. i <= asked
    BY <2>1, MessageTypes, Distinct DEF Protocol, Sent
  <2>3. \A k \in Ids : Seen(k)' => Seen(k) \/ k = i
    BY <2>1 DEF Seen
  <2>4. Received'
    BY <2>1, <2>2, <2>3 DEF Protocol, Received, Consumed, mainVars, stateVars
  <2>5. RunsOnce'
    BY <1>2, <2>1 DEF Protocol, RunsOnce, Consumed, mainVars, stateVars
  <2>6. OverIsQuiet'
    <3> SUFFICES ASSUME NEW k \in Ids, k <= asked, ~Live(k), ~In(Cancelled(k), toRenderer)
                 PROVE  Quiet(k)'
      BY <1>2, IdsAreNumbers DEF OverIsQuiet, Consumed, mainVars, stateVars
    <3>1. Quiet(k) /\ k # i
      BY <2>1 DEF Protocol, OverIsQuiet, Quiet
    <3> QED
      BY <1>2, <2>1, <3>1 DEF Quiet, Consumed
  <2> QED
    BY <1>1, <1>3, <2>4, <2>5, <2>6 DEF Protocol
<1> QED
  BY <1>4, <1>5

LEMMA RequestedSteps ==
  ASSUME TypeOK, Protocol, NEW i \in Ids, toRenderer # <<>>, toRenderer' = Tail(toRenderer),
         Head(toRenderer) = Requested(i), TakeRequest(i),
         UNCHANGED <<mainVars, toMain, lock, subscribed, dirty>>
  PROVE  Protocol'
<1>1. /\ In(Requested(i), toRenderer)
      /\ \A j \in Ids :
           In(Requested(j), toRenderer') \/ In(Cancelled(j), toRenderer') => i <= j
  BY HeadTaken, Distinct DEF Follows
<1>2. Consumed(0)
  BY HeadTaken, Distinct DEF Consumed
<1>3. ~Active(i) => run[i].step = "none"
  BY <1>1 DEF Protocol, RunsOnce, Ended, Active
<1>4. subscribed => waiting = 0
  BY DEF Protocol, Received
<1>5. CASE UNCHANGED <<run, waiting>>
  BY <1>2, <1>5, IdleSteps
<1>6. CASE ~Active(i) /\ subscribed /\ StartRun(i) /\ UNCHANGED waiting
  BY <1>1, <1>2, <1>3, <1>4, <1>6, StartSteps
<1>7. CASE ~subscribed /\ waiting' = i /\ UNCHANGED run
  BY <1>1, <1>2, <1>7, IdleSteps
<1> QED
  BY <1>5, <1>6, <1>7 DEF TakeRequest

LEMMA SubscribeSteps ==
  ASSUME TypeOK, Protocol, Subscribe
  PROVE  Protocol'
<1>1. /\ UNCHANGED <<mainVars, toRenderer, toMain, lock, dirty>>
      /\ ~subscribed /\ subscribed' /\ waiting' = 0 /\ Consumed(0)
  BY NothingConsumed DEF Subscribe
<1>2. CASE waiting = 0
  BY <1>1, <1>2, IdleSteps DEF Subscribe
<1>3. CASE waiting # 0
  <2>1. waiting \in Ids /\ Seen(waiting)
    BY <1>3 DEF TypeOK, Seen
  <2>2. run[waiting].step = "none"
    BY <1>1, <2>1 DEF Protocol, Received
  <2>3. \A j \in Ids :
           In(Requested(j), toRenderer') \/ In(Cancelled(j), toRenderer') => waiting <= j
    BY <1>1, <2>1 DEF Protocol, Received
  <2> QED
    BY <1>1, <1>3, <2>1, <2>2, <2>3, StartSteps DEF Subscribe
<1> QED
  BY <1>2, <1>3

LEMMA DocumentSteps ==
  ASSUME TypeOK, Protocol, Edit \/ Autosave
  PROVE  Protocol'
BY NothingConsumed, IdleSteps DEF Edit, Autosave

\* The cancellation of a request reaches its run.
LEMMA CancelledSteps ==
  ASSUME TypeOK, Protocol, NEW i \in Ids, toRenderer # <<>>, toRenderer' = Tail(toRenderer),
         Head(toRenderer) = Cancelled(i), TakeCancellation(i),
         UNCHANGED <<mainVars, toMain, subscribed, dirty>>
  PROVE  Protocol'
<1>1. In(Cancelled(i), toRenderer) /\ ~Live(i) /\ ~In(Requested(i), toRenderer')
  BY HeadTaken, Distinct DEF Protocol, Sent, Follows
<1>2. Consumed(i)
  BY HeadTaken, Distinct DEF Consumed
<1>3. OneRequest' /\ Sent'
  BY <1>2, MainFrame
<1>4. /\ run'[i].step = run[i].step /\ run'[i].retired = (run[i].retired \/ Active(i))
      /\ \A k \in Ids : k # i => run'[k] = run[k]
      /\ waiting' = (IF waiting = i THEN 0 ELSE waiting)
      /\ lock' = (IF lock = i THEN 0 ELSE lock)
  BY CancelEffect
<1>5. \A k \in Ids : /\ Seen(k)' => Seen(k)
                     /\ Answered(k)' <=> Answered(k)
                     /\ Ended(k)' => Ended(k) \/ k = i
                     /\ Live(k)' <=> Live(k)
                     /\ Active(k)' <=> Active(k)
                     /\ k # i => (lock' = k <=> lock = k) /\ (waiting' = k => waiting = k)
                     /\ lock' # i /\ waiting' # i
  BY <1>4, IdsAreNumbers DEF Seen, Answered, Ended, Live, Active, mainVars, stateVars
<1>6. Received'
  <2>1. lock' <= asked /\ (subscribed => waiting' = 0)
    BY <1>4, Shapes DEF Protocol, Received
  <2>2. \A k \in Ids : Seen(k)' => k <= asked
    BY <1>5 DEF Protocol, Received
  <2>3. \A k, j \in Ids :
          Seen(k)' /\ (In(Requested(j), toRenderer') \/ In(Cancelled(j), toRenderer')) => k <= j
    BY <1>2, <1>5 DEF Protocol, Received, Consumed
  <2>4. \A k \in Ids : run'[k].step = "none" => ~run'[k].retired
    BY <1>4 DEF Protocol, Received, Active
  <2>5. ~subscribed => \A k \in Ids : run'[k].step = "none"
    BY <1>4 DEF Protocol, Received
  <2> QED
    BY <2>1, <2>2, <2>3, <2>4, <2>5 DEF Received, mainVars, stateVars
<1>7. RunsOnce'
  <2>1. ASSUME NEW k \in Ids, Ended(k)'
        PROVE  pending'.id # k /\ waiting' # k /\ ~In(Requested(k), toRenderer')
    BY <1>1, <1>2, <1>5, <2>1
    DEF Protocol, RunsOnce, Consumed, Live, mainVars, stateVars
  <2> QED
    BY <1>2, <1>5, <2>1 DEF Protocol, RunsOnce, Consumed
<1>8. HoldsOnce'
  BY <1>2, <1>4 DEF Protocol, HoldsOnce, Consumed
<1>9. OverIsQuiet'
  <2> SUFFICES ASSUME NEW k \in Ids, k <= asked, ~Live(k), ~In(Cancelled(k), toRenderer')
               PROVE  Quiet(k)'
    BY <1>5 DEF OverIsQuiet, mainVars, stateVars
  <2>1. CASE k = i
    BY <1>1, <1>4, <1>5, <2>1 DEF Quiet
  <2>2. CASE k # i
    <3>1. Quiet(k)
      BY <1>2, <2>2 DEF Protocol, OverIsQuiet, Consumed
    <3> QED
      BY <1>2, <1>4, <1>5, <2>2, <3>1 DEF Quiet, Consumed
  <2> QED
    BY <2>1, <2>2
<1>10. ReadyIsSaved'
  <2>1. ASSUME NEW k \in Ids, pending.id = k, In(Respond(k, "ready"), toMain)
        PROVE  lock' = k /\ ~dirty
    BY <1>1, <1>5, <2>1 DEF Protocol, ReadyIsSaved, Live
  <2>2. ASSUME replay.decision = "ready"
        PROVE  lock' = replay.id /\ ~dirty /\ Answered(replay.id)'
    <3>1. replay.id \in Ids /\ replay.id # i /\ replay'.id = replay.id
      BY <1>1, <2>2, RequestShape DEF Live, mainVars, stateVars
    <3>2. lock = replay.id /\ ~dirty /\ Answered(replay.id)
      BY <2>2 DEF Protocol, ReadyIsSaved
    <3> QED
      BY <1>5, <3>1, <3>2
  <2> QED
    BY <2>1, <2>2 DEF ReadyIsSaved, Answered, mainVars, stateVars
<1> QED
  BY <1>3, <1>6, <1>7, <1>8, <1>9, <1>10 DEF Protocol

\* The answer to a hold: the user is asked, or the run comes to its end.
LEMMA HoldReplySteps ==
  ASSUME TypeOK, Protocol, NEW i \in Ids, toRenderer # <<>>, toRenderer' = Tail(toRenderer),
         NEW ok \in BOOLEAN, Head(toRenderer) = HoldReply(i, ok),
         TakeHoldReply(i, Head(toRenderer).arg),
         UNCHANGED <<mainVars, waiting, lock, subscribed, dirty>>
  PROVE  Protocol'
<1>1. /\ Consumed(0) /\ IsHold(Head(toRenderer), i)
  BY HeadTaken, Distinct DEF Consumed, IsHold
<1>2. ~NoHold(i, toRenderer) /\ OneHold(i, toRenderer)
  BY <1>1, HeadTaken DEF Protocol, HoldsOnce
<1>3. run[i].step = "holding" /\ NoHold(i, toMain) /\ NoHold(i, toRenderer')
  BY <1>1, <1>2, HeadTaken DEF Protocol, HoldsOnce
<1>4. CASE Finish(i, "cancel")
  BY <1>1, <1>3, <1>4, FinishSteps DEF Working, Decisions
<1>5. CASE GoTo(i, "prompting") /\ UNCHANGED toMain
  <2>1. /\ run'[i].step = "prompting" /\ run'[i].retired = run[i].retired
        /\ \A k \in Ids : k # i => run'[k] = run[k]
    BY <1>5, GoToEffect DEF RunStep
  <2>2. HoldsOnce'
    BY <1>1, <1>3, <1>5, <2>1 DEF Protocol, HoldsOnce, Consumed
  <2> QED
    BY <1>1, <1>3, <1>5, <2>1, <2>2, AdvanceSteps DEF Working
<1> QED
  BY <1>4, <1>5 DEF TakeHoldReply

\* The receipt of an answer ends its run.
LEMMA ReplySteps ==
  ASSUME TypeOK, Protocol, NEW i \in Ids, toRenderer # <<>>, toRenderer' = Tail(toRenderer),
         Head(toRenderer) = Reply(i), GoTo(i, "done"),
         UNCHANGED <<mainVars, toMain, waiting, lock, subscribed, dirty>>
  PROVE  Protocol'
<1>1. /\ In(Reply(i), toRenderer) /\ pending.id # i /\ Answered(i)
      /\ ~In(Requested(i), toRenderer')
  BY HeadTaken, Distinct DEF Protocol, Sent, RunsOnce, Follows
<1>2. Consumed(0)
  BY HeadTaken, Distinct DEF Consumed
<1>3. OneRequest' /\ Sent'
  BY <1>2, MainFrame
<1>4. /\ run'[i].step = "done" /\ run'[i].retired = run[i].retired
      /\ \A k \in Ids : k # i => run'[k] = run[k]
  BY GoToEffect DEF RunStep
<1>5. /\ Seen(i) /\ run[i].step # "none" /\ run[i].step # "holding" /\ subscribed
      /\ waiting = 0 /\ i # 0
  BY <1>1, IdsAreNumbers DEF Answered, Seen, Protocol, Received
<1>6. \A k \in Ids : /\ Seen(k)' => Seen(k)
                     /\ Answered(k) => Answered(k)'
                     /\ Ended(k)' => Ended(k) \/ k = i
                     /\ Live(k)' <=> Live(k)
                     /\ Active(k)' => Active(k) /\ run'[k] = run[k]
  BY <1>4, <1>5 DEF Seen, Answered, Ended, Live, Active, mainVars, stateVars
<1>7. Received'
  <2>1. \A k, j \in Ids :
          Seen(k)' /\ (In(Requested(j), toRenderer') \/ In(Cancelled(j), toRenderer')) => k <= j
    BY <1>2, <1>6 DEF Protocol, Received, Consumed
  <2> QED
    BY <1>4, <1>5, <1>6, <2>1 DEF Protocol, Received, mainVars, stateVars
<1>8. RunsOnce'
  <2>1. ASSUME NEW k \in Ids, Ended(k)'
        PROVE  pending'.id # k /\ waiting' # k /\ ~In(Requested(k), toRenderer')
    BY <1>1, <1>2, <1>5, <1>6, <2>1
    DEF Protocol, RunsOnce, Consumed, mainVars, stateVars
  <2> QED
    BY <1>2, <1>6, <2>1 DEF Protocol, RunsOnce, Consumed
<1>9. HoldsOnce'
  BY <1>2, <1>4, <1>5 DEF Protocol, HoldsOnce, Consumed
<1>10. OverIsQuiet'
  <2> SUFFICES ASSUME NEW k \in Ids, k <= asked, ~Live(k), ~In(Cancelled(k), toRenderer)
               PROVE  Quiet(k)'
    BY <1>2, <1>6, IdsAreNumbers DEF OverIsQuiet, Consumed, mainVars, stateVars
  <2>1. Quiet(k)
    BY DEF Protocol, OverIsQuiet
  <2> QED
    BY <1>2, <1>6, <2>1 DEF Quiet, Consumed
<1>11. ReadyIsSaved'
  <2>1. replay.decision = "ready" => replay.id \in Ids
    BY RequestShape
  <2>2. replay'.id = replay.id
    BY DEF mainVars, stateVars
  <2>3. replay.decision = "ready" => Answered(replay.id)'
    BY <1>6, <2>1, <2>2 DEF Protocol, ReadyIsSaved
  <2> QED
    BY <2>3 DEF Protocol, ReadyIsSaved, mainVars, stateVars
<1> QED
  BY <1>3, <1>7, <1>8, <1>9, <1>10, <1>11 DEF Protocol

LEMMA ReceiveSteps ==
  ASSUME TypeOK, Protocol, Receive
  PROVE  Protocol'
BY ReceiveCases, RequestedSteps, CancelledSteps, HoldReplySteps, ReplySteps

LEMMA ProtocolStep ==
  ASSUME TypeOK, CloseInv, Next
  PROVE  CloseInv'
<1> SUFFICES ASSUME window' # "closed" PROVE Protocol'
  BY DEF CloseInv
<1>1. window # "closed" => Protocol
  BY DEF CloseInv
<1>2. CASE Closed
  BY <1>2 DEF Closed, vars, mainVars
<1>3. CASE window # "closed"
  BY <1>1, <1>2, <1>3, EventSteps, HandleMessageSteps, TimerSteps, DialogSteps, UnloadSteps,
     ReceiveSteps, SubscribeSteps, BarrierSteps, DocumentSteps
  DEF Next, Main, Event
<1>4. CASE window = "closed"
  BY <1>2, <1>4
  DEF Next, Main, UserCloses, UserQuits, ReplayClose, HandleMessage, TimerFires, DialogAnswered,
      Unload, Receive, Subscribe, Barrier, EditorsPrepared, Flushed, FlushFails,
      PromptAnswered, Edit, Autosave
<1> QED
  BY <1>3, <1>4

-----------------------------------------------------------------------------
(* Permits.                                                                *)

PermitInv == permitClose \/ permitQuit \/ window = "unloading" => replay # NoReplay

LEMMA PermitStep ==
  ASSUME TypeOK, CloseInv, PermitInv, Next
  PROVE  PermitInv'
<1>1. /\ NoReplay \notin [id : Ids, intent : {"window", "quit"}, decision : {"ready", "force"}]
      /\ permitClose \in BOOLEAN /\ permitQuit \in BOOLEAN
  BY DEF NoReplay, TypeOK
<1>2. CASE Event
  <2>1. CASE Passes \/ Stale
    BY <1>1, <2>1 DEF Passes, Stale, PermitInv, stateVars
  <2>2. CASE Asks
    <3>1. PICK intent \in {"window", "quit"} : RequestClose(intent)
      BY <2>2 DEF Asks
    <3>2. \/ UNCHANGED <<replay, permitQuit>>
          \/ replay' \in [id : Ids, intent : {"window", "quit"}, decision : {"ready", "force"}]
      BY <3>1, RequestCloseCases
    <3> QED
      BY <1>1, <2>2, <3>2 DEF Asks, PermitInv
  <2> QED
    BY <1>2, <2>1, <2>2, EventCases
<1>3. ASSUME NEW i \in Ids, GivesUp(i), window # "closed", UNCHANGED window PROVE PermitInv'
  <2>1. pending.id # 0
    BY <1>3, IdsAreNumbers DEF GivesUp
  <2>2. replay = NoReplay
    BY <1>3, <2>1, RequestShape DEF CloseInv, Protocol, OneRequest
  <2> QED
    BY <1>3, <2>2 DEF GivesUp, PermitInv
<1>4. CASE HandleMessage
  <2>1. PICK i \in Ids : Answers(i)
    BY <1>4, HandleMessageCases
  <2>2. window # "closed" /\ UNCHANGED window
    BY <1>4 DEF HandleMessage
  <2> QED
    BY <1>1, <1>3, <2>1, <2>2 DEF Answers, LetsThrough, PermitInv
<1>5. ASSUME NEW choice \in Choices, DialogAnswered(choice) PROVE PermitInv'
  <2>1. window # "closed" /\ UNCHANGED window
    BY <1>5 DEF DialogAnswered
  <2> QED
    BY <1>1, <1>3, <1>5, <2>1, DialogCases DEF LetsThrough, PermitInv, stateVars
<1>6. CASE Unload
  BY <1>6 DEF Unload, ClearReplay, PermitInv
<1>7. CASE \/ TimerFires \/ Receive \/ Subscribe \/ Edit \/ Autosave \/ Closed
           \/ \E i \in Ids : Barrier(i)
  BY <1>7
  DEF TimerFires, Receive, Subscribe, Edit, Autosave, Closed, Barrier, EditorsPrepared,
      Flushed, FlushFails, PromptAnswered, PermitInv, vars, mainVars, stateVars
<1> QED
  BY <1>2, <1>4, <1>5, <1>6, <1>7 DEF Next, Main, Event

-----------------------------------------------------------------------------
(* Theorems.                                                               *)

Inv == TypeOK /\ CloseInv /\ PermitInv

LEMMA InvInit == Init => Inv
BY TypeInit, ProtocolInit DEF Inv, CloseInv, PermitInv, Init

LEMMA InvNext == Inv /\ [Next]_vars => Inv'
<1>1. CASE UNCHANGED vars
  <2> SUFFICES ASSUME Inv PROVE Inv'
    BY <1>1
  <2>1. TypeOK'
    BY <1>1, TypeNext DEF Inv
  <2>2. CloseInv'
    BY <1>1, SameSteps DEF Inv, CloseInv, SameProtocol, vars, mainVars, stateVars
  <2>3. PermitInv'
    BY <1>1 DEF Inv, PermitInv, vars, mainVars, stateVars
  <2> QED
    BY <2>1, <2>2, <2>3 DEF Inv
<1>2. CASE Next
  BY <1>2, TypeNext, ProtocolStep, PermitStep DEF Inv
<1> QED
  BY <1>1, <1>2

\* While the window is there, the runs, the queues and the state of the main
\* process agree about which request is in progress, answered or over, and every
\* permit belongs to a request being replayed.
THEOREM ProtocolHolds == Spec => []Inv
BY InvInit, InvNext, PTL DEF Spec

\* The canvas is locked only for a request that main works on or replays, or
\* whose cancellation is on its way to the renderer.
THEOREM CanvasIsUnlocked == Spec => []LockIsReleased
<1>1. Inv => LockIsReleased
  <2> SUFFICES ASSUME Inv, lock # 0, window # "closed", ~Live(lock)
               PROVE  In(Cancelled(lock), toRenderer)
    BY DEF LockIsReleased, Live, In
  <2>1. lock \in Ids /\ lock <= asked
    BY DEF Inv, TypeOK, CloseInv, Protocol, Received
  <2> QED
    BY <2>1 DEF Inv, CloseInv, Protocol, OverIsQuiet, Quiet
<1> QED
  BY <1>1, ProtocolHolds, PTL

\* The window closes only after a decision, with the canvas saved unless that
\* decision was the user's to force it.
THEOREM WindowClosesSaved == Spec => ClosedMeansSaved
<1>1. Inv /\ [Next]_vars =>
        [window' = "closed" /\ window # "closed" => ~dirty \/ replay.decision = "force"]_vars
  <2> SUFFICES ASSUME Inv, Next, window' = "closed", window # "closed"
               PROVE  ~dirty \/ replay.decision = "force"
    OBVIOUS
  <2>1. window = "unloading"
    <3>1. CASE Event
      BY <3>1, EventCases
      DEF Inv, Asks, Passes, Stale
    <3>2. CASE Unload
      BY <3>2 DEF Unload
    <3>3. CASE ~Event /\ ~Unload
      BY <3>3
      DEF Next, Event, Main, HandleMessage, DialogAnswered, TimerFires, Receive, Subscribe, Edit,
          Autosave, Closed, Barrier, EditorsPrepared, Flushed, FlushFails, PromptAnswered,
          mainVars
    <3> QED
      BY <3>1, <3>2, <3>3
  <2>2. replay # NoReplay
    BY <2>1 DEF Inv, PermitInv
  <2>3. replay.decision \in {"ready", "force"}
    BY <2>2, RequestShape DEF Inv
  <2> QED
    BY <2>3 DEF Inv, CloseInv, Protocol, ReadyIsSaved
<1> QED
  BY <1>1, ProtocolHolds, PTL DEF Spec, ClosedMeansSaved

\* A run that is done takes no further step.
LEMMA DoneStays ==
  ASSUME Inv, Next, NEW k \in Ids, run[k].step = "done"
  PROVE  run'[k].step = "done"
<1>1. TypeOK /\ (window # "closed" => Protocol)
  BY DEF Inv, CloseInv
<1>2. window # "closed" => waiting # k /\ k # 0 /\ ~In(Requested(k), toRenderer)
  BY <1>1, IdsAreNumbers DEF Protocol, RunsOnce, Ended
<1>3. {"ready", "force", "cancel"} \subseteq Decisions
      /\ {"editors", "flushing", "holding", "prompting", "done"} \subseteq RunStep
  BY DEF Decisions, RunStep
<1>4. CASE Receive
  <2>1. window # "closed" /\ Protocol /\ toRenderer # <<>> /\ toRenderer' = Tail(toRenderer)
    BY <1>1, <1>4 DEF Receive
  <2>2. PICK i \in Ids :
              \/ Head(toRenderer) = Requested(i) /\ TakeRequest(i)
              \/ TakeCancellation(i)
              \/ /\ \E ok \in BOOLEAN : Head(toRenderer) = HoldReply(i, ok)
                 /\ TakeHoldReply(i, Head(toRenderer).arg)
              \/ GoTo(i, "done")
    BY <1>1, <1>4, ReceiveCases, Zenon
  <2>3. CASE Head(toRenderer) = Requested(i) /\ TakeRequest(i)
    <3>1. In(Requested(i), toRenderer)
      BY <1>1, <2>1, <2>3, HeadTaken
    <3>2. i # k
      BY <1>2, <2>1, <3>1
    <3> QED
      BY <1>1, <2>3, <3>2, StartEffect DEF TakeRequest
  <2>4. CASE TakeCancellation(i)
    BY <1>1, <2>4, CancelEffect
  <2>5. CASE /\ \E ok \in BOOLEAN : Head(toRenderer) = HoldReply(i, ok)
             /\ TakeHoldReply(i, Head(toRenderer).arg)
    <3>1. ~NoHold(i, toRenderer)
      <4>1. IsHold(Head(toRenderer), i)
        BY <2>5, Distinct DEF IsHold
      <4> QED
        BY <1>1, <2>1, <4>1, HeadTaken
    <3>2. i # k
      BY <2>1, <3>1 DEF Protocol, HoldsOnce
    <3> QED
      BY <1>1, <1>3, <2>5, <3>2, GoToEffect, FinishEffect DEF TakeHoldReply
  <2>6. CASE GoTo(i, "done")
    BY <1>1, <1>3, <2>6, GoToEffect
  <2> QED
    BY <2>2, <2>3, <2>4, <2>5, <2>6
<1>5. CASE Subscribe
  <2>1. waiting # 0 => waiting \in Ids /\ waiting # k
    BY <1>1, <1>2, <1>5 DEF TypeOK, Subscribe
  <2> QED
    BY <1>1, <1>5, <2>1, StartEffect DEF Subscribe
<1>6. ASSUME NEW i \in Ids, Barrier(i) PROVE run'[k].step = "done"
  <2>1. /\ run[i].step # "done"
        /\ \/ \E decision \in Decisions : Finish(i, decision)
           \/ \E step \in RunStep : GoTo(i, step)
    BY <1>3, <1>6 DEF Barrier, EditorsPrepared, Flushed, FlushFails, PromptAnswered
  <2> QED
    BY <1>1, <2>1, GoToEffect, FinishEffect
<1>7. CASE Event
  BY <1>1, <1>7, EventCases DEF rendererVars
<1>8. CASE Main \/ Edit \/ Autosave \/ Closed
  BY <1>8
  DEF Main, HandleMessage, TimerFires, DialogAnswered, Unload, Edit, Autosave, Closed, vars,
      rendererVars
<1> QED
  BY <1>4, <1>5, <1>6, <1>7, <1>8 DEF Next, Event

\* The barriers of a request run once: a request announced again, or an answer
\* that crosses its cancellation, starts no second save.
THEOREM RunsOnceOnly == Spec => BarriersRunOnce
<1>1. Inv /\ [Next]_vars => [\A id \in Ids : run[id].step = "done" => run'[id].step = "done"]_vars
  BY DoneStays
<1> QED
  BY <1>1, ProtocolHolds, PTL DEF Spec, BarriersRunOnce

-----------------------------------------------------------------------------
(* The refinement of GuardedClose.                                         *)

\* The abstract state of a window that is there.
LEMMA PhaseCases ==
  ASSUME Inv, window # "closed"
  PROVE  /\ window \in {"open", "unloading"}
         /\ pending # NoRequest =>
              /\ window = "open" /\ replay = NoReplay
              /\ Phase = "asked" /\ Intent = pending.intent /\ Intent \in {"window", "quit"}
         /\ pending = NoRequest /\ replay = NoReplay =>
              window = "open" /\ Phase = "open" /\ Intent = "none"
         /\ replay # NoReplay =>
              /\ pending = NoRequest /\ Intent = replay.intent /\ Intent \in {"window", "quit"}
              /\ Phase = IF window = "unloading" THEN "leaving" ELSE "granted"
<1>1. window \in {"open", "unloading"}
  BY DEF Inv, TypeOK
<1>2. pending = NoRequest \/ replay = NoReplay
  BY RequestShape DEF Inv, CloseInv, Protocol, OneRequest
<1>3. NoReplay.intent = "none"
  BY DEF NoReplay
<1> QED
  BY <1>1, <1>2, <1>3, RequestShape DEF Inv, PermitInv, Phase, Intent

\* Main and the renderer go on as before.
LEMMA GuardedStutter ==
  ASSUME UNCHANGED <<window, pending, replay, asked, dirty>>
  PROVE  UNCHANGED Guarded!vars
BY DEF Guarded!vars, Phase, Intent

\* The document is edited or saved.
LEMMA GuardedDocument ==
  ASSUME Inv, window # "closed", UNCHANGED <<window, pending, replay, asked>>,
         dirty' = dirty \/ dirty' = FALSE \/ (dirty' = TRUE /\ lock = 0)
  PROVE  Guarded!Next \/ UNCHANGED Guarded!vars
<1>1. UNCHANGED <<Phase, Intent, asked, replay.decision>>
  BY DEF Phase, Intent
<1>2. Phase # "closed"
  BY PhaseCases
<1>3. CASE dirty' = dirty
  BY <1>3, GuardedStutter
<1>4. CASE dirty' = FALSE
  BY <1>1, <1>2, <1>4 DEF Guarded!Next, Guarded!Save
<1>5. CASE dirty' = TRUE /\ lock = 0
  <2>1. replay.decision # "ready"
    BY <1>5, IdsAreNumbers, RequestShape
    DEF Inv, CloseInv, Protocol, ReadyIsSaved
  <2> QED
    BY <1>1, <1>2, <1>5, <2>1 DEF Guarded!Next, Guarded!Edit
<1> QED
  BY <1>3, <1>4, <1>5

\* A decision about the request in progress.
LEMMA GuardedGrant ==
  ASSUME Inv, window # "closed", NEW i \in Ids, NEW choice \in {"ready", "force"},
         LetsThrough(i, choice), choice = "ready" => ~dirty, UNCHANGED <<window, asked, dirty>>
  PROVE  Guarded!Next
<1>1. pending # NoRequest
  BY IdsAreNumbers, RequestShape DEF Inv, LetsThrough
<1>2. replay' # NoReplay /\ pending' = NoRequest /\ replay'.decision = choice
      /\ replay'.intent = pending.intent
  BY DEF LetsThrough, NoReplay
<1>3. Phase = "asked" /\ window = "open" /\ Intent = pending.intent
  BY <1>1, PhaseCases
<1>4. Phase' = "granted" /\ Intent' = Intent
  BY <1>2, <1>3 DEF Phase, Intent
<1> QED
  BY <1>2, <1>3, <1>4 DEF Guarded!Next, Guarded!Grant

LEMMA GuardedRefusal ==
  ASSUME Inv, window # "closed", NEW i \in Ids, GivesUp(i), UNCHANGED <<window, asked, dirty>>
  PROVE  Guarded!Next
<1>1. pending # NoRequest
  BY IdsAreNumbers, RequestShape DEF Inv, GivesUp
<1>2. Phase = "asked" /\ window = "open"
  BY <1>1, PhaseCases
<1>3. Phase' = "open" /\ Intent' = "none" /\ replay'.decision = "none"
  BY <1>2 DEF GivesUp, Phase, Intent, NoReplay
<1> QED
  BY <1>2, <1>3 DEF Guarded!Next, Guarded!Refuse, Guarded!BackToWork

\* A close or quit event asks, joins a request in progress, or passes with the
\* permit of its own request.
LEMMA GuardedEvent ==
  ASSUME Inv, Event
  PROVE  Guarded!Next \/ UNCHANGED Guarded!vars
<1>1. window # "closed" /\ UNCHANGED dirty /\ TypeOK
  BY EventCases DEF Inv, rendererVars
<1>2. CASE Stale
  BY <1>1, <1>2, GuardedStutter DEF Stale, stateVars
<1>3. CASE Passes
  <2>1. replay # NoReplay
    BY <1>3 DEF Inv, PermitInv, Passes
  <2>2. Phase' = "leaving" /\ Intent' = Intent
    BY <1>1, <1>3, <2>1, PhaseCases DEF Passes, Phase, Intent
  <2>3. CASE window = "unloading"
    BY <1>1, <1>3, <2>3, GuardedStutter DEF Passes
  <2>4. CASE window = "open"
    <3>1. Phase = "granted"
      BY <1>1, <2>1, <2>4, PhaseCases
    <3> QED
      BY <1>1, <1>3, <2>2, <3>1 DEF Guarded!Next, Guarded!Leave, Passes
  <2> QED
    BY <1>1, <2>3, <2>4, PhaseCases
<1>4. CASE Asks
  <2>1. PICK intent \in {"window", "quit"} : RequestClose(intent)
    BY <1>4 DEF Asks
  <2>2. UNCHANGED window
    BY <1>4 DEF Asks
  <2>3. NoRequest \notin [id : Ids, intent : {"window", "quit"}]
        /\ NoReplay \notin [id : Ids, intent : {"window", "quit"}, decision : {"ready", "force"}]
    BY DEF NoRequest, NoReplay
  <2>4. CASE /\ pending # NoRequest
             /\ pending' \in [id : Ids, intent : {"window", "quit"}]
             /\ pending.intent = "window" /\ pending'.intent = "quit"
             /\ UNCHANGED <<replay, asked>>
    <3>1. Phase = "asked" /\ Intent = "window"
      BY <1>1, <2>4, PhaseCases
    <3>2. Phase' = "asked" /\ Intent' = "quit"
      BY <1>1, <2>2, <2>3, <2>4 DEF Phase, Intent
    <3> QED
      BY <1>1, <2>4, <3>1, <3>2 DEF Guarded!Next, Guarded!Upgrade
  <2>5. CASE /\ replay # NoReplay
             /\ replay' \in [id : Ids, intent : {"window", "quit"}, decision : {"ready", "force"}]
             /\ replay'.decision = replay.decision
             /\ replay.intent = "window" /\ replay'.intent = "quit"
             /\ UNCHANGED <<pending, asked>>
    <3>1. Phase \in {"granted", "leaving"} /\ Intent = "window" /\ pending = NoRequest
      BY <1>1, <2>5, PhaseCases
    <3>2. Phase' = Phase /\ Intent' = "quit"
      BY <1>1, <2>2, <2>3, <2>5, <3>1 DEF Phase, Intent
    <3> QED
      BY <1>1, <2>5, <3>1, <3>2 DEF Guarded!Next, Guarded!Upgrade
  <2>6. CASE UNCHANGED <<pending, replay, asked>>
    BY <1>1, <2>2, <2>6, GuardedStutter
  <2>7. CASE /\ pending = NoRequest /\ replay = NoReplay
             /\ asked' = asked + 1
             /\ pending' \in [id : Ids, intent : {"window", "quit"}]
             /\ UNCHANGED replay
    <3>1. Phase = "open"
      BY <1>1, <2>7, PhaseCases
    <3>2. Phase' = "asked" /\ Intent' \in {"window", "quit"}
      BY <1>1, <2>2, <2>3, <2>7 DEF Phase, Intent
    <3> QED
      BY <1>1, <2>7, <3>1, <3>2 DEF Guarded!Next, Guarded!Ask
  <2> QED
    BY <1>1, <2>1, <2>4, <2>5, <2>6, <2>7, RequestCloseCases
<1> QED
  BY <1>1, <1>2, <1>3, <1>4, EventCases

\* The page goes, or one of its handlers keeps it.
LEMMA GuardedUnload ==
  ASSUME Inv, Unload
  PROVE  Guarded!Next
<1>1. /\ window = "unloading" /\ window' \in {"open", "closed"}
      /\ replay' = NoReplay /\ UNCHANGED <<asked, dirty>>
      /\ window' = "open" => UNCHANGED pending /\ replay.decision # "force"
  BY DEF Unload, ClearReplay, rendererVars
<1>2. replay # NoReplay /\ pending = NoRequest /\ Phase = "leaving"
  BY <1>1, PhaseCases DEF Inv, PermitInv
<1>3. replay'.decision = "none" /\ replay'.intent = "none"
  BY <1>1 DEF NoReplay
<1>4. CASE window' = "open"
  <2>1. Phase' = "open" /\ Intent' = "none"
    BY <1>1, <1>2, <1>3, <1>4 DEF Phase, Intent
  <2> QED
    BY <1>1, <1>2, <1>3, <1>4, <2>1 DEF Guarded!Next, Guarded!Veto, Guarded!BackToWork
<1>5. CASE window' = "closed"
  <2>1. Phase' = "closed" /\ Intent' = "none"
    BY <1>3, <1>5 DEF Phase, Intent, Unload
  <2>2. ~dirty \/ replay.decision = "force"
    BY <1>1, <1>2, RequestShape DEF Inv, CloseInv, Protocol, ReadyIsSaved
  <2> QED
    BY <1>1, <1>2, <1>3, <2>1, <2>2 DEF Guarded!Next, Guarded!Close
<1> QED
  BY <1>1, <1>4, <1>5

LEMMA GuardedMessage ==
  ASSUME Inv, HandleMessage
  PROVE  Guarded!Next \/ UNCHANGED Guarded!vars
<1>1. window # "closed" /\ UNCHANGED <<window, asked, dirty>> /\ TypeOK
  BY DEF HandleMessage, Inv, rendererVars
<1>2. PICK i \in Ids : Answers(i)
  BY <1>1, HandleMessageCases
<1>3. toMain # <<>> /\ In(Head(toMain), toMain)
  <2>1. toMain # <<>> /\ toMain \in Seq(FromRenderer)
    BY <1>1 DEF HandleMessage, TypeOK
  <2> QED
    BY <2>1, TailShape DEF In
<1>4. CASE UNCHANGED <<pending, replay>>
  BY <1>1, <1>4, GuardedStutter
<1>5. CASE \E choice \in {"ready", "force"} :
             Head(toMain) = Respond(i, choice) /\ LetsThrough(i, choice)
  <2>1. PICK choice \in {"ready", "force"} :
               Head(toMain) = Respond(i, choice) /\ LetsThrough(i, choice)
    BY <1>5
  <2>2. choice = "ready" => ~dirty
    BY <1>1, <1>3, <2>1 DEF LetsThrough, Inv, CloseInv, Protocol, ReadyIsSaved
  <2> QED
    BY <1>1, <2>1, <2>2, GuardedGrant
<1>6. CASE GivesUp(i)
  BY <1>1, <1>6, GuardedRefusal
<1> QED
  BY <1>2, <1>4, <1>5, <1>6 DEF Answers

LEMMA GuardedDialog ==
  ASSUME Inv, NEW choice \in Choices, DialogAnswered(choice)
  PROVE  Guarded!Next \/ UNCHANGED Guarded!vars
<1>1. window # "closed" /\ UNCHANGED <<window, dirty>> /\ TypeOK
  BY DEF DialogAnswered, Inv, rendererVars
<1>2. CASE UNCHANGED stateVars
  BY <1>1, <1>2, GuardedStutter DEF stateVars
<1>3. CASE LetsThrough(dialog, "force") /\ dialog \in Ids /\ UNCHANGED asked
  BY <1>1, <1>3, GuardedGrant
<1>4. CASE GivesUp(dialog) /\ dialog \in Ids /\ UNCHANGED asked
  BY <1>1, <1>4, GuardedRefusal
<1> QED
  BY <1>1, <1>2, <1>3, <1>4, DialogCases

\* The renderer only edits and saves.
LEMMA GuardedRenderer ==
  ASSUME Inv, \/ Receive \/ Subscribe \/ Edit \/ Autosave \/ TimerFires \/ Closed
              \/ \E i \in Ids : Barrier(i)
  PROVE  Guarded!Next \/ UNCHANGED Guarded!vars
<1>1. CASE Receive \/ Subscribe \/ TimerFires \/ Closed
  BY <1>1, GuardedStutter
  DEF Receive, Subscribe, TimerFires, Closed, vars, mainVars, stateVars, rendererVars
<1>2. CASE Edit \/ Autosave
  BY <1>2, GuardedDocument DEF Edit, Autosave, mainVars, stateVars
<1>3. ASSUME NEW i \in Ids, Barrier(i) PROVE Guarded!Next \/ UNCHANGED Guarded!vars
  <2>1. /\ window # "closed" /\ UNCHANGED mainVars
        /\ dirty' = dirty \/ dirty' = FALSE
    BY <1>3 DEF Barrier, EditorsPrepared, Flushed, FlushFails, PromptAnswered
  <2> QED
    BY <2>1, GuardedDocument DEF mainVars, stateVars
<1> QED
  BY <1>1, <1>2, <1>3

LEMMA GuardedNext == Inv /\ [Next]_vars => [Guarded!Next]_(Guarded!vars)
<1>1. CASE UNCHANGED vars
  BY <1>1, GuardedStutter DEF vars, mainVars, stateVars, rendererVars
<1>2. CASE Next
  BY <1>2, GuardedEvent, GuardedUnload, GuardedMessage, GuardedDialog, GuardedRenderer
  DEF Next, Main, Event
<1> QED
  BY <1>1, <1>2

LEMMA GuardedInit == Init => Guarded!Init
BY DEF Init, Guarded!Init, Phase, Intent, NoRequest, NoReplay

\* The two processes, their channels, the timer and the dialog implement one
\* guarded close: nothing closes the window but the decision of its own request,
\* and a request that was refused or vetoed leaves nothing behind.
THEOREM ClosesAreGuarded == Spec => ExitsAreGuarded
<1>1. Inv /\ [Next]_vars => [Guarded!Next]_(Guarded!vars)
  BY GuardedNext
<1> QED
  BY <1>1, GuardedInit, ProtocolHolds, PTL DEF Spec, ExitsAreGuarded, Guarded!Spec
=============================================================================
