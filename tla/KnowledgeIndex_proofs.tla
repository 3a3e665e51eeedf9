------------------------ MODULE KnowledgeIndex_proofs ------------------------
(***************************************************************************)
(* The stored units are fenced by the claim of the newest change, and once *)
(* that change's job has completed they are those of the source.  From that*)
(* the Knowledge queue implements KnowledgeIndex, for every number of      *)
(* workers, sources, edits and crashes: a step that stores units is a      *)
(* Refresh, a completion is a Settle, an edit or a rebuild is a Change, and *)
(* every other step stutters.                                              *)
(***************************************************************************)
EXTENDS KnowledgeQueue_proofs

USE QueueAssumption

\* A source has at most one newest change.
LEMMA NewestUnique ==
  ASSUME TypeOK, NEW s, NEW c, NEW d, Newest(s, c), Newest(s, d)
  PROVE  c = d
<1>1. c \in Nat /\ d \in Nat
  BY DEF Newest
<1> QED
  BY <1>1 DEF Newest

\* A job that is not superseded is the one of its source's newest change.
LEMMA NotSuperseded ==
  ASSUME TypeOK, NEW w \in Workers, Busy(w), ~Superseded(worker[w].job)
  PROVE  Newest(JobSource(w), worker[w].job)
BY ClaimedJob DEF Busy, Superseded, Newest, JobSource

\* Only persist and retire transactions of a valid claim on the newest change
\* touch stored units.
LEMMA UnitsChange ==
  ASSUME TypeOK, Next, NEW s \in Sources, derived'[s] # derived[s]
  PROVE  \E w \in Workers :
           /\ Busy(w) /\ LeaseOk(w) /\ Newest(s, worker[w].job)
           /\ UNCHANGED <<job, sourceVars>>
           /\ \A v \in Workers : v # w => worker'[v] = worker[v]
           /\ worker'[w].step = "finishing"
           /\ \/ /\ worker[w].step = "extracting" /\ StillCurrent(w)
                 /\ derived'[s] = worker[w].snap
              \/ worker[w].step = "retiring" /\ derived'[s] = 0
<1>1. derived \in [Sources -> Nat] /\ worker \in [Workers -> WorkerState]
  BY DEF TypeOK, DerivedTyped, WorkersTyped
<1>2. ASSUME NEW w \in Workers, PersistExtract(w) \/ Retire(w) PROVE
           /\ Busy(w) /\ LeaseOk(w) /\ Newest(s, worker[w].job)
           /\ UNCHANGED <<job, sourceVars>>
           /\ \A v \in Workers : v # w => worker'[v] = worker[v]
           /\ worker'[w].step = "finishing"
           /\ \/ /\ worker[w].step = "extracting" /\ StillCurrent(w)
                 /\ derived'[s] = worker[w].snap
              \/ worker[w].step = "retiring" /\ derived'[s] = 0
  <2>1. Busy(w) /\ LeaseOk(w) /\ UNCHANGED <<job, sourceVars>>
    BY <1>2 DEF PersistExtract, Retire, Busy, derivedVars
  <2>2. ~Superseded(worker[w].job) /\ JobSource(w) = s
    BY <1>1, <1>2 DEF PersistExtract, Retire, StillCurrent, derivedVars
  <2>3. Newest(s, worker[w].job)
    BY <2>1, <2>2, NotSuperseded
  <2>4. /\ \A v \in Workers : v # w => worker'[v] = worker[v]
        /\ worker'[w].step = "finishing"
    BY <1>1, <1>2 DEF PersistExtract, Retire, GoTo, WorkerState, derivedVars
  <2>5. \/ /\ worker[w].step = "extracting" /\ StillCurrent(w)
           /\ derived'[s] = worker[w].snap
        \/ worker[w].step = "retiring" /\ derived'[s] = 0
    BY <1>1, <1>2, <2>2 DEF PersistExtract, Retire, derivedVars
  <2> QED
    BY <2>1, <2>3, <2>4, <2>5
<1>3. \E w \in Workers : PersistExtract(w) \/ Retire(w)
  BY DEF Next, Edit, Save, SoftDelete, Restore, TrashWork, RestoreWork, RunOnce, Dispatch,
     ClaimNext, Start, PrepareExtract, PrepareRemove, Reindex, ExtractThrows,
     MarkRevisionFailed, Complete, Fail, Heartbeat, Crash, Clock, LeaseExpires, BecomesDue,
     Cancel, CancelForSource, derivedVars
<1> QED
  BY <1>2, <1>3

\* A revision's extraction_status is written under the same fence, and a worker
\* that goes on to finish its job has written "ready".
LEMMA StatusChange ==
  ASSUME TypeOK, Next, NEW s \in Sources, extraction'[s] # extraction[s]
  PROVE  \E w \in Workers :
           /\ Busy(w) /\ worker[w].step # "claimed" /\ LeaseOk(w)
           /\ Newest(s, worker[w].job)
           /\ UNCHANGED job
           /\ worker'[w] # worker[w]
           /\ worker'[w].step = "finishing" => extraction'[s] = "ready"
<1>1. ASSUME NEW w \in Workers,
             PrepareExtract(w) \/ PersistExtract(w) \/ MarkRevisionFailed(w)
      PROVE  /\ Busy(w) /\ worker[w].step # "claimed" /\ LeaseOk(w)
             /\ Newest(s, worker[w].job)
             /\ UNCHANGED job
             /\ worker'[w] # worker[w]
             /\ worker'[w].step = "finishing" => extraction'[s] = "ready"
  <2>1. /\ Busy(w) /\ worker[w].step # "claimed" /\ LeaseOk(w)
        /\ ~Superseded(worker[w].job) /\ JobSource(w) = s
    BY <1>1 DEF PrepareExtract, PersistExtract, MarkRevisionFailed, SetExtraction,
       StillCurrent, Busy, derivedVars, TypeOK, DerivedTyped
  <2>2. Newest(s, worker[w].job)
    BY <2>1, NotSuperseded
  <2>3. UNCHANGED job
    BY <1>1 DEF PrepareExtract, PersistExtract, MarkRevisionFailed
  <2>4. ASSUME worker'[w].step = "finishing" PROVE extraction'[s] = "ready"
    <3>1. /\ worker \in [Workers -> WorkerState]
          /\ extraction \in [Sources -> {"pending", "running", "ready", "failed"}]
      BY DEF TypeOK, WorkersTyped, DerivedTyped
    <3>2. CASE PrepareExtract(w)
      BY <2>1, <2>4, <3>1, <3>2 DEF PrepareExtract, GoTo, WorkerState
    <3>3. CASE PersistExtract(w)
      BY <2>1, <3>1, <3>3 DEF PersistExtract, SetExtraction, derivedVars
    <3>4. CASE MarkRevisionFailed(w)
      BY <2>4, <3>1, <3>4 DEF MarkRevisionFailed, GoTo, WorkerState
    <3> QED
      BY <1>1, <3>2, <3>3, <3>4
  <2>5. worker'[w] # worker[w]
    <3>1. worker \in [Workers -> WorkerState]
      BY DEF TypeOK, WorkersTyped
    <3>2. worker'[w].step # worker[w].step
      BY <1>1, <3>1 DEF PrepareExtract, PersistExtract, MarkRevisionFailed, GoTo,
                        WorkerState, derivedVars
    <3> QED
      BY <3>2
  <2> QED
    BY <2>1, <2>2, <2>3, <2>4, <2>5
<1>2. \E w \in Workers : PrepareExtract(w) \/ PersistExtract(w) \/ MarkRevisionFailed(w)
  BY DEF Next, Edit, Save, SoftDelete, Restore, TrashWork, RestoreWork, RunOnce, Dispatch,
     ClaimNext, Start, PrepareRemove, Reindex, ExtractThrows, Retire, Complete, Fail,
     Heartbeat, Crash, Clock, LeaseExpires, BecomesDue, Cancel, CancelForSource, derivedVars
<1> QED
  BY <1>1, <1>2

\* A worker that writes about a source is the owner of the running job of the
\* newest change of that source, under the latest claim and a live lease.
THEOREM WritesAreFenced == Spec => FencedWrites
<1> DEFINE Holder(w, s) ==
       /\ worker'[w] # worker[w]
       /\ Newest(s, worker[w].job)
       /\ job[worker[w].job].status = "running" /\ job[worker[w].job].live
       /\ job[worker[w].job].owner = w /\ job[worker[w].job].attempts = worker[w].epoch
<1> DEFINE A == \A s \in Sources :
       derived'[s] # derived[s] \/ extraction'[s] # extraction[s] =>
         \E w \in Workers : Holder(w, s)
<1>1. ASSUME TypeOK, LeaseInv, [Next]_vars PROVE [A]_vars
  <2>1. ASSUME Next, NEW s \in Sources,
               derived'[s] # derived[s] \/ extraction'[s] # extraction[s]
        PROVE  \E w \in Workers : Holder(w, s)
    <3>1. PICK w \in Workers : /\ Busy(w) /\ worker[w].step # "claimed" /\ LeaseOk(w)
                               /\ Newest(s, worker[w].job)
                               /\ worker'[w] # worker[w]
      <4>1. CASE derived'[s] # derived[s]
        <5>1. PICK w \in Workers : /\ Busy(w) /\ LeaseOk(w) /\ Newest(s, worker[w].job)
                                   /\ worker[w].step \in {"extracting", "retiring"}
                                   /\ worker'[w].step = "finishing"
          BY <1>1, <2>1, <4>1, UnitsChange
        <5> QED
          BY <5>1
      <4>2. CASE extraction'[s] # extraction[s]
        BY <1>1, <2>1, <4>2, StatusChange
      <4> QED
        BY <2>1, <4>1, <4>2
    <3>2. /\ job[worker[w].job].status = "running" /\ job[worker[w].job].live
          /\ job[worker[w].job].owner = w /\ job[worker[w].job].attempts = worker[w].epoch
      BY <1>1, <3>1 DEF LeaseInv, StartedRunning, LeaseOk, OwnsClaim
    <3> QED
      BY <3>1, <3>2
  <2> QED
    BY <1>1, <2>1
<1> QED
  BY <1>1, TypeCorrect, LeaseInvariant, PTL DEF Spec, FencedWrites

-----------------------------------------------------------------------------
(* A settled source is fresh.                                              *)

\* The newest change of a source says whether the source is visible, and every
\* worker on that change's job knows what it is about to write, or has written
\* it.
NewestInv(s, c) ==
  /\ changes[c].kind \in {"upsert", "delete"}
  /\ changes[c].kind = "upsert" <=> Visible(s)
  /\ job[c].status = "completed" => derived[s] = Wanted(s)
  /\ \A w \in Workers : worker[w].job = c =>
       /\ worker[w].step = "extracting" =>
            changes[c].kind = "upsert" /\ worker[w].snap = content[s]
       /\ worker[w].step = "retiring" => changes[c].kind = "delete"
       /\ worker[w].step = "finishing" /\ LeaseOk(w) => derived[s] = Wanted(s)

FreshInv ==
  \A s \in Sources \ Trashable :
    /\ ~trashed[s]
    /\ deleted[s] => content[s] # 0
    /\ \A c \in Seqs : Newest(s, c) => NewestInv(s, c)

\* A step that leaves source s and the outbox rows of s alone.
SourceKept(s, c) ==
  /\ Newest(s, c)
  /\ changes'[c] = changes[c]
  /\ content'[s] = content[s]
  /\ Visible(s)' = Visible(s)
  /\ ~trashed'[s]
  /\ deleted'[s] => content'[s] # 0

\* A step that makes c the newest change of source s.
SourceChanged(s, c) ==
  /\ c > Len(changes)
  /\ changes'[c].kind \in {"upsert", "delete"}
  /\ changes'[c].kind = "upsert" <=> Visible(s)'
  /\ UNCHANGED job
  /\ ~trashed'[s]
  /\ content'[s] # 0

\* An outbox row of another source does not change what is newest.
LEMMA OtherRow ==
  ASSUME TypeOK, NEW s \in Sources, NEW t \in Sources, t # s, NEW kind, NEW c \in Seqs,
         changes' = Append(changes, [source |-> t, kind |-> kind]), Newest(s, c)'
  PROVE  Newest(s, c) /\ changes'[c] = changes[c]
<1>1. changes \in Seq(Change)
  BY DEF TypeOK, OutboxTyped
<1>2. /\ Len(changes') = Len(changes) + 1
      /\ \A d \in 1..Len(changes) : changes'[d] = changes[d]
      /\ changes'[Len(changes) + 1].source = t
  BY <1>1
<1> QED
  BY <1>1, <1>2 DEF Newest

\* The newest row of a source that was just edited is the row of that edit.
LEMMA OwnRow ==
  ASSUME TypeOK, NEW s \in Sources, NEW kind, NEW c \in Seqs,
         changes' = Append(changes, [source |-> s, kind |-> kind]), Newest(s, c)'
  PROVE  c > Len(changes) /\ changes'[c].kind = kind
<1>1. changes \in Seq(Change)
  BY DEF TypeOK, OutboxTyped
<1>2. /\ Len(changes') = Len(changes) + 1
      /\ changes'[Len(changes) + 1] = [source |-> s, kind |-> kind]
  BY <1>1
<1>3. c = Len(changes) + 1
  BY <1>1, <1>2 DEF Newest
<1> QED
  BY <1>1, <1>2, <1>3

\* Every step keeps a source and its newest change, or makes a newest change
\* that tells whether the source is now visible.
LEMMA SourceSteps ==
  ASSUME TypeOK, Next, NEW s \in Sources \ Trashable, NEW c \in Seqs, ~trashed[s],
         deleted[s] => content[s] # 0, Newest(s, c)'
  PROVE  SourceKept(s, c) \/ SourceChanged(s, c)
<1>1. /\ content \in [Sources -> Nat]
      /\ deleted \in [Sources -> BOOLEAN]
      /\ trashed \in [Sources -> BOOLEAN]
  BY DEF TypeOK, SourcesTyped
<1>2. CASE UNCHANGED sourceVars
  BY <1>2 DEF sourceVars, SourceKept, Newest, Visible
<1>3. ASSUME NEW t \in Sources, t # s, Edit(t) PROVE SourceKept(s, c)
  <2>1. /\ content'[s] = content[s] /\ deleted'[s] = deleted[s] /\ trashed'[s] = trashed[s]
    BY <1>1, <1>3 DEF Edit, Save, SoftDelete, Restore, TrashWork, RestoreWork
  <2>2. CASE UNCHANGED changes
    BY <2>1, <2>2 DEF SourceKept, Newest, Visible
  <2>3. ASSUME NEW kind, changes' = Append(changes, [source |-> t, kind |-> kind])
        PROVE  SourceKept(s, c)
    BY <1>3, <2>1, <2>3, OtherRow DEF SourceKept, Visible
  <2> QED
    BY <1>3, <2>2, <2>3 DEF Edit, Save, SoftDelete, Restore, TrashWork, RestoreWork, Append1
<1>4. CASE Save(s)
  <2>1. c > Len(changes) /\ changes'[c].kind = "upsert"
    BY <1>4, OwnRow DEF Save, Append1
  <2>2. Visible(s)' /\ ~trashed'[s] /\ content'[s] # 0
    BY <1>1, <1>4 DEF Save, Visible
  <2> QED
    BY <1>4, <2>1, <2>2 DEF SourceChanged, Save
<1>5. CASE SoftDelete(s)
  <2>1. c > Len(changes) /\ changes'[c].kind = "delete"
    BY <1>5, OwnRow DEF SoftDelete, Append1
  <2>2. ~Visible(s)' /\ ~trashed'[s] /\ content'[s] # 0
    BY <1>1, <1>5 DEF SoftDelete, Visible
  <2> QED
    BY <1>5, <2>1, <2>2 DEF SourceChanged, SoftDelete
<1>6. CASE Restore(s)
  <2>1. c > Len(changes) /\ changes'[c].kind = "upsert"
    BY <1>6, OwnRow DEF Restore, Append1
  <2>2. Visible(s)' /\ ~trashed'[s] /\ content'[s] # 0
    BY <1>1, <1>6 DEF Restore, Visible
  <2> QED
    BY <1>6, <2>1, <2>2 DEF SourceChanged, Restore
<1>7. CASE TrashWork(s) \/ RestoreWork(s)
  BY <1>7 DEF TrashWork, RestoreWork
<1>8. ASSUME NEW w \in Workers, Reindex(w), ~(UNCHANGED sourceVars)
      PROVE  SourceKept(s, c) \/ SourceChanged(s, c)
  <2> DEFINE alive == {t \in Sources : Visible(t)}
             n == Cardinality(alive)
  <2>1. UNCHANGED <<content, deleted, trashed, edits, job>>
    BY <1>8 DEF Reindex
  <2>2. PICK order \in [1..n -> alive] :
          changes' = changes \o
            [i \in DOMAIN order |-> [source |-> order[i], kind |-> "upsert"]]
    BY <1>8, <2>1 DEF Reindex, sourceVars
  <2> DEFINE added == [i \in DOMAIN order |-> [source |-> order[i], kind |-> "upsert"]]
  <2>3. n \in Nat
    BY FS_Subset, FS_CardinalityType
  <2>4. /\ changes \in Seq(Change) /\ added \in Seq(Change) /\ Len(added) = n
        /\ changes' = changes \o added
    <3>1. added \in Seq(Change) /\ Len(added) = n
      <4>1. \A i \in 1..n : [source |-> order[i], kind |-> "upsert"] \in Change
        BY <2>2 DEF Change
      <4>2. added = [i \in 1..n |-> [source |-> order[i], kind |-> "upsert"]]
        BY <2>2
      <4> HIDE DEF added, n
      <4> QED
        BY <2>3, <4>1, <4>2
    <3> QED
      BY <2>2, <3>1 DEF TypeOK, OutboxTyped
  <2>5. \A i \in 1..n : added[i].source \in alive /\ added[i].kind = "upsert"
    BY <2>2
  <2> HIDE DEF added, alive
  <2>6. /\ Len(changes') = Len(changes) + n /\ Len(changes) \in Nat
        /\ \A d \in 1..Len(changes) : changes'[d] = changes[d]
        /\ \A d \in 1..Len(changes') : d > Len(changes) => changes'[d] = added[d - Len(changes)]
    BY <2>3, <2>4
  <2>7. c \in Nat /\ c \in 1..Len(changes') /\ changes'[c].source = s
    BY DEF Newest
  <2>8. CASE c <= Len(changes)
    <3>1. changes'[c] = changes[c] /\ c \in 1..Len(changes) /\ changes[c].source = s
      BY <2>6, <2>7, <2>8
    <3>2. ASSUME NEW d \in 1..Len(changes), d > c PROVE changes[d].source # s
      <4>1. d \in 1..Len(changes') /\ changes'[d] = changes[d]
        BY <2>3, <2>6
      <4> QED
        BY <3>2, <4>1 DEF Newest
    <3> QED
      BY <2>1, <3>1, <3>2 DEF SourceKept, Newest, Visible
  <2>9. CASE c > Len(changes)
    <3>1. s \in alive /\ changes'[c].kind = "upsert"
      <4>1. c - Len(changes) \in 1..n
        BY <2>3, <2>6, <2>7, <2>9
      <4> QED
        BY <2>5, <2>6, <2>7, <2>9, <4>1
    <3>2. Visible(s)'
      BY <2>1, <3>1 DEF alive, Visible
    <3> QED
      BY <2>1, <2>9, <3>1, <3>2 DEF SourceChanged, Visible
  <2> QED
    BY <2>6, <2>7, <2>8, <2>9
<1>9. \/ UNCHANGED sourceVars \/ \E t \in Sources : Edit(t) \/ \E w \in Workers : Reindex(w)
  BY DEF Next, RunOnce, Dispatch, ClaimNext, Start, PrepareExtract, PrepareRemove,
     PersistExtract, ExtractThrows, MarkRevisionFailed, Retire, Complete, Fail,
     Heartbeat, Crash, Clock, LeaseExpires, BecomesDue, Cancel, CancelForSource
<1> QED
  BY <1>2, <1>3, <1>4, <1>5, <1>6, <1>7, <1>8, <1>9 DEF Edit

\* How a worker comes to the steps that are about to write, or have written.
LEMMA WriterSteps ==
  ASSUME TypeOK, Next, NEW w \in Workers,
         worker'[w].step \in {"extracting", "retiring", "finishing"}
  PROVE  \/ /\ worker[w].step = worker'[w].step /\ SameClaim(w)
            /\ worker'[w].snap = worker[w].snap
         \/ /\ SameClaim(w) /\ worker[w].step # worker'[w].step
            /\ \/ PrepareExtract(w) \/ PrepareRemove(w) \/ PersistExtract(w)
               \/ Retire(w) \/ Reindex(w)
<1>1. worker \in [Workers -> WorkerState]
  BY DEF TypeOK, WorkersTyped
<1>2. CASE worker'[w] = worker[w]
  BY <1>2 DEF SameClaim, Busy
<1>3. ASSUME NEW v \in Workers, v # w, RunOnce(v) \/ Heartbeat(v) \/ Crash(v)
      PROVE  worker'[w] = worker[w]
  BY <1>1, <1>3 DEF RunOnce, Dispatch, ClaimNext, Start, PrepareExtract, PrepareRemove,
     Reindex, PersistExtract, ExtractThrows, MarkRevisionFailed, Retire, Complete, Fail,
     Heartbeat, Crash, GoTo, GoIdle
<1>4. CASE \/ \E s \in Sources : Edit(s)
           \/ \E c \in Seqs : Clock(c) \/ Cancel(c)
           \/ \E s \in Sources \cup {Library} : CancelForSource(s)
  BY <1>2, <1>4 DEF Edit, Save, SoftDelete, Restore, TrashWork, RestoreWork, Clock,
     LeaseExpires, BecomesDue, Cancel, CancelForSource
<1>5. CASE Heartbeat(w)
  BY <1>1, <1>5 DEF Heartbeat, SameClaim, Busy, WorkerState
<1>6. CASE Dispatch(w) \/ Start(w) \/ ExtractThrows(w) \/ MarkRevisionFailed(w)
  BY <1>1, <1>6 DEF Dispatch, Start, ExtractThrows, MarkRevisionFailed, GoTo, GoIdle, Idle,
     WorkerState
<1>7. CASE Complete(w) \/ Fail(w) \/ Crash(w)
  BY <1>1, <1>7 DEF Complete, Fail, Crash, GoIdle, Idle
<1>8. CASE ClaimNext(w)
  <2>1. worker'[w] = Idle \/ worker'[w].step = "claimed"
    <3>1. CASE worker' = [worker EXCEPT ![w] = Idle]
      BY <1>1, <3>1
    <3>2. ASSUME NEW c \in Seqs, NEW e,
                 worker' = [worker EXCEPT ![w] =
                   [step |-> "claimed", job |-> c, epoch |-> e, snap |-> 0, lost |-> FALSE]]
          PROVE  worker'[w].step = "claimed"
      BY <1>1, <3>2
    <3>3. \/ worker' = [worker EXCEPT ![w] = Idle]
          \/ \E c \in Seqs : \E e : worker' = [worker EXCEPT ![w] =
               [step |-> "claimed", job |-> c, epoch |-> e, snap |-> 0, lost |-> FALSE]]
      BY <1>8 DEF ClaimNext, GoIdle
    <3> QED
      BY <3>1, <3>2, <3>3
  <2> QED
    BY <2>1 DEF Idle
<1>9. CASE PrepareRemove(w) \/ PersistExtract(w) \/ Retire(w) \/ Reindex(w)
  <2>1. /\ worker[w].step \in {"started", "extracting", "retiring"}
        /\ \E step \in Step : GoTo(w, step) /\ step # worker[w].step
    BY <1>9 DEF PrepareRemove, PersistExtract, Retire, Reindex, Step
  <2>2. SameClaim(w) /\ worker[w].step # worker'[w].step
    BY <1>1, <2>1 DEF GoTo, SameClaim, Busy, WorkerState
  <2> QED
    BY <1>9, <2>2
<1>10. CASE PrepareExtract(w)
  <2>1. CASE \E step \in {"failing", "finishing", "retiring"} : GoTo(w, step)
    BY <1>1, <1>10, <2>1 DEF PrepareExtract, GoTo, SameClaim, Busy, WorkerState
  <2>2. CASE worker' = [worker EXCEPT ![w].step = "extracting",
                                      ![w].snap = content[JobSource(w)]]
    <3>1. worker[w].step = "started"
      BY <1>10 DEF PrepareExtract
    <3> QED
      BY <1>1, <1>10, <2>2, <3>1 DEF SameClaim, Busy, WorkerState
  <2> QED
    BY <1>10, <2>1, <2>2 DEF PrepareExtract
<1> QED
  BY <1>2, <1>3, <1>4, <1>5, <1>6, <1>7, <1>8, <1>9, <1>10 DEF Next, RunOnce

\* The units of a source change only when a worker with a valid claim on its
\* newest change finishes, and they become what the source calls for.
LEMMA NewestWrite ==
  ASSUME TypeOK, Next, NEW s \in Sources \ Trashable, NEW c \in Seqs, Newest(s, c),
         NewestInv(s, c), ~trashed[s], derived'[s] # derived[s]
  PROVE  \E w \in Workers :
           /\ worker[w].job = c /\ Busy(w) /\ LeaseOk(w)
           /\ worker[w].step \in {"extracting", "retiring"}
           /\ UNCHANGED <<job, sourceVars>>
           /\ \A v \in Workers : v # w => worker'[v] = worker[v]
           /\ worker'[w].step = "finishing"
           /\ derived'[s] = Wanted(s)
<1>1. PICK w \in Workers :
           /\ Busy(w) /\ LeaseOk(w) /\ Newest(s, worker[w].job)
           /\ UNCHANGED <<job, sourceVars>>
           /\ \A v \in Workers : v # w => worker'[v] = worker[v]
           /\ worker'[w].step = "finishing"
           /\ \/ /\ worker[w].step = "extracting" /\ StillCurrent(w)
                 /\ derived'[s] = worker[w].snap
              \/ worker[w].step = "retiring" /\ derived'[s] = 0
  BY UnitsChange
<1>2. worker[w].job = c
  BY <1>1, NewestUnique
<1>3. derived'[s] = Wanted(s)
  BY <1>1, <1>2 DEF NewestInv, Wanted
<1> QED
  BY <1>1, <1>2, <1>3

\* A step that leaves the source alone keeps what is known of its newest job.
LEMMA KeptSource ==
  ASSUME TypeOK, LeaseInv, Next, NEW s \in Sources \ Trashable, NEW c \in Seqs,
         ~trashed[s], SourceKept(s, c), NewestInv(s, c)
  PROVE  NewestInv(s, c)'
<1>1. Newest(s, c) /\ Wanted(s)' = Wanted(s) /\ job[c] \in JobRow
  BY DEF SourceKept, Wanted, TypeOK, JobsTyped
<1>2. ASSUME NEW w \in Workers, worker[w].job = c, SameClaim(w)
      PROVE  /\ ~Superseded(worker[w].job) /\ JobSource(w) = s
             /\ JobKind(w) = changes[c].kind /\ JobKind(w) \in {"upsert", "delete"}
  BY <1>1, <1>2 DEF Newest, Superseded, JobSource, JobKind, NewestInv
<1>3. ASSUME job'[c].status = "completed" PROVE derived'[s] = Wanted(s)
  <2>1. CASE job[c].status = "completed"
    <3>1. derived'[s] = derived[s]
      <4>1. ASSUME NEW w \in Workers, worker[w].job = c, LeaseOk(w) PROVE FALSE
        BY <2>1, <4>1 DEF LeaseOk, OwnsClaim, Claimed
      <4> QED
        BY <1>1, <4>1, NewestWrite
    <3> QED
      BY <2>1, <3>1 DEF NewestInv
  <2>2. CASE job[c].status # "completed"
    <3>1. job'[c] # job[c] /\ RowChange(c)
      BY <1>3, <2>2, RowChanges
    <3>2. derived'[s] = derived[s]
      BY <1>1, <3>1, NewestWrite
    <3>3. PICK w \in Workers : /\ worker[w].job = c /\ worker[w].step = "finishing"
                               /\ OwnsClaim(w, {"running"})
      BY <1>3, <2>2, <3>1, CompletedBy
    <3>4. LeaseOk(w)
      BY <3>3 DEF LeaseOk, OwnsClaim, Claimed
    <3> QED
      BY <3>2, <3>3, <3>4 DEF NewestInv
  <2> QED
    BY <2>1, <2>2
<1>4. ASSUME NEW w \in Workers, worker'[w].job = c, worker'[w].step = "extracting"
      PROVE  changes[c].kind = "upsert" /\ worker'[w].snap = content[s]
  <2>1. SameClaim(w) /\ worker[w].job = c
    BY <1>4, WriterSteps DEF SameClaim
  <2>2. CASE worker[w].step = "extracting" /\ worker'[w].snap = worker[w].snap
    BY <2>1, <2>2 DEF NewestInv
  <2>3. CASE PrepareExtract(w)
    BY <1>2, <1>4, <2>1, <2>3 DEF PrepareExtract, GoTo, TypeOK, WorkersTyped, WorkerState
  <2>4. CASE PrepareRemove(w) \/ PersistExtract(w) \/ Retire(w) \/ Reindex(w)
    BY <1>4, <2>4 DEF PrepareRemove, PersistExtract, Retire, Reindex, GoTo, TypeOK,
       WorkersTyped, WorkerState
  <2> QED
    BY <1>4, <2>2, <2>3, <2>4, WriterSteps
<1>5. ASSUME NEW w \in Workers, worker'[w].job = c, worker'[w].step = "retiring"
      PROVE  changes[c].kind = "delete"
  <2>1. SameClaim(w) /\ worker[w].job = c
    BY <1>5, WriterSteps DEF SameClaim
  <2>2. CASE worker[w].step = "retiring"
    BY <2>1, <2>2 DEF NewestInv
  <2>3. CASE PrepareExtract(w)
    BY <1>2, <1>5, <2>1, <2>3 DEF PrepareExtract, GoTo, TypeOK, WorkersTyped, WorkerState,
       NewestInv
  <2>4. CASE PrepareRemove(w)
    BY <1>2, <2>1, <2>4 DEF PrepareRemove
  <2>5. CASE PersistExtract(w) \/ Retire(w) \/ Reindex(w)
    BY <1>5, <2>5 DEF PersistExtract, Retire, Reindex, GoTo, TypeOK, WorkersTyped, WorkerState
  <2> QED
    BY <1>5, <2>2, <2>3, <2>4, <2>5, WriterSteps
<1>6. ASSUME NEW w \in Workers, worker'[w].job = c, worker'[w].step = "finishing", LeaseOk(w)'
      PROVE  derived'[s] = Wanted(s)
  <2>1. SameClaim(w) /\ worker[w].job = c
    BY <1>6, WriterSteps DEF SameClaim
  <2>2. LeaseOk(w)
    BY <1>6, <2>1, LeaseNeverRegained
  <2>3. CASE derived'[s] # derived[s]
    BY <1>1, <2>3, NewestWrite
  <2>4. CASE derived'[s] = derived[s] /\ worker[w].step = "finishing"
    BY <2>1, <2>2, <2>4 DEF NewestInv
  <2>5. CASE derived'[s] = derived[s] /\ worker[w].step # "finishing"
    <3>1. PrepareExtract(w) \/ PrepareRemove(w) \/ PersistExtract(w) \/ Retire(w) \/ Reindex(w)
      BY <1>6, <2>5, WriterSteps
    <3>2. ~Superseded(worker[w].job) /\ JobSource(w) = s
          /\ JobKind(w) = changes[c].kind /\ JobKind(w) \in {"upsert", "delete"}
      BY <1>2, <2>1
    <3>3. ~PrepareExtract(w) /\ ~PrepareRemove(w) /\ ~Reindex(w)
      BY <1>6, <3>2 DEF PrepareExtract, PrepareRemove, Reindex, GoTo, TypeOK, WorkersTyped,
         WorkerState
    <3>4. CASE PersistExtract(w)
      <4>1. StillCurrent(w)
        BY <2>1, <3>2, <3>4 DEF PersistExtract, StillCurrent, NewestInv
      <4>2. derived'[s] = worker[w].snap
        BY <2>2, <3>2, <3>4, <4>1 DEF PersistExtract, TypeOK, DerivedTyped
      <4> QED
        BY <2>1, <3>2, <4>1, <4>2 DEF Wanted, StillCurrent
    <3>5. CASE Retire(w)
      <4>1. derived'[s] = 0
        BY <2>2, <3>2, <3>5 DEF Retire, TypeOK, DerivedTyped
      <4>2. changes[c].kind = "delete"
        BY <2>1, <3>5 DEF Retire, NewestInv
      <4> QED
        BY <4>1, <4>2 DEF Wanted, NewestInv
    <3> QED
      BY <3>1, <3>3, <3>4, <3>5
  <2> QED
    BY <2>3, <2>4, <2>5
<1>7. /\ changes'[c].kind \in {"upsert", "delete"}
      /\ changes'[c].kind = "upsert" <=> Visible(s)'
  BY DEF SourceKept, NewestInv
<1>8. changes'[c] = changes[c] /\ content'[s] = content[s]
  BY DEF SourceKept
<1> QED
  BY <1>1, <1>3, <1>4, <1>5, <1>6, <1>7, <1>8 DEF NewestInv

\* A newest change that was just made has no job yet, and no worker on it.
LEMMA ChangedSource ==
  ASSUME TypeOK, Next, NEW s \in Sources \ Trashable, NEW c \in Seqs, SourceChanged(s, c)
  PROVE  NewestInv(s, c)'
<1>1. job'[c].status = "absent"
  BY DEF SourceChanged, TypeOK, JobsTyped, OutboxTyped, Seqs
<1>2. ASSUME NEW w \in Workers, worker'[w].job = c,
             worker'[w].step \in {"extracting", "retiring", "finishing"}
      PROVE  FALSE
  <2>1. SameClaim(w) /\ worker[w].job = c
    BY <1>2, WriterSteps DEF SameClaim
  <2>2. c \in 1..Len(changes)
    BY <2>1, ClaimedJob DEF SameClaim, Busy
  <2> QED
    BY <2>2 DEF SourceChanged
<1> QED
  BY <1>1, <1>2 DEF NewestInv, SourceChanged

LEMMA FreshInductive ==
  /\ Init => FreshInv
  /\ TypeOK /\ LeaseInv /\ FreshInv /\ [Next]_vars => FreshInv'
<1>1. ASSUME Init PROVE FreshInv
  <2>1. ASSUME NEW s \in Sources, NEW c \in Seqs, Newest(s, c) PROVE FALSE
    BY <1>1, <2>1 DEF Init, Newest
  <2> QED
    BY <1>1, <2>1 DEF Init, FreshInv
<1>2. ASSUME FreshInv, UNCHANGED vars PROVE FreshInv'
  BY <1>2 DEF vars, FreshInv, Newest, NewestInv, Wanted, Visible, LeaseOk, OwnsClaim
<1>3. ASSUME TypeOK, LeaseInv, FreshInv, Next PROVE FreshInv'
  <2>1. ASSUME NEW s \in Sources \ Trashable
        PROVE  /\ ~trashed'[s]
               /\ deleted'[s] => content'[s] # 0
    <3>1. ~trashed[s] /\ (deleted[s] => content[s] # 0)
      BY <1>3, <2>1 DEF FreshInv
    <3>2. CASE UNCHANGED <<content, deleted, trashed>>
      BY <3>1, <3>2
    <3>3. ASSUME NEW t \in Sources, Edit(t)
          PROVE  ~trashed'[s] /\ (deleted'[s] => content'[s] # 0)
      BY <1>3, <3>1, <3>3 DEF Edit, Save, SoftDelete, Restore, TrashWork, RestoreWork,
         Visible, TypeOK, SourcesTyped
    <3> QED
      BY <1>3, <3>2, <3>3 DEF Next, RunOnce, Dispatch, ClaimNext, Start, PrepareExtract,
         PrepareRemove, Reindex, PersistExtract, ExtractThrows, MarkRevisionFailed, Retire,
         Complete, Fail, Heartbeat, Crash, Clock, LeaseExpires, BecomesDue, Cancel,
         CancelForSource, sourceVars
  <2>2. ASSUME NEW s \in Sources \ Trashable, NEW c \in Seqs, Newest(s, c)'
        PROVE  NewestInv(s, c)'
    <3>1. ~trashed[s] /\ (deleted[s] => content[s] # 0)
      BY <1>3, <2>2 DEF FreshInv
    <3>2. SourceKept(s, c) \/ SourceChanged(s, c)
      BY <1>3, <2>2, <3>1, SourceSteps
    <3>3. SourceKept(s, c) => NewestInv(s, c)
      BY <1>3, <2>2 DEF SourceKept, FreshInv
    <3> QED
      BY <1>3, <3>1, <3>2, <3>3, KeptSource, ChangedSource
  <2> QED
    BY <2>1, <2>2 DEF FreshInv
<1> QED
  BY <1>1, <1>2, <1>3

\* Once the job of a source's newest change has completed, the stored units are
\* exactly those of the canonical source, for every number of workers, sources,
\* edits, retries and crashes.
THEOREM SettledSourcesAreFresh == Spec => []SettledFresh
<1>1. FreshInv => SettledFresh
  BY DEF FreshInv, SettledFresh, SettledBy, NewestInv, Wanted
<1> QED
  BY <1>1, FreshInductive, TypeCorrect, LeaseInvariant, PTL DEF Spec

-----------------------------------------------------------------------------
(* A settled revision is ready.                                            *)

\* The newest change of a revision calls for its extraction, and a worker that
\* is about to complete that change's job, or has completed it, left "ready".
ReadyNewest(s, c) ==
  /\ changes[c].kind = "upsert"
  /\ job[c].status = "completed" => extraction[s] = "ready"
  /\ \A w \in Workers :
       worker[w].job = c /\ worker[w].step = "finishing" /\ LeaseOk(w) =>
         extraction[s] = "ready"

ReadyInv ==
  \A s \in Revisions \ Trashable :
    /\ ~deleted[s]
    /\ \A c \in Seqs : Newest(s, c) => ReadyNewest(s, c)

\* A step that leaves a revision alone keeps what is known of its newest job.
LEMMA KeptReady ==
  ASSUME TypeOK, LeaseInv, Next, NEW s \in Revisions \ Trashable, NEW c \in Seqs,
         SourceKept(s, c), NewestInv(s, c), ReadyNewest(s, c)
  PROVE  ReadyNewest(s, c)'
<1>1. s \in Sources
  OBVIOUS
<1>2. Newest(s, c) /\ changes'[c].kind = "upsert"
  BY DEF SourceKept, ReadyNewest
<1>3. ASSUME extraction'[s] # extraction[s]
      PROVE  \E w \in Workers : /\ worker[w].job = c /\ LeaseOk(w) /\ UNCHANGED job
                                /\ worker'[w].step = "finishing" => extraction'[s] = "ready"
  BY <1>1, <1>2, <1>3, StatusChange, NewestUnique
<1>4. ASSUME job'[c].status = "completed" PROVE extraction'[s] = "ready"
  <2>1. CASE job[c].status = "completed"
    <3>1. extraction'[s] = extraction[s]
      BY <1>3, <2>1 DEF LeaseOk, OwnsClaim, Claimed
    <3> QED
      BY <2>1, <3>1 DEF ReadyNewest
  <2>2. CASE job[c].status # "completed"
    <3>1. job'[c] # job[c] /\ RowChange(c)
      BY <1>4, <2>2, RowChanges
    <3>2. extraction'[s] = extraction[s]
      BY <1>3, <3>1
    <3>3. PICK w \in Workers : /\ worker[w].job = c /\ worker[w].step = "finishing"
                               /\ OwnsClaim(w, {"running"})
      BY <1>4, <2>2, <3>1, CompletedBy
    <3>4. LeaseOk(w)
      BY <3>3 DEF LeaseOk, OwnsClaim, Claimed
    <3> QED
      BY <3>2, <3>3, <3>4 DEF ReadyNewest
  <2> QED
    BY <2>1, <2>2
<1>5. ASSUME NEW w \in Workers, worker'[w].job = c, worker'[w].step = "finishing", LeaseOk(w)'
      PROVE  extraction'[s] = "ready"
  <2>1. SameClaim(w) /\ worker[w].job = c
    BY <1>5, WriterSteps DEF SameClaim
  <2>2. LeaseOk(w)
    BY <1>5, <2>1, LeaseNeverRegained
  <2>3. CASE extraction'[s] # extraction[s]
    <3>1. PICK v \in Workers :
            /\ worker[v].job = c /\ LeaseOk(v)
            /\ worker'[v].step = "finishing" => extraction'[s] = "ready"
      BY <1>3, <2>3
    <3>2. v = w
      BY <2>1, <2>2, <3>1 DEF LeaseOk, OwnsClaim
    <3> QED
      BY <1>5, <3>1, <3>2
  <2>4. CASE extraction'[s] = extraction[s] /\ worker[w].step = "finishing"
    BY <2>1, <2>2, <2>4 DEF ReadyNewest
  <2>5. CASE worker[w].step # "finishing"
    <3>1. PrepareExtract(w) \/ PrepareRemove(w) \/ PersistExtract(w) \/ Retire(w) \/ Reindex(w)
      BY <1>5, <2>5, WriterSteps
    <3>2. ~Superseded(worker[w].job) /\ JobSource(w) = s /\ JobKind(w) = "upsert"
      BY <1>2, <2>1 DEF Newest, Superseded, JobSource, JobKind, ReadyNewest
    <3>3. ~PrepareExtract(w) /\ ~PrepareRemove(w) /\ ~Reindex(w)
      BY <1>5, <3>2 DEF PrepareExtract, PrepareRemove, Reindex, GoTo, TypeOK, WorkersTyped,
         WorkerState
    <3>4. ~Retire(w)
      BY <2>1, <3>2 DEF Retire, NewestInv, JobKind
    <3>5. CASE PersistExtract(w)
      <4>1. StillCurrent(w)
        BY <2>1, <3>2, <3>5 DEF PersistExtract, StillCurrent, NewestInv, JobKind
      <4> QED
        BY <1>1, <2>2, <3>2, <3>5, <4>1 DEF PersistExtract, SetExtraction, TypeOK, DerivedTyped
    <3> QED
      BY <3>1, <3>3, <3>4, <3>5
  <2> QED
    BY <2>3, <2>4, <2>5
<1> QED
  BY <1>2, <1>4, <1>5 DEF ReadyNewest

\* A change of a revision that was just made calls for its extraction.
LEMMA ChangedReady ==
  ASSUME TypeOK, Next, NEW s \in Revisions \ Trashable, NEW c \in Seqs,
         SourceChanged(s, c), ~deleted'[s]
  PROVE  ReadyNewest(s, c)'
<1>1. job'[c].status = "absent"
  BY DEF SourceChanged, TypeOK, JobsTyped, OutboxTyped, Seqs
<1>2. ASSUME NEW w \in Workers, worker'[w].job = c, worker'[w].step = "finishing"
      PROVE  FALSE
  <2>1. SameClaim(w) /\ worker[w].job = c
    BY <1>2, WriterSteps DEF SameClaim
  <2>2. c \in 1..Len(changes)
    BY <2>1, ClaimedJob DEF SameClaim, Busy
  <2> QED
    BY <2>2 DEF SourceChanged
<1>3. changes'[c].kind = "upsert"
  BY DEF SourceChanged, Visible
<1> QED
  BY <1>1, <1>2, <1>3 DEF ReadyNewest

LEMMA ReadyInductive ==
  /\ Init => ReadyInv
  /\ TypeOK /\ LeaseInv /\ FreshInv /\ ReadyInv /\ [Next]_vars => ReadyInv'
<1>1. ASSUME Init PROVE ReadyInv
  <2>1. ASSUME NEW s \in Sources, NEW c \in Seqs, Newest(s, c) PROVE FALSE
    BY <1>1, <2>1 DEF Init, Newest
  <2> QED
    BY <1>1, <2>1 DEF Init, ReadyInv
<1>2. ASSUME ReadyInv, UNCHANGED vars PROVE ReadyInv'
  BY <1>2 DEF vars, ReadyInv, Newest, ReadyNewest, LeaseOk, OwnsClaim
<1>3. ASSUME TypeOK, LeaseInv, FreshInv, ReadyInv, Next PROVE ReadyInv'
  <2>1. ASSUME NEW s \in Revisions \ Trashable PROVE ~deleted'[s]
    <3>1. ~deleted[s] /\ s \in Sources /\ deleted \in [Sources -> BOOLEAN]
      BY <1>3, <2>1 DEF ReadyInv, TypeOK, SourcesTyped
    <3>2. CASE UNCHANGED deleted
      BY <3>1, <3>2
    <3>3. ASSUME NEW t \in Sources, SoftDelete(t) \/ Restore(t) PROVE ~deleted'[s]
      BY <2>1, <3>1, <3>3 DEF SoftDelete, Restore
    <3> QED
      BY <1>3, <3>2, <3>3 DEF Next, Edit, Save, TrashWork, RestoreWork, RunOnce, Dispatch,
         ClaimNext, Start, PrepareExtract, PrepareRemove, Reindex, PersistExtract,
         ExtractThrows, MarkRevisionFailed, Retire, Complete, Fail, Heartbeat, Crash, Clock,
         LeaseExpires, BecomesDue, Cancel, CancelForSource, sourceVars
  <2>2. ASSUME NEW s \in Revisions \ Trashable, NEW c \in Seqs, Newest(s, c)'
        PROVE  ReadyNewest(s, c)'
    <3>1. s \in Sources \ Trashable
      BY <2>2
    <3>2. ~trashed[s] /\ (deleted[s] => content[s] # 0)
      BY <1>3, <3>1 DEF FreshInv
    <3>3. SourceKept(s, c) \/ SourceChanged(s, c)
      BY <1>3, <2>2, <3>1, <3>2, SourceSteps
    <3>4. SourceKept(s, c) => NewestInv(s, c) /\ ReadyNewest(s, c)
      BY <1>3, <2>2, <3>1 DEF SourceKept, FreshInv, ReadyInv
    <3> QED
      BY <1>3, <2>1, <2>2, <3>3, <3>4, KeptReady, ChangedReady
  <2> QED
    BY <2>1, <2>2 DEF ReadyInv
<1> QED
  BY <1>1, <1>2, <1>3

\* A live revision whose newest job has completed reports "ready": no failure
\* mark and no "running" mark of an earlier claim lands after the success.
THEOREM SettledRevisionsAreReady == Spec => []SettledRevisionReady
<1>1. ReadyInv => SettledRevisionReady
  BY DEF ReadyInv, SettledRevisionReady, SettledBy, ReadyNewest
<1> QED
  BY <1>1, ReadyInductive, FreshInductive, TypeCorrect, LeaseInvariant, PTL DEF Spec

-----------------------------------------------------------------------------
(* Stored units never go back to an older version.                         *)

UnitsBounded == \A s \in Sources : derived[s] <= content[s]

LEMMA UnitsBoundedInductive ==
  /\ Init => UnitsBounded
  /\ TypeOK /\ UnitsBounded /\ [Next]_vars => UnitsBounded'
<1>1. Init => UnitsBounded
  BY DEF Init, UnitsBounded
<1>2. ASSUME TypeOK, UnitsBounded, [Next]_vars, NEW s \in Sources
      PROVE  derived'[s] <= content'[s]
  <2>1. derived[s] \in Nat /\ content[s] \in Nat /\ derived[s] <= content[s]
    BY <1>2 DEF TypeOK, DerivedTyped, SourcesTyped, UnitsBounded
  <2>2. CASE UNCHANGED vars
    BY <2>1, <2>2 DEF vars
  <2>3. CASE Next /\ derived'[s] = derived[s]
    <3>1. content'[s] = content[s] \/ content'[s] = content[s] + 1
      <4>1. UNCHANGED content \/ \E t \in Sources : Save(t)
        BY <2>3 DEF Next, Edit, SoftDelete, Restore, TrashWork, RestoreWork, RunOnce,
           Dispatch, ClaimNext, Start, PrepareExtract, PrepareRemove, Reindex,
           PersistExtract, ExtractThrows, MarkRevisionFailed, Retire, Complete, Fail,
           Heartbeat, Crash, Clock, LeaseExpires, BecomesDue, Cancel, CancelForSource,
           sourceVars
      <4> QED
        BY <1>2, <4>1 DEF Save, TypeOK, SourcesTyped
    <3> QED
      BY <2>1, <2>3, <3>1
  <2>4. CASE Next /\ derived'[s] # derived[s]
    BY <1>2, <2>1, <2>4, UnitsChange DEF StillCurrent, Newest, JobSource, sourceVars
  <2> QED
    BY <1>2, <2>2, <2>3, <2>4
<1> QED
  BY <1>1, <1>2 DEF UnitsBounded

\* A late or repeated writer can remove units, never bring an older version of
\* them back.
THEOREM UnitsOnlyAdvance == Spec => UnitsNeverRegress
<1> DEFINE A == \A s \in Sources : derived'[s] = 0 \/ derived'[s] >= derived[s]
<1>1. ASSUME TypeOK, UnitsBounded, [Next]_vars PROVE [A]_vars
  <2>1. ASSUME Next, NEW s \in Sources PROVE derived'[s] = 0 \/ derived'[s] >= derived[s]
    <3>1. derived[s] \in Nat /\ content[s] \in Nat /\ derived[s] <= content[s]
      BY <1>1 DEF TypeOK, DerivedTyped, SourcesTyped, UnitsBounded
    <3>2. CASE derived'[s] # derived[s]
      BY <1>1, <2>1, <3>1, <3>2, UnitsChange DEF StillCurrent, Newest, JobSource
    <3> QED
      BY <3>1, <3>2
  <2> QED
    BY <1>1, <2>1
<1> QED
  BY <1>1, UnitsBoundedInductive, TypeCorrect, PTL DEF Spec, UnitsNeverRegress
-----------------------------------------------------------------------------
(* The refinement of KnowledgeIndex.                                       *)

Indexed == Sources \ Trashable

\* The mapping: what the queue shows of the abstract variables.
WantedMap == [s \in Indexed |-> Wanted(s)]
UnitsMap == [s \in Indexed |-> derived[s]]
SettledMap == [s \in Indexed |-> Settled(s)]

LEMMA SettledBoolean == \A s : Settled(s) \in BOOLEAN /\ Settled(s)' \in BOOLEAN
BY DEF Settled

LEMMA MapKept ==
  /\ (\A s \in Indexed : Wanted(s)' = Wanted(s)) => WantedMap' = WantedMap
  /\ (\A s \in Indexed : derived'[s] = derived[s]) => UnitsMap' = UnitsMap
  /\ (\A s \in Indexed : Settled(s)' <=> Settled(s)) => SettledMap' = SettledMap
<1>1. ASSUME \A s \in Indexed : Settled(s)' <=> Settled(s) PROVE SettledMap' = SettledMap
  <2>1. \A s \in Indexed : Settled(s)' = Settled(s)
    BY <1>1, SettledBoolean
  <2> QED
    BY <2>1 DEF SettledMap
<1> QED
  BY <1>1 DEF WantedMap, UnitsMap

LEMMA MapRefresh ==
  ASSUME NEW s \in Indexed, ~SettledMap[s], UnitsMap' = [UnitsMap EXCEPT ![s] = WantedMap[s]],
         WantedMap' = WantedMap, SettledMap' = SettledMap
  PROVE  Index!Next
BY DEF Index!Next, Index!Refresh, WantedMap, UnitsMap, SettledMap, Indexed

LEMMA MapSettle ==
  ASSUME NEW s \in Indexed, UnitsMap[s] = WantedMap[s],
         SettledMap' = [SettledMap EXCEPT ![s] = TRUE],
         WantedMap' = WantedMap, UnitsMap' = UnitsMap
  PROVE  Index!Next
BY DEF Index!Next, Index!Settle, WantedMap, UnitsMap, SettledMap, Indexed

LEMMA MapStutter ==
  ASSUME WantedMap' = WantedMap, UnitsMap' = UnitsMap, SettledMap' = SettledMap
  PROVE  UNCHANGED Index!vars
BY DEF Index!vars, WantedMap, UnitsMap, SettledMap, Indexed

LEMMA MapChange ==
  ASSUME NEW group \in SUBSET Indexed,
         \A s \in Indexed \ group :
           WantedMap'[s] = WantedMap[s] /\ SettledMap'[s] = SettledMap[s],
         \A s \in group : WantedMap'[s] \in Nat /\ ~SettledMap'[s],
         UnitsMap' = UnitsMap
  PROVE  Index!Next
BY DEF Index!Next, Index!Change, WantedMap, UnitsMap, SettledMap, Indexed

LEMMA MapInit ==
  ASSUME WantedMap \in [Indexed -> Nat], UnitsMap = [s \in Indexed |-> 0],
         SettledMap = [s \in Indexed |-> FALSE]
  PROVE  Index!Init
BY DEF Index!Init, WantedMap, UnitsMap, SettledMap, Indexed

\* Only a worker's finalizer completes a job, and it does nothing else.
LEMMA CompletionStep ==
  ASSUME TypeOK, Next, NEW c \in Seqs, job'[c].status = "completed", job[c].status # "completed"
  PROVE  /\ UNCHANGED <<sourceVars, derivedVars>>
         /\ \A d \in Seqs : d # c => job'[d] = job[d]
<1>1. job \in [Seqs -> JobRow]
  BY DEF TypeOK, JobsTyped
<1>2. ASSUME NEW w \in Workers, Complete(w)
      PROVE  /\ UNCHANGED <<sourceVars, derivedVars>>
             /\ \A d \in Seqs : d # c => job'[d] = job[d]
  BY <1>1, <1>2 DEF Complete
<1>3. \A row \in JobRow :
        /\ Recovered(row).status = "completed" => row.status = "completed"
        /\ Failed(row).status # "completed" /\ Cancelled(row).status # "completed"
  BY DEF JobRow, Recovered, Failed, Cancelled, Released, Claimed
<1>4. ASSUME NEW w \in Workers, Dispatch(w) \/ Start(w) \/ Fail(w) PROVE FALSE
  <2>1. CASE Dispatch(w)
    BY <1>1, <2>1 DEF Dispatch, Absent, JobRow
  <2>2. CASE Start(w)
    BY <1>1, <2>2 DEF Start, JobRow
  <2>3. CASE Fail(w)
    BY <1>1, <1>3, <2>3 DEF Fail
  <2> QED
    BY <1>4, <2>1, <2>2, <2>3
<1>5. ASSUME NEW w \in Workers, ClaimNext(w) PROVE FALSE
  <2> DEFINE rec == [d \in Seqs |-> Recovered(job[d])]
  <2>1. rec[c].status # "completed"
    BY <1>1, <1>3
  <2>2. CASE job' = rec
    BY <2>1, <2>2
  <2>3. ASSUME NEW d \in Seqs,
               job' = [rec EXCEPT ![d].status = "leased", ![d].attempts = @ + 1,
                                  ![d].owner = w, ![d].live = TRUE]
        PROVE  FALSE
    <3>1. rec \in [Seqs -> JobRow]
      BY <1>1, RowUpdates
    <3> HIDE DEF rec
    <3>2. CASE c = d
      BY <2>3, <3>1, <3>2 DEF JobRow
    <3>3. CASE c # d
      BY <2>1, <2>3, <3>1, <3>3
    <3> QED
      BY <3>2, <3>3
  <2> QED
    BY <1>5, <2>2, <2>3 DEF ClaimNext
<1>6. ASSUME NEW d \in Seqs, Clock(d) \/ Cancel(d) PROVE FALSE
  BY <1>1, <1>3, <1>6 DEF Clock, LeaseExpires, BecomesDue, Cancel, JobRow
<1>7. ASSUME NEW s, CancelForSource(s) PROVE FALSE
  BY <1>1, <1>3, <1>7 DEF CancelForSource
<1>8. UNCHANGED job => FALSE
  OBVIOUS
<1>9. \E w \in Workers : Complete(w)
  BY <1>4, <1>5, <1>6, <1>7, <1>8
  DEF Next, RunOnce, Edit, Save, SoftDelete, Restore, TrashWork, RestoreWork,
      PrepareExtract, PrepareRemove, Reindex, PersistExtract, ExtractThrows,
      MarkRevisionFailed, Retire, Heartbeat, Crash
<1> QED
  BY <1>2, <1>9

\* What has been completed stays so.
LEMMA CompletedStays ==
  ASSUME TypeOK, Next, NEW c \in Seqs, job[c].status = "completed"
  PROVE  job'[c].status = "completed"
BY RowChanges
DEF TypeOK, JobsTyped, RowChange, JobRow, Recovered, Active, Claimed, Waiting, OwnsClaim, LeaseOk

\* A step that stores units refreshes its source as it is at that moment.
LEMMA RefreshStep ==
  ASSUME TypeOK, TypeOK', FreshInv, Next, derived' # derived
  PROVE  Index!Next \/ UNCHANGED Index!vars
<1>1. derived \in [Sources -> Nat] /\ derived' \in [Sources -> Nat]
  BY DEF TypeOK, DerivedTyped
<1>2. PICK s \in Sources : derived'[s] # derived[s]
  BY <1>1
<1>3. PICK w \in Workers :
           /\ LeaseOk(w) /\ Newest(s, worker[w].job)
           /\ UNCHANGED <<job, sourceVars>>
           /\ \A v \in Workers : v # w => worker'[v] = worker[v]
  BY <1>2, UnitsChange
<1>4. ASSUME NEW t \in Sources, t # s PROVE derived'[t] = derived[t]
  <2> SUFFICES ASSUME derived'[t] # derived[t] PROVE FALSE
    OBVIOUS
  <2>1. PICK v \in Workers : /\ Newest(t, worker[v].job)
                             /\ worker'[v].step = "finishing"
                             /\ worker[v].step \in {"extracting", "retiring"}
    BY UnitsChange
  <2>2. v = w
    BY <1>3, <2>1
  <2> QED
    BY <1>3, <1>4, <2>1, <2>2 DEF Newest
<1>5. \A t \in Sources : Wanted(t)' = Wanted(t) /\ (Settled(t)' <=> Settled(t))
  BY <1>3 DEF Wanted, Visible, Settled, SettledBy, Newest, sourceVars
<1>6. CASE s \in Trashable
  BY <1>4, <1>5, <1>6, MapKept, MapStutter DEF Indexed
<1>7. CASE s \notin Trashable
  <2> DEFINE c == worker[w].job
  <2>1. c \in Seqs /\ Newest(s, c)
    BY <1>3 DEF Newest, TypeOK, OutboxTyped, Seqs
  <2>2. derived'[s] = Wanted(s)
    <3>1. NewestInv(s, c) /\ ~trashed[s]
      BY <1>7, <2>1 DEF FreshInv
    <3> QED
      BY <1>2, <1>7, <2>1, <3>1, NewestWrite
  <2>3. ~Settled(s)
    BY <1>3, <2>1, NewestUnique DEF Settled, SettledBy, LeaseOk, OwnsClaim, Claimed
  <2>4. s \in Indexed
    BY <1>7 DEF Indexed
  <2>5. ~SettledMap[s] /\ UnitsMap' = [UnitsMap EXCEPT ![s] = WantedMap[s]]
    BY <1>4, <2>2, <2>3, <2>4 DEF SettledMap, UnitsMap, WantedMap, Indexed
  <2> QED
    BY <1>5, <2>4, <2>5, MapKept, MapRefresh DEF Indexed
<1> QED
  BY <1>6, <1>7

\* A completion settles the newest change of a source, or an older one unseen.
LEMMA SettleStep ==
  ASSUME TypeOK, LeaseInv, FreshInv, Next,
         NEW c \in Seqs, job'[c].status = "completed", job[c].status # "completed"
  PROVE  Index!Next \/ UNCHANGED Index!vars
<1>1. /\ UNCHANGED <<sourceVars, derived>>
      /\ \A d \in Seqs : d # c => job'[d] = job[d]
  BY CompletionStep DEF derivedVars
<1>2. /\ \A t \in Sources : Wanted(t)' = Wanted(t)
      /\ \A t, d : Newest(t, d)' <=> Newest(t, d)
  BY <1>1 DEF Wanted, Visible, Newest, sourceVars
<1>3. \A t \in Sources : ~Newest(t, c) => (Settled(t)' <=> Settled(t))
  BY <1>1, <1>2 DEF Settled, SettledBy
<1>4. CASE \E s \in Indexed : Newest(s, c)
  <2>1. PICK s \in Indexed : Newest(s, c)
    BY <1>4
  <2>2. \A t \in Sources : t # s => ~Newest(t, c)
    BY <2>1 DEF Newest
  <2>3. Settled(s)'
    BY <1>2, <2>1 DEF Settled, SettledBy
  <2>4. derived[s] = Wanted(s)
    <3>1. FreshInv'
      BY FreshInductive
    <3> QED
      BY <1>1, <1>2, <2>1, <3>1 DEF FreshInv, NewestInv, Indexed
  <2>5. UnitsMap[s] = WantedMap[s]
    BY <2>1, <2>4 DEF UnitsMap, WantedMap
  <2>6. SettledMap' = [SettledMap EXCEPT ![s] = TRUE]
    <3>1. \A t \in Indexed : Settled(t)' = IF t = s THEN TRUE ELSE Settled(t)
      BY <1>3, <2>2, <2>3, SettledBoolean DEF Indexed
    <3> QED
      BY <2>1, <3>1 DEF SettledMap
  <2> QED
    BY <1>1, <1>2, <2>1, <2>5, <2>6, MapKept, MapSettle DEF Indexed
<1>5. CASE \A s \in Indexed : ~Newest(s, c)
  BY <1>1, <1>2, <1>3, <1>5, MapKept, MapStutter DEF Indexed
<1> QED
  BY <1>4, <1>5

\* Any other step changes what sources call for only together with their newest
\* change.
LEMMA ChangeStep ==
  ASSUME TypeOK, TypeOK', FreshInv, Next, UNCHANGED derived,
         \A c \in Seqs : job'[c].status = "completed" => job[c].status = "completed"
  PROVE  Index!Next
<1> DEFINE group == {s \in Indexed : ~Settled(s)'}
<1>1. ASSUME NEW s \in Indexed, Settled(s)' PROVE Wanted(s)' = Wanted(s) /\ Settled(s)
  <2>1. PICK c \in Seqs : Newest(s, c)' /\ job'[c].status = "completed"
    BY <1>1 DEF Settled, SettledBy
  <2>2. job[c].status = "completed" /\ c <= Len(changes)
    BY <2>1 DEF TypeOK, JobsTyped
  <2>3. ~trashed[s] /\ (deleted[s] => content[s] # 0)
    BY DEF FreshInv, Indexed
  <2>4. SourceKept(s, c)
    <3>1. ~(c > Len(changes))
      BY <2>2 DEF TypeOK, OutboxTyped, Seqs
    <3> QED
      BY <2>1, <2>3, <3>1, SourceSteps DEF Indexed, SourceChanged
  <2> QED
    BY <2>2, <2>4 DEF SourceKept, Wanted, Settled, SettledBy
<1>2. \A s \in Indexed : Wanted(s)' \in Nat
  BY DEF Wanted, TypeOK, SourcesTyped, Indexed
<1>3. \A s \in group : WantedMap'[s] \in Nat /\ ~SettledMap'[s]
  BY <1>2 DEF WantedMap, SettledMap
<1>4. \A s \in Indexed \ group :
        WantedMap'[s] = WantedMap[s] /\ SettledMap'[s] = SettledMap[s]
  <2> SUFFICES ASSUME NEW s \in Indexed, Settled(s)'
               PROVE  WantedMap'[s] = WantedMap[s] /\ SettledMap'[s] = SettledMap[s]
    OBVIOUS
  <2>1. Wanted(s)' = Wanted(s) /\ Settled(s)' = Settled(s)
    BY <1>1, SettledBoolean
  <2> QED
    BY <2>1 DEF WantedMap, SettledMap
<1>5. group \in SUBSET Indexed
  OBVIOUS
<1> HIDE DEF group
<1> QED
  BY <1>3, <1>4, <1>5, MapKept, MapChange

LEMMA IndexInit == Init => Index!Init
<1> SUFFICES ASSUME Init PROVE Index!Init
  OBVIOUS
<1>1. \A s \in Sources : Wanted(s) \in Nat /\ derived[s] = 0
  BY DEF Init, Wanted, Visible
<1>2. \A s \in Sources : Settled(s) = FALSE
  <2>1. \A s \in Sources : ~Settled(s)
    BY DEF Init, Settled, SettledBy, Absent
  <2> QED
    BY <2>1, SettledBoolean
<1> QED
  BY <1>1, <1>2, MapInit DEF WantedMap, UnitsMap, SettledMap, Indexed

\* The queue, its leases and its workers implement an index whose units are
\* refreshed from their source in one step, and whose changes are settled only
\* when units and source agree.
THEOREM QueueImplementsIndex == Spec => ImplementsIndex
<1>1. ASSUME TypeOK, TypeOK', LeaseInv, FreshInv, [Next]_vars
      PROVE  [Index!Next]_(Index!vars)
  <2>1. CASE UNCHANGED vars
    BY <2>1 DEF vars, Index!vars, Wanted, Visible, Settled, SettledBy, Newest
  <2>2. CASE Next
    BY <1>1, <2>2, RefreshStep, SettleStep, ChangeStep
  <2> QED
    BY <1>1, <2>1, <2>2
<1>2. Spec => []FreshInv
  BY FreshInductive, TypeCorrect, LeaseInvariant, PTL DEF Spec
<1> QED
  BY <1>1, <1>2, IndexInit, TypeCorrect, LeaseInvariant, PTL
  DEF Spec, ImplementsIndex, Index!Spec
=============================================================================
