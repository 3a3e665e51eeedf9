----------------------- MODULE KnowledgeQueue_proofs -----------------------
(***************************************************************************)
(* Proofs about the knowledge pipeline, for every set of workers and       *)
(* sources and every value of the bounds.                                  *)
(***************************************************************************)
EXTENDS KnowledgeQueue, TLAPS, FiniteSetTheorems, SequenceTheorems

USE QueueAssumption

-----------------------------------------------------------------------------
(* Job rows.                                                               *)

\* The row updates of the lease protocol keep a job row well formed, and never
\* make or unmake a row.
LEMMA RowUpdates ==
  ASSUME NEW row \in JobRow
  PROVE  /\ Released(row) \in JobRow
         /\ Recovered(row) \in JobRow
         /\ Recovered(row).status = "absent" <=> row.status = "absent"
         /\ Recovered(row).attempts = row.attempts
         /\ Failed(row) \in JobRow /\ Failed(row).status # "absent"
         /\ Cancelled(row) \in JobRow /\ Cancelled(row).status # "absent"
BY DEF JobRow, Released, Recovered, Failed, Cancelled, Active, Claimed, Waiting, Terminal

LEMMA AbsentType == Absent \in JobRow
BY DEF Absent, JobRow

LEMMA IdleType == Idle \in WorkerState
BY DEF Idle, WorkerState, Step

\* Moving a worker to another step keeps its record well formed.
LEMMA GoToType ==
  ASSUME worker \in [Workers -> WorkerState], NEW w \in Workers, NEW step \in Step,
         GoTo(w, step)
  PROVE  /\ worker' \in [Workers -> WorkerState]
         /\ \A v \in Workers : worker'[v].job = worker[v].job
         /\ \A v \in Workers : v # w => worker'[v] = worker[v]
         /\ worker'[w].step = step
BY DEF GoTo, WorkerState

LEMMA GoIdleType ==
  ASSUME worker \in [Workers -> WorkerState], NEW w \in Workers, GoIdle(w)
  PROVE  /\ worker' \in [Workers -> WorkerState]
         /\ \A v \in Workers : v # w => worker'[v] = worker[v]
         /\ worker'[w] = Idle
BY IdleType DEF GoIdle

LEMMA SetExtractionType ==
  ASSUME extraction \in [Sources -> {"pending", "running", "ready", "failed"}],
         NEW s, NEW status \in {"running", "ready", "failed"}, SetExtraction(s, status)
  PROVE  extraction' \in [Sources -> {"pending", "running", "ready", "failed"}]
BY DEF SetExtraction

-----------------------------------------------------------------------------
(* Type correctness.                                                       *)

LEMMA TypeInit == Init => TypeOK
<1> SUFFICES ASSUME Init PROVE TypeOK
  OBVIOUS
<1>1. OutboxTyped
  <2>1. <<>> \in Seq(Change) /\ Len(<<>>) = 0
    OBVIOUS
  <2>2. <<[source |-> Library, kind |-> "reindex"]>> \in Seq(Change)
    BY DEF Change
  <2> QED
    BY <2>1, <2>2 DEF Init, OutboxTyped
<1>2. JobsTyped
  BY AbsentType DEF Init, JobsTyped, Absent
<1>3. WorkersTyped
  BY IdleType DEF Init, WorkersTyped, Idle
<1>4. SourcesTyped /\ DerivedTyped
  BY DEF Init, SourcesTyped, DerivedTyped
<1> QED
  BY <1>1, <1>2, <1>3, <1>4 DEF TypeOK

\* A longer outbox keeps every job's row.
LEMMA OutboxGrows ==
  ASSUME JobsTyped, WorkersTyped, Len(changes) \in Nat, Len(changes') \in Nat,
         Len(changes') >= Len(changes), UNCHANGED job,
         worker' \in [Workers -> WorkerState],
         \A w \in Workers :
           /\ worker'[w].job = worker[w].job
           /\ worker[w].step \in {"idle", "dispatched"} =>
                worker'[w].step \in {"idle", "dispatched"},
         UNCHANGED faults
  PROVE  JobsTyped' /\ WorkersTyped'
<1>1. JobsTyped'
  BY DEF JobsTyped, Seqs
<1>2. \A w \in Workers :
        worker'[w].step \notin {"idle", "dispatched"} => worker'[w].job \in 1..Len(changes')
  BY DEF WorkersTyped
<1> QED
  BY <1>1, <1>2 DEF WorkersTyped

\* A canonical edit keeps every variable's shape.
LEMMA TypeEdit ==
  ASSUME TypeOK, NEW s \in Sources, Edit(s)
  PROVE  TypeOK'
<1> USE DEF TypeOK
<1>1. UNCHANGED <<job, derived, extraction, worker, faults>>
  BY DEF Edit, Save, SoftDelete, Restore, TrashWork, RestoreWork, derivedVars
<1>2. ASSUME NEW kind \in {"upsert", "delete"}, Append1(s, kind)
      PROVE  OutboxTyped' /\ Len(changes') >= Len(changes) /\ edits' \in 0..MaxEdits
  BY <1>2 DEF Append1, OutboxTyped, SourcesTyped, Change
<1>3. OutboxTyped' /\ Len(changes') >= Len(changes) /\ edits' \in 0..MaxEdits
  <2>1. CASE Save(s)
    BY <1>2, <2>1 DEF Save
  <2>2. CASE SoftDelete(s)
    BY <1>2, <2>2 DEF SoftDelete
  <2>3. CASE Restore(s)
    BY <1>2, <2>3 DEF Restore
  <2>4. CASE TrashWork(s) \/ RestoreWork(s)
    BY <2>4 DEF TrashWork, RestoreWork, OutboxTyped, SourcesTyped
  <2> QED
    BY <2>1, <2>2, <2>3, <2>4 DEF Edit
<1>4. SourcesTyped'
  <2>1. content' \in [Sources -> Nat]
    BY DEF Edit, Save, SoftDelete, Restore, TrashWork, RestoreWork, SourcesTyped
  <2>2. deleted' \in [Sources -> BOOLEAN] /\ trashed' \in [Sources -> BOOLEAN]
    BY DEF Edit, Save, SoftDelete, Restore, TrashWork, RestoreWork, SourcesTyped
  <2> QED
    BY <1>3, <2>1, <2>2 DEF SourcesTyped
<1>5. JobsTyped' /\ WorkersTyped'
  <2>1. Len(changes) \in Nat /\ Len(changes') \in Nat
    BY <1>3 DEF OutboxTyped
  <2>2. worker' \in [Workers -> WorkerState]
    BY <1>1 DEF WorkersTyped
  <2> QED
    BY <1>1, <1>3, <2>1, <2>2, OutboxGrows
<1>6. DerivedTyped'
  BY <1>1 DEF DerivedTyped
<1> QED
  BY <1>3, <1>4, <1>5, <1>6

\* A worker step that leaves the outbox alone keeps the workers well formed if
\* it keeps the claimed job or goes idle.
LEMMA WorkerSteps ==
  ASSUME WorkersTyped, NEW w \in Workers, UNCHANGED <<changes, faults>>,
         \/ GoIdle(w)
         \/ /\ worker[w].step \notin {"idle", "dispatched"}
            /\ \E step \in Step : GoTo(w, step)
  PROVE  WorkersTyped'
BY GoToType, GoIdleType DEF WorkersTyped, Idle

\* Rewriting one row of an existing job keeps the jobs well formed.
LEMMA OneRow ==
  ASSUME JobsTyped, UNCHANGED changes, NEW c \in Seqs, c <= Len(changes),
         NEW row \in JobRow, row.status # "absent", job' = [job EXCEPT ![c] = row]
  PROVE  JobsTyped'
BY DEF JobsTyped

LEMMA DispatchTypes ==
  ASSUME TypeOK, NEW w \in Workers, Dispatch(w)
  PROVE  TypeOK'
<1>1. JobsTyped'
  <2>1. [Absent EXCEPT !.status = "queued", !.due = TRUE] \in JobRow
    BY AbsentType DEF JobRow, Active, Waiting
  <2>2. \A c \in Undispatched : c <= Len(changes)
    BY DEF Undispatched
  <2> QED
    BY <2>1, <2>2 DEF Dispatch, JobsTyped, TypeOK, sourceVars
<1>2. WorkersTyped'
  <2>1. /\ worker' \in [Workers -> WorkerState]
        /\ \A v \in Workers : v # w => worker'[v] = worker[v]
        /\ worker'[w].step = "dispatched"
    BY GoToType DEF Dispatch, TypeOK, WorkersTyped, Step
  <2> QED
    BY <2>1 DEF Dispatch, TypeOK, WorkersTyped, sourceVars
<1> QED
  BY <1>1, <1>2 DEF Dispatch, TypeOK, sourceVars, derivedVars, SourcesTyped, OutboxTyped,
     DerivedTyped

LEMMA ClaimNextTypes ==
  ASSUME TypeOK, NEW w \in Workers, ClaimNext(w)
  PROVE  TypeOK'
<1> DEFINE rec == [c \in Seqs |-> Recovered(job[c])]
<1>1. /\ rec \in [Seqs -> JobRow]
      /\ \A c \in Seqs : rec[c].status # "absent" => c <= Len(changes)
      /\ \A c \in Seqs : rec[c].status = "absent" => rec[c].attempts = 0
  BY RowUpdates DEF TypeOK, JobsTyped
<1>2. UNCHANGED <<sourceVars, derivedVars, faults>>
  BY DEF ClaimNext
<1>3. CASE job' = rec /\ GoIdle(w)
  <2>1. JobsTyped'
    BY <1>1, <1>2, <1>3 DEF JobsTyped, sourceVars
  <2>2. WorkersTyped'
    BY <1>2, <1>3, WorkerSteps DEF TypeOK, sourceVars
  <2> QED
    BY <1>2, <2>1, <2>2 DEF TypeOK, sourceVars, derivedVars, SourcesTyped, OutboxTyped,
       DerivedTyped
<1>4. ASSUME NEW c \in Seqs, rec[c].status \in Waiting, rec[c].attempts < MaxAttempts,
             job' = [rec EXCEPT ![c].status = "leased", ![c].attempts = @ + 1,
                                ![c].owner = w, ![c].live = TRUE],
             worker' = [worker EXCEPT ![w] =
                 [step |-> "claimed", job |-> c, epoch |-> rec[c].attempts + 1,
                  snap |-> 0, lost |-> FALSE]]
      PROVE  TypeOK'
  <2> HIDE DEF rec
  <2>1. rec[c].attempts + 1 \in 0..MaxAttempts /\ c \in 1..Len(changes)
    BY <1>1, <1>4 DEF JobRow, Waiting, Seqs, TypeOK, OutboxTyped
  <2>2. JobsTyped'
    <3>1. job' \in [Seqs -> JobRow]
      BY <1>1, <1>4, <2>1 DEF JobRow, Active, Claimed
    <3>2. \A d \in Seqs : /\ job'[d].status # "absent" => d <= Len(changes)
                          /\ job'[d].status = "absent" => job'[d].attempts = 0
      BY <1>1, <1>4, <2>1
    <3> QED
      BY <1>2, <3>1, <3>2 DEF JobsTyped, sourceVars
  <2>3. WorkersTyped'
    <3>1. [step |-> "claimed", job |-> c, epoch |-> rec[c].attempts + 1,
           snap |-> 0, lost |-> FALSE] \in WorkerState
      BY <2>1 DEF WorkerState, Step, Seqs
    <3> QED
      BY <1>2, <1>4, <2>1, <3>1 DEF TypeOK, WorkersTyped, sourceVars
  <2> QED
    BY <1>2, <2>2, <2>3 DEF TypeOK, sourceVars, derivedVars, SourcesTyped, OutboxTyped,
       DerivedTyped
<1> QED
  BY <1>3, <1>4 DEF ClaimNext

\* What a worker past claimNext knows about its job.
LEMMA ClaimedJob ==
  ASSUME TypeOK, NEW w \in Workers, worker[w].step \notin {"idle", "dispatched"}
  PROVE  /\ worker[w].job \in Seqs /\ worker[w].job \in 1..Len(changes)
         /\ job[worker[w].job] \in JobRow
         /\ \/ JobSource(w) \in Sources /\ JobKind(w) \in {"upsert", "delete"}
            \/ JobSource(w) = Library /\ JobKind(w) = "reindex"
<1>1. worker[w].job \in Seqs /\ worker[w].job \in 1..Len(changes)
  BY DEF TypeOK, WorkersTyped, OutboxTyped, Seqs
<1>2. changes[worker[w].job] \in Change
  BY <1>1 DEF TypeOK, OutboxTyped
<1> QED
  BY <1>1, <1>2 DEF TypeOK, JobsTyped, JobSource, JobKind, Change

\* start, complete and fail rewrite the claimed row alone.
LEMMA FinalizerTypes ==
  ASSUME TypeOK, NEW w \in Workers, Start(w) \/ Complete(w) \/ Fail(w)
  PROVE  TypeOK'
<1> DEFINE c == worker[w].job
<1>1. worker[w].step \notin {"idle", "dispatched"}
  BY DEF Start, Complete, Fail
<1>2. c \in Seqs /\ c <= Len(changes) /\ job[c] \in JobRow
  BY <1>1, ClaimedJob DEF TypeOK, OutboxTyped
<1>3. UNCHANGED <<sourceVars, derivedVars, faults>>
  BY DEF Start, Complete, Fail
<1>4. WorkersTyped'
  BY <1>1, <1>3, WorkerSteps DEF Start, Complete, Fail, TypeOK, sourceVars, Step
<1>5. JobsTyped'
  <2>1. CASE UNCHANGED job
    BY <1>3, <2>1 DEF TypeOK, JobsTyped, sourceVars
  <2>2. ASSUME NEW row \in JobRow, row.status # "absent", job' = [job EXCEPT ![c] = row]
        PROVE  JobsTyped'
    BY <1>2, <1>3, <2>2, OneRow DEF TypeOK, sourceVars
  <2>3. CASE Start(w)
    <3>1. [job[c] EXCEPT !.status = "running"] \in JobRow
      BY <1>2 DEF JobRow, Active, Claimed
    <3>2. [job[c] EXCEPT !.status = "running"].status # "absent"
      BY <1>2 DEF JobRow
    <3> QED
      BY <2>1, <2>2, <2>3, <3>1, <3>2 DEF Start
  <2>4. CASE Complete(w)
    <3>1. [Released(job[c]) EXCEPT !.status = "completed"] \in JobRow
      BY <1>2, RowUpdates DEF JobRow, Terminal
    <3>2. [Released(job[c]) EXCEPT !.status = "completed"].status # "absent"
      BY <1>2, RowUpdates DEF JobRow
    <3> QED
      BY <2>1, <2>2, <2>4, <3>1, <3>2 DEF Complete
  <2>5. CASE Fail(w)
    BY <1>2, <2>1, <2>2, <2>5, RowUpdates DEF Fail
  <2> QED
    BY <2>3, <2>4, <2>5
<1> QED
  BY <1>3, <1>4, <1>5 DEF TypeOK, sourceVars, derivedVars, SourcesTyped, OutboxTyped,
     DerivedTyped

\* The execution steps keep every variable's shape.
LEMMA ExecuteTypes ==
  ASSUME TypeOK, NEW w \in Workers,
         \/ PrepareExtract(w) \/ PrepareRemove(w) \/ PersistExtract(w) \/ ExtractThrows(w)
         \/ MarkRevisionFailed(w) \/ Retire(w) \/ Heartbeat(w)
  PROVE  TypeOK'
<1>1. worker[w].step \notin {"idle", "dispatched"}
  BY DEF PrepareExtract, PrepareRemove, PersistExtract, ExtractThrows, MarkRevisionFailed,
     Retire, Heartbeat
<1>2. UNCHANGED <<sourceVars, job, faults>>
  BY DEF PrepareExtract, PrepareRemove, PersistExtract, ExtractThrows, MarkRevisionFailed,
     Retire, Heartbeat
<1>3. WorkersTyped'
  <2>1. CASE PrepareExtract(w)
    <3>1. CASE \E step \in Step : GoTo(w, step)
      BY <1>1, <1>2, <3>1, WorkerSteps DEF TypeOK, sourceVars
    <3>2. CASE /\ worker' = [worker EXCEPT ![w].step = "extracting",
                                          ![w].snap = content[JobSource(w)]]
               /\ Visible(JobSource(w))
               /\ JobKind(w) = "upsert"
      <4>1. content[JobSource(w)] \in Nat
        <5>1. JobSource(w) \in Sources
          BY <1>1, <3>2, ClaimedJob
        <5> QED
          BY <5>1 DEF TypeOK, SourcesTyped
      <4> QED
        <5>1. worker \in [Workers -> WorkerState] /\ "extracting" \in Step
          BY DEF TypeOK, WorkersTyped, Step
        <5>2. worker' \in [Workers -> WorkerState]
          BY <1>1, <3>2, <4>1, <5>1 DEF WorkerState
        <5>3. \A v \in Workers :
                worker'[v].step \notin {"idle", "dispatched"} => worker'[v].job \in 1..Len(changes)
          <6>1. /\ worker'[w].job = worker[w].job
                /\ \A v \in Workers : v # w => worker'[v] = worker[v]
            BY <3>2, <5>1 DEF WorkerState
          <6>2. worker[w].job \in 1..Len(changes)
            BY <1>1, ClaimedJob
          <6> QED
            BY <6>1, <6>2 DEF TypeOK, WorkersTyped
        <5> QED
          BY <1>2, <5>2, <5>3 DEF TypeOK, WorkersTyped, sourceVars
    <3> QED
      BY <2>1, <3>1, <3>2 DEF PrepareExtract, Step
  <2>2. CASE \/ PrepareRemove(w) \/ PersistExtract(w) \/ ExtractThrows(w)
             \/ MarkRevisionFailed(w) \/ Retire(w)
    <3>1. \E step \in Step : GoTo(w, step)
      BY <2>2 DEF PrepareRemove, PersistExtract, ExtractThrows, MarkRevisionFailed, Retire, Step
    <3> QED
      BY <1>1, <1>2, <3>1, WorkerSteps DEF TypeOK, sourceVars
  <2>3. CASE Heartbeat(w)
    <3>1. worker \in [Workers -> WorkerState] /\ worker' = [worker EXCEPT ![w].lost = TRUE]
      BY <2>3 DEF Heartbeat, TypeOK, WorkersTyped
    <3>2. /\ worker' \in [Workers -> WorkerState]
          /\ \A v \in Workers : worker'[v].step = worker[v].step /\ worker'[v].job = worker[v].job
      BY <3>1 DEF WorkerState
    <3> QED
      BY <1>2, <3>2 DEF TypeOK, WorkersTyped, sourceVars
  <2> QED
    BY <2>1, <2>2, <2>3
<1>4. DerivedTyped'
  <2>1. derived' \in [Sources -> Nat]
    BY DEF PrepareExtract, PrepareRemove, PersistExtract, ExtractThrows, MarkRevisionFailed,
       Retire, Heartbeat, TypeOK, DerivedTyped, WorkersTyped, WorkerState, derivedVars
  <2>2. extraction' \in [Sources -> {"pending", "running", "ready", "failed"}]
    <3>1. CASE UNCHANGED extraction
      BY <3>1 DEF TypeOK, DerivedTyped
    <3>2. CASE \E s, status : /\ status \in {"running", "ready", "failed"}
                              /\ SetExtraction(s, status)
      BY <3>2, SetExtractionType DEF TypeOK, DerivedTyped
    <3> QED
      BY <3>1, <3>2 DEF PrepareExtract, PrepareRemove, PersistExtract, ExtractThrows,
         MarkRevisionFailed, Retire, Heartbeat, derivedVars
  <2> QED
    BY <2>1, <2>2 DEF DerivedTyped
<1> QED
  BY <1>2, <1>3, <1>4 DEF TypeOK, sourceVars, SourcesTyped, OutboxTyped, JobsTyped

\* A reindex appends well formed rows only.
LEMMA ReindexTypes ==
  ASSUME TypeOK, NEW w \in Workers, Reindex(w)
  PROVE  TypeOK'
<1> DEFINE alive == {s \in Sources : Visible(s)}
<1>1. worker[w].step = "started" /\ \E step \in Step : GoTo(w, step)
  BY DEF Reindex, Step
<1>2. OutboxTyped' /\ Len(changes') >= Len(changes)
  <2>1. CASE UNCHANGED changes
    BY <2>1 DEF TypeOK, OutboxTyped
  <2>2. ASSUME NEW order \in [1..Cardinality(alive) -> alive],
               Len(changes) + Cardinality(alive) <= MaxChanges,
               changes' = changes \o
                 [i \in DOMAIN order |-> [source |-> order[i], kind |-> "upsert"]]
        PROVE  OutboxTyped' /\ Len(changes') >= Len(changes)
    <3> DEFINE added == [i \in DOMAIN order |-> [source |-> order[i], kind |-> "upsert"]]
    <3>1. Cardinality(alive) \in Nat
      BY FS_Subset, FS_CardinalityType
    <3>2. added \in Seq(Change) /\ Len(added) = Cardinality(alive)
      BY <3>1 DEF Change
    <3> HIDE DEF added
    <3>3. changes \o added \in Seq(Change)
          /\ Len(changes \o added) = Len(changes) + Len(added)
      BY <3>2 DEF TypeOK, OutboxTyped
    <3> QED
      BY <2>2, <3>1, <3>2, <3>3 DEF OutboxTyped, TypeOK, added
  <2> QED
    BY <2>1, <2>2 DEF Reindex
<1>3. JobsTyped' /\ WorkersTyped'
  <2>1. Len(changes) \in Nat /\ Len(changes') \in Nat
    BY <1>2 DEF TypeOK, OutboxTyped
  <2>2. /\ worker' \in [Workers -> WorkerState]
        /\ \A v \in Workers :
             /\ worker'[v].job = worker[v].job
             /\ worker[v].step \in {"idle", "dispatched"} => worker'[v] = worker[v]
    BY <1>1, GoToType DEF TypeOK, WorkersTyped
  <2> QED
    BY <1>2, <2>1, <2>2, OutboxGrows DEF Reindex, TypeOK
<1>4. SourcesTyped' /\ DerivedTyped'
  BY DEF Reindex, derivedVars, TypeOK, SourcesTyped, DerivedTyped
<1> QED
  BY <1>2, <1>3, <1>4 DEF TypeOK

\* Time, cancellation and crashes keep every variable's shape.
LEMMA OutsideTypes ==
  ASSUME TypeOK,
         \/ \E c \in Seqs : Clock(c) \/ Cancel(c)
         \/ \E s \in Sources \cup {Library} : CancelForSource(s)
         \/ \E w \in Workers : Crash(w)
  PROVE  TypeOK'
<1>1. ASSUME NEW c \in Seqs, Clock(c) \/ Cancel(c) PROVE TypeOK'
  <2>1. c <= Len(changes) /\ job[c] \in JobRow
    BY <1>1 DEF Clock, LeaseExpires, BecomesDue, Cancel, Claimed, Active, Waiting, TypeOK,
       JobsTyped
  <2>2. \E row \in JobRow : row.status # "absent" /\ job' = [job EXCEPT ![c] = row]
    <3>1. /\ [job[c] EXCEPT !.live = FALSE] \in JobRow
          /\ [job[c] EXCEPT !.due = TRUE] \in JobRow
          /\ Cancelled(job[c]) \in JobRow /\ Cancelled(job[c]).status # "absent"
          /\ [job[c] EXCEPT !.live = FALSE].status = job[c].status
          /\ [job[c] EXCEPT !.due = TRUE].status = job[c].status
      BY <2>1, RowUpdates DEF JobRow
    <3> QED
      BY <1>1, <3>1 DEF Clock, LeaseExpires, BecomesDue, Cancel, Claimed
  <2>3. UNCHANGED <<sourceVars, derivedVars, worker>> /\ faults' \in 0..MaxFaults
    BY <1>1 DEF Clock, LeaseExpires, BecomesDue, Cancel, TypeOK, WorkersTyped
  <2> QED
    BY <2>1, <2>2, <2>3, OneRow DEF TypeOK, sourceVars, derivedVars, SourcesTyped,
       OutboxTyped, DerivedTyped, WorkersTyped
<1>2. ASSUME NEW s, CancelForSource(s) PROVE TypeOK'
  <2>1. UNCHANGED <<sourceVars, derivedVars, worker>> /\ faults' \in 0..MaxFaults
    BY <1>2 DEF CancelForSource, TypeOK, WorkersTyped
  <2>2. JobsTyped'
    BY <1>2, <2>1, RowUpdates DEF CancelForSource, TypeOK, JobsTyped, sourceVars
  <2> QED
    BY <2>1, <2>2 DEF TypeOK, sourceVars, derivedVars, SourcesTyped, OutboxTyped,
       DerivedTyped, WorkersTyped
<1>3. ASSUME NEW w \in Workers, Crash(w) PROVE TypeOK'
  <2>1. UNCHANGED <<sourceVars, derivedVars, job>> /\ faults' \in 0..MaxFaults
    BY <1>3 DEF Crash, TypeOK, WorkersTyped
  <2>2. WorkersTyped'
    BY <1>3, <2>1, GoIdleType DEF Crash, TypeOK, WorkersTyped, Idle, sourceVars
  <2> QED
    BY <2>1, <2>2 DEF TypeOK, sourceVars, derivedVars, SourcesTyped, OutboxTyped,
       DerivedTyped, JobsTyped
<1> QED
  BY <1>1, <1>2, <1>3

\* Every step of the pipeline keeps every variable's shape.
LEMMA TypeNext == TypeOK /\ [Next]_vars => TypeOK'
<1> SUFFICES ASSUME TypeOK, [Next]_vars PROVE TypeOK'
  OBVIOUS
<1>1. CASE UNCHANGED vars
  BY <1>1 DEF vars, TypeOK, SourcesTyped, OutboxTyped, JobsTyped, DerivedTyped, WorkersTyped
<1>2. ASSUME NEW w \in Workers, RunOnce(w) \/ Heartbeat(w) PROVE TypeOK'
  BY <1>2, DispatchTypes, ClaimNextTypes, FinalizerTypes, ExecuteTypes, ReindexTypes
     DEF RunOnce
<1> QED
  BY <1>1, <1>2, TypeEdit, OutsideTypes DEF Next

\* In every reachable state every variable keeps its shape, every job has its
\* outbox row, and every busy worker holds a job whose outbox row exists.
THEOREM TypeCorrect == Spec => []TypeOK
BY TypeInit, TypeNext, PTL DEF Spec

-----------------------------------------------------------------------------
(* The claim protocol: what the steps of the pipeline can do to one job    *)
(* row, and from that the history of a job, the retry budget and the       *)
(* finality of a lost lease.                                               *)

\* The claim of row c that ClaimNext(w) writes.
ClaimedBy(w, row) ==
  [row EXCEPT !.status = "leased", !.attempts = @ + 1, !.owner = w, !.live = TRUE]

\* What each update does to a row's claim budget.
LEMMA RowAttempts ==
  ASSUME NEW row \in JobRow, NEW w
  PROVE  /\ row.attempts \in Nat
         /\ Released(row).attempts = row.attempts
         /\ Failed(row).attempts = row.attempts
         /\ Cancelled(row).attempts = row.attempts
         /\ ClaimedBy(w, row).attempts = row.attempts + 1
         /\ ClaimedBy(w, row).status = "leased"
         /\ Failed(row).status \notin Claimed
         /\ Cancelled(row).status \notin Claimed
BY DEF JobRow, Released, Failed, Cancelled, ClaimedBy, Claimed

\* Recovery and failure only send a row back to wait while it has claims left.
LEMMA RowBudget ==
  ASSUME NEW row \in JobRow
  PROVE  /\ Failed(row).status \in Waiting => row.attempts < MaxAttempts
         /\ Recovered(row).status \in Waiting =>
              row.status \in Waiting \/ row.attempts < MaxAttempts
<1> DEFINE status == IF row.attempts >= MaxAttempts THEN "terminal-failed" ELSE "retry-wait"
<1>1. row.attempts \in Nat /\ Released(row) \in JobRow
  BY RowUpdates DEF JobRow
<1>2. status \in Waiting => row.attempts < MaxAttempts
  BY <1>1 DEF Waiting
<1>3. Failed(row).status = status
  BY <1>1 DEF Failed, JobRow
<1>4. Recovered(row).status = status \/ Recovered(row) = row
  BY <1>1 DEF Recovered, JobRow
<1> QED
  BY <1>2, <1>3, <1>4

\* Everything a step may do to the row of job c when it changes it.
RowChange(c) ==
  \/ job[c].status = "absent" /\ job'[c] = [Absent EXCEPT !.status = "queued", !.due = TRUE]
  \/ job'[c] = Recovered(job[c])
  \/ \E w \in Workers :
       /\ worker[w].step = "dispatched"
       /\ worker'[w] = [step |-> "claimed", job |-> c, epoch |-> job[c].attempts + 1,
                        snap |-> 0, lost |-> FALSE]
       /\ Recovered(job[c]).status \in Waiting
       /\ job[c].attempts < MaxAttempts
       /\ job'[c] = ClaimedBy(w, Recovered(job[c]))
  \/ \E w \in Workers :
       /\ worker[w].job = c /\ worker[w].step = "claimed" /\ OwnsClaim(w, {"leased"})
       /\ worker' = [worker EXCEPT ![w].step = "started"]
       /\ job'[c] = [job[c] EXCEPT !.status = "running"]
  \/ \E w \in Workers :
       /\ worker[w].job = c /\ worker[w].step = "finishing" /\ OwnsClaim(w, {"running"})
       /\ ~worker[w].lost
       /\ job'[c] = [Released(job[c]) EXCEPT !.status = "completed"]
  \/ \E w \in Workers :
       /\ worker[w].job = c /\ worker[w].step = "failing" /\ LeaseOk(w)
       /\ job'[c] = Failed(job[c])
  \/ job[c].status \in Claimed /\ job'[c] = [job[c] EXCEPT !.live = FALSE]
  \/ job[c].status = "retry-wait" /\ job'[c] = [job[c] EXCEPT !.due = TRUE]
  \/ job[c].status \in Active /\ job'[c] = Cancelled(job[c])

\* A step leaves a row alone or changes it in one of those ways.
LEMMA RowChanges ==
  ASSUME TypeOK, Next, NEW c \in Seqs
  PROVE  job'[c] = job[c] \/ RowChange(c)
<1> SUFFICES ASSUME job'[c] # job[c] PROVE RowChange(c)
  OBVIOUS
<1>1. job \in [Seqs -> JobRow]
  BY DEF TypeOK, JobsTyped
<1>2. ASSUME NEW s \in Sources, Edit(s) PROVE FALSE
  BY <1>2 DEF Edit, Save, SoftDelete, Restore, TrashWork, RestoreWork
<1>3. ASSUME NEW w \in Workers, Dispatch(w) PROVE RowChange(c)
  BY <1>1, <1>3 DEF Dispatch, Undispatched, RowChange
<1>4. ASSUME NEW w \in Workers, ClaimNext(w) PROVE RowChange(c)
  <2> DEFINE rec == [d \in Seqs |-> Recovered(job[d])]
  <2>1. rec[c] = Recovered(job[c]) /\ rec \in [Seqs -> JobRow]
        /\ rec[c].attempts = job[c].attempts
    BY <1>1, RowUpdates
  <2>2. CASE job' = rec
    BY <2>1, <2>2 DEF RowChange
  <2>3. ASSUME NEW d \in Seqs, rec[d].status \in Waiting, rec[d].attempts < MaxAttempts,
               worker[w].step = "dispatched",
               job' = [rec EXCEPT ![d].status = "leased", ![d].attempts = @ + 1,
                                  ![d].owner = w, ![d].live = TRUE],
               worker' = [worker EXCEPT ![w] =
                   [step |-> "claimed", job |-> d, epoch |-> rec[d].attempts + 1,
                    snap |-> 0, lost |-> FALSE]]
        PROVE  RowChange(c)
    <3> HIDE DEF rec
    <3>1. CASE d # c
      <4>1. job'[c] = Recovered(job[c])
        BY <2>1, <2>3, <3>1
      <4> QED
        BY <4>1 DEF RowChange
    <3>2. CASE d = c
      <4>1. job'[c] = ClaimedBy(w, Recovered(job[c]))
        BY <2>1, <2>3, <3>2 DEF ClaimedBy
      <4>2. worker'[w] = [step |-> "claimed", job |-> c, epoch |-> job[c].attempts + 1,
                          snap |-> 0, lost |-> FALSE]
        BY <2>1, <2>3, <3>2 DEF TypeOK, WorkersTyped
      <4> QED
        BY <2>1, <2>3, <3>2, <4>1, <4>2 DEF RowChange
    <3> QED
      BY <3>1, <3>2
  <2> QED
    BY <1>4, <2>2, <2>3 DEF ClaimNext
<1>5. ASSUME NEW w \in Workers, Start(w) PROVE RowChange(c)
  BY <1>1, <1>5 DEF Start, RowChange, GoTo
<1>6. ASSUME NEW w \in Workers, Complete(w) PROVE RowChange(c)
  BY <1>1, <1>6 DEF Complete, RowChange
<1>7. ASSUME NEW w \in Workers, Fail(w) PROVE RowChange(c)
  BY <1>1, <1>7 DEF Fail, RowChange
<1>8. ASSUME NEW w \in Workers,
             \/ PrepareExtract(w) \/ PrepareRemove(w) \/ Reindex(w) \/ PersistExtract(w)
             \/ ExtractThrows(w) \/ MarkRevisionFailed(w) \/ Retire(w) \/ Heartbeat(w)
             \/ Crash(w)
      PROVE  FALSE
  BY <1>8 DEF PrepareExtract, PrepareRemove, Reindex, PersistExtract, ExtractThrows,
     MarkRevisionFailed, Retire, Heartbeat, Crash
<1>9. ASSUME NEW d \in Seqs, Clock(d) \/ Cancel(d) PROVE RowChange(c)
  BY <1>1, <1>9 DEF Clock, LeaseExpires, BecomesDue, Cancel, RowChange
<1>10. ASSUME NEW s, CancelForSource(s) PROVE RowChange(c)
  BY <1>1, <1>10 DEF CancelForSource, RowChange
<1> QED
  BY <1>2, <1>3, <1>4, <1>5, <1>6, <1>7, <1>8, <1>9, <1>10 DEF Next, RunOnce

\* Only the finalizer of a worker that still owns the running claim completes a
\* job.
LEMMA CompletedBy ==
  ASSUME TypeOK, NEW c \in Seqs, RowChange(c),
         job[c].status # "completed", job'[c].status = "completed"
  PROVE  \E w \in Workers :
           worker[w].job = c /\ worker[w].step = "finishing" /\ OwnsClaim(w, {"running"})
<1> job[c] \in JobRow
  BY DEF TypeOK, JobsTyped
<1>1. \A v \in Workers : ClaimedBy(v, Recovered(job[c])).status = "leased"
  BY RowUpdates, RowAttempts
<1>2. Recovered(job[c]).status # "completed"
  BY DEF Recovered, Released, JobRow
<1>3. Failed(job[c]).status # "completed" /\ Cancelled(job[c]).status # "completed"
  BY DEF Failed, Cancelled, Released, JobRow
<1>4. /\ [Absent EXCEPT !.status = "queued", !.due = TRUE].status # "completed"
      /\ [job[c] EXCEPT !.status = "running"].status # "completed"
      /\ [job[c] EXCEPT !.live = FALSE].status # "completed"
      /\ [job[c] EXCEPT !.due = TRUE].status # "completed"
  BY DEF Absent, JobRow
<1> QED
  BY <1>1, <1>2, <1>3, <1>4 DEF RowChange

\* A final status is for good, claims are never given back, and only a running
\* job with a live lease completes.
THEOREM JobsKeepHistory == Spec => JobHistory
<1> DEFINE A == \A c \in Seqs :
       /\ job[c].status \in Terminal => job'[c] = job[c]
       /\ job'[c].attempts >= job[c].attempts
       /\ job'[c].status = "completed" /\ job[c].status # "completed" =>
            job[c].status = "running" /\ job[c].live
<1>1. ASSUME TypeOK, [Next]_vars PROVE [A]_vars
  <2>1. ASSUME Next, NEW c \in Seqs
        PROVE  /\ job[c].status \in Terminal => job'[c] = job[c]
               /\ job'[c].attempts >= job[c].attempts
               /\ job'[c].status = "completed" /\ job[c].status # "completed" =>
                    job[c].status = "running" /\ job[c].live
    <3>1. job[c] \in JobRow
      BY <1>1 DEF TypeOK, JobsTyped
    <3>2. CASE job'[c] = job[c]
      BY <3>1, <3>2 DEF JobRow
    <3>3. CASE RowChange(c)
      <4>1. job[c].status \in Terminal => job'[c] = job[c]
        BY <3>1, <3>3 DEF RowChange, JobRow, Recovered, Active, Claimed, Waiting, Terminal,
           OwnsClaim, LeaseOk
      <4>2. job'[c].attempts >= job[c].attempts
        <5>1. Recovered(job[c]) \in JobRow /\ Recovered(job[c]).attempts = job[c].attempts
          BY <3>1, RowUpdates
        <5>2. job[c].attempts \in Nat /\ Released(job[c]).attempts = job[c].attempts
          BY <3>1, RowAttempts
        <5>3. job[c].status = "absent" => job[c].attempts = 0
          BY <1>1 DEF TypeOK, JobsTyped
        <5>4. \A w \in Workers :
                ClaimedBy(w, Recovered(job[c])).attempts = job[c].attempts + 1
          BY <5>1, RowAttempts
        <5>5. /\ Failed(job[c]).attempts = job[c].attempts
              /\ Cancelled(job[c]).attempts = job[c].attempts
          BY <3>1, RowAttempts
        <5>6. CASE /\ job[c].status = "absent"
                   /\ job'[c] = [Absent EXCEPT !.status = "queued", !.due = TRUE]
          BY <5>3, <5>6 DEF Absent
        <5>7. CASE job'[c] = Recovered(job[c])
          BY <5>1, <5>2, <5>7
        <5>8. CASE \E w \in Workers : job'[c] = ClaimedBy(w, Recovered(job[c]))
          BY <5>2, <5>4, <5>8
        <5>9. CASE job'[c] = Failed(job[c]) \/ job'[c] = Cancelled(job[c])
          BY <5>2, <5>5, <5>9
        <5>10. CASE \/ job'[c] = [job[c] EXCEPT !.status = "running"]
                    \/ job'[c] = [Released(job[c]) EXCEPT !.status = "completed"]
                    \/ job'[c] = [job[c] EXCEPT !.live = FALSE]
                    \/ job'[c] = [job[c] EXCEPT !.due = TRUE]
          BY <3>1, <5>2, <5>10, RowUpdates DEF JobRow
        <5> QED
          BY <3>3, <5>6, <5>7, <5>8, <5>9, <5>10 DEF RowChange
      <4>3. job'[c].status = "completed" /\ job[c].status # "completed" =>
              job[c].status = "running" /\ job[c].live
        BY <1>1, <3>3, CompletedBy DEF OwnsClaim
      <4> QED
        BY <4>1, <4>2, <4>3
    <3> QED
      BY <1>1, <2>1, <3>2, <3>3, RowChanges
  <2> QED
    BY <1>1, <2>1
<1> QED
  BY <1>1, TypeCorrect, PTL DEF Spec, JobHistory

\* A waiting job always has claims left, so claimNext can take it again.
THEOREM RetriesAreClaimable == Spec => []NoStrandedRetry
<1>1. Init => NoStrandedRetry
  BY DEF Init, NoStrandedRetry, Absent, Waiting
<1>2. TypeOK /\ NoStrandedRetry /\ [Next]_vars => NoStrandedRetry'
  <2> SUFFICES ASSUME TypeOK, NoStrandedRetry, [Next]_vars, NEW c \in Seqs,
                      job'[c].status \in Waiting
               PROVE  job'[c].attempts < MaxAttempts
    BY DEF NoStrandedRetry
  <2>1. job[c] \in JobRow /\ job[c].attempts \in Nat
    BY DEF TypeOK, JobsTyped, JobRow
  <2>2. CASE job'[c] = job[c]
    BY <2>2 DEF NoStrandedRetry
  <2>3. CASE RowChange(c)
    <3>1. CASE job'[c] = [Absent EXCEPT !.status = "queued", !.due = TRUE]
      BY <3>1 DEF Absent
    <3>2. CASE job'[c] = Recovered(job[c])
      BY <2>1, <3>2, RowUpdates, RowBudget DEF NoStrandedRetry
    <3>3. CASE job'[c] = Failed(job[c])
      BY <2>1, <3>3, RowAttempts, RowBudget
    <3>4. CASE job[c].status = "retry-wait" /\ job'[c] = [job[c] EXCEPT !.due = TRUE]
      <4>1. job[c].attempts < MaxAttempts
        BY <3>4 DEF NoStrandedRetry, Waiting
      <4> QED
        BY <2>1, <3>4, <4>1 DEF JobRow
    <3>5. ASSUME NEW w \in Workers, job'[c] = ClaimedBy(w, Recovered(job[c])) PROVE FALSE
      BY <2>1, <3>5, RowUpdates, RowAttempts DEF Waiting
    <3>6. CASE \/ job'[c] = [job[c] EXCEPT !.status = "running"]
               \/ job'[c] = [Released(job[c]) EXCEPT !.status = "completed"]
               \/ job[c].status \in Claimed /\ job'[c] = [job[c] EXCEPT !.live = FALSE]
               \/ job'[c] = Cancelled(job[c])
      BY <2>1, <3>6, RowUpdates DEF JobRow, Cancelled, Claimed, Waiting
    <3> QED
      BY <2>3, <3>1, <3>2, <3>3, <3>4, <3>5, <3>6 DEF RowChange
  <2> QED
    BY <2>2, <2>3, RowChanges DEF vars
<1> QED
  BY <1>1, <1>2, TypeCorrect, PTL DEF Spec

-----------------------------------------------------------------------------
(* A lost lease stays lost.                                                *)

Busy(w) == worker[w].step \notin {"idle", "dispatched"}

\* An idle worker remembers nothing of an earlier claim.
IdleClean == \A w \in Workers : ~Busy(w) => ~worker[w].lost

\* A valid claim past start is on a running job.
StartedRunning ==
  \A w \in Workers :
    Busy(w) /\ worker[w].step # "claimed" /\ LeaseOk(w) => job[worker[w].job].status = "running"

LeaseInv == IdleClean /\ LostIsFinal /\ StartedRunning

\* A worker that keeps its claim over a step.
SameClaim(w) ==
  /\ Busy(w) /\ Busy(w)'
  /\ worker'[w].job = worker[w].job
  /\ worker'[w].epoch = worker[w].epoch

\* A step taken under the claim that w holds.
UnderClaim(w) ==
  /\ SameClaim(w)
  /\ worker'[w].step # "claimed"
  /\ worker'[w].lost => worker[w].lost \/ ~LeaseOk(w)
  /\ worker[w].step = "claimed" => job' = [job EXCEPT ![worker[w].job].status = "running"]

\* Everything a step may do to worker w.
WorkerChange(w) ==
  \/ worker'[w] = worker[w]
  \/ worker'[w] = Idle
  \/ ~Busy(w) /\ ~Busy(w)' /\ worker'[w].lost = worker[w].lost
  \/ ~Busy(w) /\ worker'[w].step = "claimed" /\ ~worker'[w].lost
  \/ UnderClaim(w)

LEMMA WorkerChanges ==
  ASSUME TypeOK, Next, NEW w \in Workers
  PROVE  WorkerChange(w)
<1>1. worker \in [Workers -> WorkerState]
  BY DEF TypeOK, WorkersTyped
<1>2. ASSUME NEW v \in Workers, v # w, RunOnce(v) \/ Heartbeat(v) \/ Crash(v)
      PROVE  worker'[w] = worker[w]
  BY <1>1, <1>2 DEF RunOnce, Dispatch, ClaimNext, Start, PrepareExtract, PrepareRemove,
     Reindex, PersistExtract, ExtractThrows, MarkRevisionFailed, Retire, Complete, Fail,
     Heartbeat, Crash, GoTo, GoIdle
<1>3. ASSUME NEW s \in Sources, Edit(s) PROVE worker'[w] = worker[w]
  BY <1>3 DEF Edit, Save, SoftDelete, Restore, TrashWork, RestoreWork
<1>4. CASE \/ \E c \in Seqs : Clock(c) \/ Cancel(c)
           \/ \E s \in Sources \cup {Library} : CancelForSource(s)
  BY <1>4 DEF Clock, LeaseExpires, BecomesDue, Cancel, CancelForSource, WorkerChange
<1>5. CASE Dispatch(w)
  BY <1>1, <1>5 DEF Dispatch, GoTo, Busy, WorkerState, WorkerChange
<1>6. CASE ClaimNext(w)
  <2>1. worker[w].step = "dispatched"
    BY <1>6 DEF ClaimNext
  <2>2. CASE worker' = [worker EXCEPT ![w] = Idle]
    BY <1>1, <2>2 DEF WorkerChange
  <2>3. ASSUME NEW c \in Seqs, NEW e,
               worker' = [worker EXCEPT ![w] =
                   [step |-> "claimed", job |-> c, epoch |-> e, snap |-> 0, lost |-> FALSE]]
        PROVE  ~Busy(w) /\ worker'[w].step = "claimed" /\ ~worker'[w].lost
    BY <1>1, <2>1, <2>3 DEF Busy
  <2> QED
    BY <1>6, <2>2, <2>3 DEF ClaimNext, GoIdle, WorkerChange
<1>7. CASE Start(w)
  BY <1>1, <1>7 DEF Start, GoTo, GoIdle, Busy, SameClaim, WorkerState, WorkerChange,
     UnderClaim
<1>8. CASE \/ PrepareExtract(w) \/ PrepareRemove(w) \/ Reindex(w) \/ PersistExtract(w)
           \/ ExtractThrows(w) \/ MarkRevisionFailed(w) \/ Retire(w)
  BY <1>1, <1>8 DEF PrepareExtract, PrepareRemove, Reindex, PersistExtract, ExtractThrows,
     MarkRevisionFailed, Retire, GoTo, Busy, SameClaim, WorkerState, WorkerChange,
     UnderClaim
<1>9. CASE Heartbeat(w)
  BY <1>1, <1>9 DEF Heartbeat, Busy, SameClaim, WorkerState, WorkerChange,
     UnderClaim
<1>10. CASE Complete(w) \/ Fail(w) \/ Crash(w)
  BY <1>1, <1>10 DEF Complete, Fail, Crash, GoIdle, WorkerChange
<1> QED
  BY <1>2, <1>3, <1>4, <1>5, <1>6, <1>7, <1>8, <1>9, <1>10 DEF Next, RunOnce, WorkerChange

\* No step gives a claim back to a worker that keeps the same claim over it,
\* and none but its own start changes the status of the row it holds.
LEMMA LeaseNeverRegained ==
  ASSUME TypeOK, Next, NEW w \in Workers, SameClaim(w), LeaseOk(w)'
  PROVE  /\ LeaseOk(w)
         /\ \/ job'[worker[w].job].status = job[worker[w].job].status
            \/ worker[w].step = "claimed" /\ job'[worker[w].job].status = "running"
<1> DEFINE c == worker[w].job
           row == job[c]
           row2 == job'[c]
<1>1. c \in Seqs /\ row \in JobRow
  BY ClaimedJob DEF SameClaim, Busy
<1>2. /\ row2.status \in Claimed /\ row2.owner = w /\ row2.live
      /\ row2.attempts = worker[w].epoch
  BY DEF LeaseOk, OwnsClaim, SameClaim
<1> HIDE DEF row, row2
<1>3. CASE row2 = row
  BY <1>2, <1>3 DEF LeaseOk, OwnsClaim, row, row2
<1>4. CASE RowChange(c)
  <2>1. CASE row2 = [Absent EXCEPT !.status = "queued", !.due = TRUE]
    BY <1>2, <2>1 DEF Absent, Claimed
  <2>2. CASE row2 = Recovered(row)
    <3>1. row2 = row
      BY <1>1, <1>2, <2>2 DEF Recovered, Released, Claimed, JobRow, row2
    <3> QED
      BY <1>3, <3>1
  <2>3. ASSUME NEW v \in Workers, worker[v].step = "dispatched",
               row2 = ClaimedBy(v, Recovered(row))
        PROVE  FALSE
    <3>1. row2.owner = v
      BY <1>1, <2>3, RowUpdates DEF ClaimedBy, JobRow
    <3> QED
      BY <1>2, <2>3, <3>1 DEF SameClaim, Busy
  <2>4. ASSUME NEW v \in Workers, worker[v].job = c, worker[v].step = "claimed",
               OwnsClaim(v, {"leased"}),
               row2 = [row EXCEPT !.status = "running"]
        PROVE  /\ LeaseOk(w)
               /\ worker[w].step = "claimed" /\ row2.status = "running"
    BY <1>1, <1>2, <2>4 DEF LeaseOk, OwnsClaim, JobRow, Claimed, row, row2
  <2>5. CASE row2 = [Released(row) EXCEPT !.status = "completed"]
    BY <1>1, <1>2, <2>5, RowUpdates DEF Claimed, JobRow
  <2>6. CASE row2 = Failed(row) \/ row2 = Cancelled(row)
    BY <1>1, <1>2, <2>6, RowAttempts
  <2>7. CASE row2 = [row EXCEPT !.live = FALSE]
    BY <1>1, <1>2, <2>7 DEF JobRow
  <2>8. CASE row.status = "retry-wait" /\ row2 = [row EXCEPT !.due = TRUE]
    BY <1>1, <1>2, <2>8 DEF JobRow, Claimed
  <2> QED
    BY <1>4, <2>1, <2>2, <2>3, <2>4, <2>5, <2>6, <2>7, <2>8 DEF RowChange, row, row2
<1> QED
  BY <1>1, <1>3, <1>4, RowChanges DEF row, row2

LEMMA LeaseInvInductive ==
  /\ Init => LeaseInv
  /\ TypeOK /\ LeaseInv /\ [Next]_vars => LeaseInv'
<1>1. Init => LeaseInv
  BY DEF Init, LeaseInv, IdleClean, LostIsFinal, StartedRunning, Idle, Busy
<1>2. ASSUME TypeOK, LeaseInv, UNCHANGED vars PROVE LeaseInv'
  BY <1>2 DEF vars, LeaseInv, IdleClean, LostIsFinal, StartedRunning, Busy, LeaseOk, OwnsClaim
<1>3. ASSUME TypeOK, LeaseInv, Next PROVE LeaseInv'
  <2> SUFFICES ASSUME NEW w \in Workers
               PROVE  /\ ~Busy(w)' => ~worker'[w].lost
                      /\ worker'[w].lost => ~LeaseOk(w)'
                      /\ Busy(w)' /\ worker'[w].step # "claimed" /\ LeaseOk(w)' =>
                           job'[worker'[w].job].status = "running"
    BY DEF LeaseInv, IdleClean, LostIsFinal, StartedRunning
  <2>1. WorkerChange(w)
    BY <1>3, WorkerChanges
  <2>2. ~Busy(w) => ~worker[w].lost
    BY <1>3 DEF LeaseInv, IdleClean
  <2>3. CASE ~Busy(w)'
    <3>1. ~worker'[w].lost
      BY <2>1, <2>2, <2>3 DEF WorkerChange, UnderClaim, SameClaim, Idle, Busy
    <3> QED
      BY <2>3, <3>1
  <2>4. CASE Busy(w)' /\ ~SameClaim(w)
    <3>1. ~worker'[w].lost /\ worker'[w].step = "claimed"
      BY <2>1, <2>4 DEF WorkerChange, UnderClaim, SameClaim, Idle, Busy
    <3> QED
      BY <3>1
  <2>5. CASE SameClaim(w)
    <3>1. worker'[w] = worker[w] \/ UnderClaim(w)
      BY <2>1, <2>5 DEF WorkerChange, SameClaim, Idle, Busy
    <3>2. ASSUME LeaseOk(w)', worker'[w].lost PROVE FALSE
      <4>1. LeaseOk(w)
        BY <1>3, <2>5, <3>2, LeaseNeverRegained
      <4>2. worker[w].lost
        BY <3>1, <3>2, <4>1 DEF UnderClaim
      <4> QED
        BY <1>3, <4>1, <4>2 DEF LeaseInv, LostIsFinal
    <3>3. ASSUME LeaseOk(w)', worker'[w].step # "claimed"
          PROVE  job'[worker'[w].job].status = "running"
      <4>1. /\ LeaseOk(w)
            /\ \/ job'[worker[w].job].status = job[worker[w].job].status
               \/ job'[worker[w].job].status = "running"
        BY <1>3, <2>5, <3>3, LeaseNeverRegained
      <4>2. CASE worker[w].step # "claimed"
        BY <1>3, <2>5, <4>1, <4>2 DEF LeaseInv, StartedRunning, SameClaim
      <4>3. CASE worker[w].step = "claimed"
        <5>1. job' = [job EXCEPT ![worker[w].job].status = "running"]
          BY <3>1, <3>3, <4>3 DEF UnderClaim
        <5>2. job[worker[w].job] \in JobRow /\ worker[w].job \in Seqs
          BY <1>3, <2>5, ClaimedJob DEF SameClaim, Busy
        <5> QED
          BY <1>3, <2>5, <5>1, <5>2 DEF SameClaim, TypeOK, JobsTyped, JobRow
      <4> QED
        BY <4>2, <4>3
    <3> QED
      BY <2>5, <3>2, <3>3 DEF SameClaim
  <2> QED
    BY <2>3, <2>4, <2>5
<1> QED
  BY <1>1, <1>2, <1>3

\* No worker remembers a claim epoch ahead of its row, a worker that lost its
\* lease is behind the row or holds a dead claim, and one that works started it.
THEOREM LeaseInvariant == Spec => []LeaseInv
BY LeaseInvInductive, TypeCorrect, PTL DEF Spec

\* Once its abort signal has fired, an execution never passes the lease check
\* again, whatever expires, is recovered or is claimed afterwards.
THEOREM LostClaimsStayLost == Spec => []LostIsFinal
BY LeaseInvariant, PTL DEF LeaseInv

=============================================================================
