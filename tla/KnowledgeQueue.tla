--------------------------- MODULE KnowledgeQueue ---------------------------
(***************************************************************************)
(* The durable Knowledge Layer pipeline: canonical edits append outbox     *)
(* rows (knowledge_changes), a dispatcher turns every row into one job     *)
(* (knowledge_jobs), and workers claim jobs under a lease, read the        *)
(* source, build its derived ContentUnits outside any transaction and      *)
(* write them back in a transaction fenced by the claim.                   *)
(*                                                                         *)
(* One action is one database transaction (the coordinator serializes      *)
(* them) or one in-memory step of a worker between two transactions.       *)
(* Time is abstracted to the two comparisons the code makes with it: a     *)
(* claim's lease is live or not, and a job's available_at is due or not.   *)
(***************************************************************************)
EXTENDS Naturals, Sequences, FiniteSets

CONSTANTS
  Workers,      \* the worker processes
  Sources,      \* annotations, evidence items and document revisions
  Revisions,    \* those of Sources that are document revisions (immutable)
  Evidence,     \* those that are evidence items: created once, never edited
  Trashable,    \* those whose parent Work may be moved to the recycle bin
  Library,      \* the source id of a library-wide reindex change
  NoOwner,      \* lease_owner IS NULL
  MaxAttempts,  \* max_attempts of every job
  DispatchLimit,\* outbox rows turned into jobs by one dispatch
  MaxChanges,   \* bound: rows of the outbox
  MaxEdits,     \* bound: canonical edits
  MaxFaults     \* bound: crashes and cancellations

ASSUME QueueAssumption ==
  /\ IsFiniteSet(Sources)
  /\ Revisions \subseteq Sources
  /\ Evidence \subseteq Sources \ Revisions
  /\ Trashable \subseteq Sources
  /\ Library \notin Sources
  /\ NoOwner \notin Workers
  /\ MaxAttempts \in Nat \ {0}
  /\ DispatchLimit \in Nat \ {0}
  /\ MaxChanges \in Nat
  /\ MaxEdits \in Nat
  /\ MaxFaults \in Nat

VARIABLES
  content,   \* canonical content version of a source, 0 while it does not exist
  deleted,   \* the source's own deleted_at IS NOT NULL
  trashed,   \* the parent Work's deleted_at IS NOT NULL
  changes,   \* knowledge_changes, in seq order
  job,       \* knowledge_jobs: job[c] is the job of change c
  derived,   \* version whose ContentUnits are stored, 0 when none are
  extraction,\* extraction_status of a revision
  worker,    \* a worker's place in runOnce and what it remembers there
  edits,     \* canonical edits made so far
  faults     \* crashes and cancellations so far

vars == <<content, deleted, trashed, changes, job, derived, extraction, worker, edits,
          faults>>

sourceVars == <<content, deleted, trashed, changes, edits>>

derivedVars == <<derived, extraction>>

-----------------------------------------------------------------------------
Seqs == 1..MaxChanges

Change == [source : Sources, kind : {"upsert", "delete"}]
            \cup [source : {Library}, kind : {"reindex"}]

Claimed == {"leased", "running"}
Waiting == {"queued", "retry-wait"}
Active == Claimed \cup Waiting
Terminal == {"completed", "terminal-failed", "cancelled"}

JobRow == [status   : {"absent"} \cup Active \cup Terminal,
           attempts : 0..MaxAttempts,
           owner    : Workers \cup {NoOwner},
           live     : BOOLEAN,     \* lease_expires_at > now
           due      : BOOLEAN]     \* available_at <= now

Absent == [status |-> "absent", attempts |-> 0, owner |-> NoOwner,
           live |-> FALSE, due |-> FALSE]

Step == {"idle", "dispatched", "claimed", "started", "extracting", "retiring",
         "marking", "finishing", "failing"}

WorkerState == [step  : Step,
                job   : 0..MaxChanges,   \* the claimed change's seq
                epoch : 0..MaxAttempts,  \* attempts of the claimed row
                snap  : Nat,             \* the source version read by prepare
                lost  : BOOLEAN]         \* leaseLost: the signal was aborted

Idle == [step |-> "idle", job |-> 0, epoch |-> 0, snap |-> 0, lost |-> FALSE]

\* isActiveRevision / isActiveAnnotation / isActiveEvidence
Visible(s) == content[s] # 0 /\ ~deleted[s] /\ ~trashed[s]

\* Mutant: the outbox is never looked at again.
NeverSuperseded(c) == c = 0

\* isJobSuperseded: a newer change of the same source is in the outbox.
Superseded(c) ==
  \E d \in 1..Len(changes) : d > c /\ changes[d].source = changes[c].source

\* Mutant: any live claim of the job is taken for the worker's own.
OwnsClaimByStatus(w, statuses) ==
  job[worker[w].job].status \in statuses /\ job[worker[w].job].live

\* The row still carries this worker's claim: id, owner, attempts, live lease.
OwnsClaim(w, statuses) ==
  LET row == job[worker[w].job]
  IN  /\ row.status \in statuses
      /\ row.owner = w
      /\ row.attempts = worker[w].epoch
      /\ row.live

\* assertKnowledgeJobLease
LeaseOk(w) == OwnsClaim(w, Claimed)

Released(row) == [row EXCEPT !.owner = NoOwner, !.live = FALSE]

\* Mutant: only jobs that were never started are recovered.
RecoveredLeasedOnly(row) ==
  IF row.status = "leased" /\ ~row.live
  THEN [Released(row) EXCEPT
          !.status = IF row.attempts >= MaxAttempts THEN "terminal-failed" ELSE "retry-wait",
          !.due = TRUE]
  ELSE row

\* recoverExpiredLeasesInTransaction, for one row
Recovered(row) ==
  IF row.status \in Claimed /\ ~row.live
  THEN [Released(row) EXCEPT
          !.status = IF row.attempts >= MaxAttempts THEN "terminal-failed" ELSE "retry-wait",
          !.due = TRUE]
  ELSE row

GoTo(w, step) == worker' = [worker EXCEPT ![w].step = step]

GoIdle(w) == worker' = [worker EXCEPT ![w] = Idle]

-----------------------------------------------------------------------------
(* Canonical edits: the mutation and its outbox row commit together.       *)

Append1(s, kind) ==
  /\ Len(changes) < MaxChanges
  /\ edits < MaxEdits
  /\ changes' = Append(changes, [source |-> s, kind |-> kind])
  /\ edits' = edits + 1

\* Creating a source, or updateContent / setOrphaned of one that exists.
Save(s) ==
  /\ content[s] = 0 \/ (s \notin Revisions \cup Evidence /\ Visible(s))
  /\ ~trashed[s]
  /\ content' = [content EXCEPT ![s] = @ + 1]
  /\ Append1(s, "upsert")
  /\ UNCHANGED <<deleted, trashed, job, derivedVars, worker, faults>>

\* An annotation is deleted and restored only in a Work that is not in the
\* recycle bin; an evidence item's changeTombstone does not look at its Work.
SoftDelete(s) ==
  /\ s \notin Revisions
  /\ content[s] # 0
  /\ ~deleted[s]
  /\ trashed[s] => s \in Evidence
  /\ deleted' = [deleted EXCEPT ![s] = TRUE]
  /\ Append1(s, "delete")
  /\ UNCHANGED <<content, trashed, job, derivedVars, worker, faults>>

Restore(s) ==
  /\ deleted[s]
  /\ trashed[s] => s \in Evidence
  /\ deleted' = [deleted EXCEPT ![s] = FALSE]
  /\ Append1(s, "upsert")
  /\ UNCHANGED <<content, trashed, job, derivedVars, worker, faults>>

\* Trashing and restoring the parent Work appends no outbox row.
TrashWork(s) ==
  /\ s \in Trashable
  /\ content[s] # 0
  /\ ~trashed[s]
  /\ edits < MaxEdits
  /\ trashed' = [trashed EXCEPT ![s] = TRUE]
  /\ edits' = edits + 1
  /\ UNCHANGED <<content, deleted, changes, job, derivedVars, worker, faults>>

RestoreWork(s) ==
  /\ trashed[s]
  /\ trashed' = [trashed EXCEPT ![s] = FALSE]
  /\ UNCHANGED <<content, deleted, changes, job, derivedVars, worker, edits, faults>>

-----------------------------------------------------------------------------
(* runOnce of a worker: dispatch, claim, start.                            *)

Undispatched == {c \in 1..Len(changes) : job[c].status = "absent"}

\* dispatchPendingChanges: the oldest DispatchLimit rows that have no job.
Dispatch(w) ==
  /\ worker[w].step = "idle"
  /\ LET batch == {c \in Undispatched :
                     Cardinality({d \in Undispatched : d < c}) < DispatchLimit}
     IN  job' = [c \in Seqs |-> IF c \in batch
                                THEN [Absent EXCEPT !.status = "queued", !.due = TRUE]
                                ELSE job[c]]
  /\ GoTo(w, "dispatched")
  /\ UNCHANGED <<sourceVars, derivedVars, faults>>

\* claimNext: recovers every expired lease, then leases one eligible job.
ClaimNext(w) ==
  /\ worker[w].step = "dispatched"
  /\ LET rec == [c \in Seqs |-> Recovered(job[c])]
         eligible == {c \in Seqs : /\ rec[c].status \in Waiting
                                   /\ rec[c].due
                                   /\ rec[c].attempts < MaxAttempts}
     IN  \/ /\ eligible = {}
            /\ job' = rec
            /\ GoIdle(w)
         \/ \E c \in eligible :
              /\ job' = [rec EXCEPT ![c].status = "leased", ![c].attempts = @ + 1,
                                    ![c].owner = w, ![c].live = TRUE]
              /\ worker' = [worker EXCEPT ![w] =
                   [step |-> "claimed", job |-> c, epoch |-> rec[c].attempts + 1,
                    snap |-> 0, lost |-> FALSE]]
  /\ UNCHANGED <<sourceVars, derivedVars, faults>>

\* Mutant: starting a job counts a second attempt.
StartCounting(w) ==
  /\ worker[w].step = "claimed"
  /\ OwnsClaim(w, {"leased"})
  /\ job' = [job EXCEPT ![worker[w].job].status = "running",
                        ![worker[w].job].attempts = @ + 1]
  /\ GoTo(w, "started")
  /\ UNCHANGED <<sourceVars, derivedVars, faults>>

Start(w) ==
  /\ worker[w].step = "claimed"
  /\ \/ /\ OwnsClaim(w, {"leased"})
        /\ job' = [job EXCEPT ![worker[w].job].status = "running"]
        /\ GoTo(w, "started")
     \/ /\ ~OwnsClaim(w, {"leased"})
        /\ GoIdle(w)
        /\ UNCHANGED job
  /\ UNCHANGED <<sourceVars, derivedVars, faults>>

\* renewLease on the timer; a refused renewal aborts the execution.
Heartbeat(w) ==
  /\ worker[w].step \in {"started", "extracting", "retiring", "marking"}
  /\ ~worker[w].lost
  /\ ~LeaseOk(w)
  /\ worker' = [worker EXCEPT ![w].lost = TRUE]
  /\ UNCHANGED <<sourceVars, job, derivedVars, faults>>

-----------------------------------------------------------------------------
(* execute: the handlers of extract, remove and reindex jobs.              *)

JobKind(w) == changes[worker[w].job].kind
JobSource(w) == changes[worker[w].job].source

\* setRevisionExtractionStatus; other sources have no such column.
SetExtraction(s, status) ==
  extraction' = IF s \in Revisions THEN [extraction EXCEPT ![s] = status] ELSE extraction

\* The transaction (or inspection) that reads the source. A revision's is
\* fenced by the lease; an annotation's or an evidence item's is not.
PrepareExtract(w) ==
  LET s == JobSource(w) IN
  /\ worker[w].step = "started"
  /\ JobKind(w) = "upsert"
  /\ \/ /\ s \in Revisions /\ ~LeaseOk(w)
        /\ GoTo(w, "failing")
        /\ UNCHANGED extraction
     \/ /\ s \in Revisions => LeaseOk(w)
        /\ \/ /\ Superseded(worker[w].job)
              /\ GoTo(w, "finishing")
              /\ UNCHANGED extraction
           \/ /\ ~Superseded(worker[w].job) /\ ~Visible(s)
              /\ GoTo(w, "retiring")
              /\ UNCHANGED extraction
           \/ /\ ~Superseded(worker[w].job) /\ Visible(s)
              /\ worker' = [worker EXCEPT ![w].step = "extracting", ![w].snap = content[s]]
              /\ SetExtraction(s, "running")
  /\ UNCHANGED <<sourceVars, job, derived, faults>>

PrepareRemove(w) ==
  /\ worker[w].step = "started"
  /\ JobKind(w) = "delete"
  /\ GoTo(w, "retiring")
  /\ UNCHANGED <<sourceVars, job, derivedVars, faults>>

\* Mutant: the persist transaction trusts what prepare read.
StillCurrentUnchecked(w) == worker[w].step # "idle"

\* Not superseded, still active, and the same source row prepare read.
StillCurrent(w) ==
  LET s == JobSource(w)
  IN  ~Superseded(worker[w].job) /\ Visible(s) /\ content[s] = worker[w].snap

\* The persist transaction: lease, supersession, source identity, abort.
PersistExtract(w) ==
  LET s == JobSource(w) IN
  /\ worker[w].step = "extracting"
  /\ ~worker[w].lost
  /\ \/ /\ ~LeaseOk(w)
        /\ GoTo(w, IF s \in Revisions THEN "marking" ELSE "failing")
        /\ UNCHANGED derivedVars
     \/ /\ LeaseOk(w) /\ ~StillCurrent(w)
        /\ GoTo(w, "finishing")
        /\ UNCHANGED derivedVars
     \/ /\ LeaseOk(w) /\ StillCurrent(w)
        /\ derived' = [derived EXCEPT ![s] = worker[w].snap]
        /\ SetExtraction(s, "ready")
        /\ GoTo(w, "finishing")
  /\ UNCHANGED <<sourceVars, job, faults>>

\* Reading the blob, parsing it or building the units throws: an extractor
\* error, or throwIfAborted once the signal is aborted.
ExtractThrows(w) ==
  /\ worker[w].step = "extracting"
  /\ GoTo(w, IF JobSource(w) \in Revisions /\ ~worker[w].lost THEN "marking" ELSE "failing")
  /\ UNCHANGED <<sourceVars, job, derivedVars, faults>>

\* Mutant: the failure mark is not fenced by the lease.
MarkRevisionFailedUnfenced(w) ==
  /\ worker[w].step = "marking"
  /\ IF StillCurrent(w) THEN SetExtraction(JobSource(w), "failed") ELSE UNCHANGED extraction
  /\ GoTo(w, "failing")
  /\ UNCHANGED <<sourceVars, job, derived, faults>>

\* markRevisionFailed: a best-effort fenced status write before rethrowing.
MarkRevisionFailed(w) ==
  /\ worker[w].step = "marking"
  /\ IF LeaseOk(w) /\ StillCurrent(w)
     THEN SetExtraction(JobSource(w), "failed")
     ELSE UNCHANGED extraction
  /\ GoTo(w, "failing")
  /\ UNCHANGED <<sourceVars, job, derived, faults>>

\* Mutant: units are retired although a newer change is in the outbox.
RetireStale(w) ==
  /\ worker[w].step = "retiring"
  /\ IF LeaseOk(w)
     THEN derived' = [derived EXCEPT ![JobSource(w)] = 0] /\ GoTo(w, "finishing")
     ELSE UNCHANGED derived /\ GoTo(w, "failing")
  /\ UNCHANGED <<sourceVars, job, extraction, faults>>

\* retireIfCurrent
Retire(w) ==
  /\ worker[w].step = "retiring"
  /\ \/ ~LeaseOk(w) /\ GoTo(w, "failing") /\ UNCHANGED derived
     \/ /\ LeaseOk(w) /\ Superseded(worker[w].job)
        /\ GoTo(w, "finishing") /\ UNCHANGED derived
     \/ /\ LeaseOk(w) /\ ~Superseded(worker[w].job)
        /\ derived' = [derived EXCEPT ![JobSource(w)] = 0]
        /\ GoTo(w, "finishing")
  /\ UNCHANGED <<sourceVars, job, extraction, faults>>

\* executeReindex: one transaction appends an upsert for every live source.
Reindex(w) ==
  LET alive == {s \in Sources : Visible(s)} IN
  /\ worker[w].step = "started"
  /\ JobKind(w) = "reindex"
  /\ \/ ~LeaseOk(w) /\ GoTo(w, "failing") /\ UNCHANGED changes
     \/ /\ LeaseOk(w) /\ Superseded(worker[w].job)
        /\ GoTo(w, "finishing") /\ UNCHANGED changes
     \/ /\ LeaseOk(w) /\ ~Superseded(worker[w].job)
        /\ Len(changes) + Cardinality(alive) <= MaxChanges
        /\ \E order \in [1..Cardinality(alive) -> alive] :
             /\ \A i, k \in DOMAIN order : order[i] = order[k] => i = k
             /\ changes' = changes \o
                  [i \in DOMAIN order |-> [source |-> order[i], kind |-> "upsert"]]
        /\ GoTo(w, "finishing")
  /\ UNCHANGED <<content, deleted, trashed, edits, job, derivedVars, faults>>

-----------------------------------------------------------------------------
(* Finalizers, leases running out, cancellation and crashes.              *)

\* Mutant: the finalizer updates the row by id alone.
CompleteById(w) ==
  /\ worker[w].step = "finishing"
  /\ job' = [job EXCEPT ![worker[w].job] = [Released(@) EXCEPT !.status = "completed"]]
  /\ GoIdle(w)
  /\ UNCHANGED <<sourceVars, derivedVars, faults>>

\* complete, unless the heartbeat already reported the lease lost.
Complete(w) ==
  /\ worker[w].step = "finishing"
  /\ job' = IF ~worker[w].lost /\ OwnsClaim(w, {"running"})
            THEN [job EXCEPT ![worker[w].job] = [Released(@) EXCEPT !.status = "completed"]]
            ELSE job
  /\ GoIdle(w)
  /\ UNCHANGED <<sourceVars, derivedVars, faults>>

\* Mutant: the last attempt is allowed one more retry.
FailedOffByOne(row) ==
  [Released(row) EXCEPT
     !.status = IF row.attempts > MaxAttempts THEN "terminal-failed" ELSE "retry-wait",
     !.due = FALSE]

\* failKnowledgeJob: the claim budget decides between retry and giving up.
Failed(row) ==
  [Released(row) EXCEPT
     !.status = IF row.attempts >= MaxAttempts THEN "terminal-failed" ELSE "retry-wait",
     !.due = FALSE]

Fail(w) ==
  /\ worker[w].step = "failing"
  /\ job' = IF ~worker[w].lost /\ LeaseOk(w)
            THEN [job EXCEPT ![worker[w].job] = Failed(@)]
            ELSE job
  /\ GoIdle(w)
  /\ UNCHANGED <<sourceVars, derivedVars, faults>>

\* lease_expires_at passes without a renewal.
LeaseExpires(c) ==
  /\ job[c].status \in Claimed
  /\ job[c].live
  /\ job' = [job EXCEPT ![c].live = FALSE]
  /\ UNCHANGED <<sourceVars, derivedVars, worker, faults>>

\* available_at of a backed-off job passes.
BecomesDue(c) ==
  /\ job[c].status = "retry-wait"
  /\ ~job[c].due
  /\ job' = [job EXCEPT ![c].due = TRUE]
  /\ UNCHANGED <<sourceVars, derivedVars, worker, faults>>

\* cancel without an owner; cancelForSource is the same for all of a source.
Cancelled(row) == [Released(row) EXCEPT !.status = "cancelled"]

Cancel(c) ==
  /\ job[c].status \in Active
  /\ faults < MaxFaults
  /\ job' = [job EXCEPT ![c] = Cancelled(@)]
  /\ faults' = faults + 1
  /\ UNCHANGED <<sourceVars, derivedVars, worker>>

CancelForSource(s) ==
  LET mine == {c \in 1..Len(changes) : changes[c].source = s /\ job[c].status \in Active} IN
  /\ mine # {}
  /\ faults < MaxFaults
  /\ job' = [c \in Seqs |-> IF c \in mine THEN Cancelled(job[c]) ELSE job[c]]
  /\ faults' = faults + 1
  /\ UNCHANGED <<sourceVars, derivedVars, worker>>

\* The process dies and a new one starts: only the database survives.
Crash(w) ==
  /\ worker[w].step # "idle"
  /\ faults < MaxFaults
  /\ faults' = faults + 1
  /\ GoIdle(w)
  /\ UNCHANGED <<sourceVars, job, derivedVars>>

-----------------------------------------------------------------------------
\* A new Library, or one the Knowledge migration found with content in it and
\* gave a full rebuild.
Init ==
  /\ deleted = [s \in Sources |-> FALSE]
  /\ trashed = [s \in Sources |-> FALSE]
  /\ content \in [Sources -> {0, 1}]
  /\ changes = IF \A s \in Sources : content[s] = 0
               THEN <<>> ELSE <<[source |-> Library, kind |-> "reindex"]>>
  /\ Len(changes) <= MaxChanges
  /\ job = [c \in Seqs |-> Absent]
  /\ derived = [s \in Sources |-> 0]
  /\ extraction = [s \in Sources |-> "pending"]
  /\ worker = [w \in Workers |-> Idle]
  /\ edits = 0
  /\ faults = 0

Edit(s) == Save(s) \/ SoftDelete(s) \/ Restore(s) \/ TrashWork(s) \/ RestoreWork(s)

RunOnce(w) ==
  \/ Dispatch(w) \/ ClaimNext(w) \/ Start(w)
  \/ PrepareExtract(w) \/ PrepareRemove(w) \/ Reindex(w)
  \/ PersistExtract(w) \/ ExtractThrows(w) \/ MarkRevisionFailed(w) \/ Retire(w)
  \/ Complete(w) \/ Fail(w)

Clock(c) == LeaseExpires(c) \/ BecomesDue(c)

Next ==
  \/ \E s \in Sources : Edit(s)
  \/ \E w \in Workers : RunOnce(w) \/ Heartbeat(w) \/ Crash(w)
  \/ \E c \in Seqs : Clock(c) \/ Cancel(c)
  \/ \E s \in Sources \cup {Library} : CancelForSource(s)

Spec == Init /\ [][Next]_vars

\* The dispatcher's timer runs a pass again and again, and time passes.
Fairness ==
  /\ \A w \in Workers : WF_vars(RunOnce(w))
  /\ \A c \in Seqs : WF_vars(Clock(c))

FairSpec == Spec /\ Fairness

-----------------------------------------------------------------------------
(* Properties.                                                             *)

SourcesTyped ==
  /\ content \in [Sources -> Nat]
  /\ deleted \in [Sources -> BOOLEAN]
  /\ trashed \in [Sources -> BOOLEAN]
  /\ edits \in 0..MaxEdits

OutboxTyped == changes \in Seq(Change) /\ Len(changes) <= MaxChanges

JobsTyped ==
  /\ job \in [Seqs -> JobRow]
  /\ \A c \in Seqs : job[c].status # "absent" => c <= Len(changes)
  /\ \A c \in Seqs : job[c].status = "absent" => job[c].attempts = 0

DerivedTyped ==
  /\ derived \in [Sources -> Nat]
  /\ extraction \in [Sources -> {"pending", "running", "ready", "failed"}]

WorkersTyped ==
  /\ worker \in [Workers -> WorkerState]
  /\ \A w \in Workers :
       worker[w].step \notin {"idle", "dispatched"} => worker[w].job \in 1..Len(changes)
  /\ faults \in 0..MaxFaults

\* Every variable keeps its shape, every job has its outbox row, and a worker
\* past claimNext works on a job whose outbox row exists.
TypeOK == SourcesTyped /\ OutboxTyped /\ JobsTyped /\ DerivedTyped /\ WorkersTyped

\* c is the newest change of source s in the outbox.
Newest(s, c) ==
  /\ c \in 1..Len(changes)
  /\ changes[c].source = s
  /\ \A d \in 1..Len(changes) : d > c => changes[d].source # s

SettledBy(s, c) == Newest(s, c) /\ job[c].status = "completed"

\* The units that the canonical source calls for.
Wanted(s) == IF Visible(s) THEN content[s] ELSE 0

\* Once the job of a source's newest change has completed, the stored
\* ContentUnits are exactly those of the canonical source: no late writer, no
\* reclaimed or superseded job leaves older units, or none, behind. (Executor
\* persist/retire transactions, knowledge-executor.ts.)
SettledFresh ==
  \A s \in Sources \ Trashable : \A c \in Seqs :
    SettledBy(s, c) => derived[s] = Wanted(s)

Settled(s) == \E c \in Seqs : SettledBy(s, c)

Index ==
  INSTANCE KnowledgeIndex WITH
    Sources <- Sources \ Trashable,
    wanted <- [s \in Sources \ Trashable |-> Wanted(s)],
    units <- [s \in Sources \ Trashable |-> derived[s]],
    settled <- [s \in Sources \ Trashable |-> Settled(s)]

\* The queue implements the index that is refreshed in one step: although a
\* worker reads a source and writes its units in different transactions, under a
\* lease that may run out in between, no reader of the units can tell.
ImplementsIndex == Index!Spec

\* A live revision whose newest job completed reports "ready": a failure mark of
\* an earlier claim (markRevisionFailed) never lands after a later success.
SettledRevisionReady ==
  \A s \in Revisions \ Trashable : \A c \in Seqs :
    SettledBy(s, c) => extraction[s] = "ready"

\* An aborted execution can never pass the lease check again: the abort signal
\* agrees with the durable row for good.
LostIsFinal == \A w \in Workers : worker[w].lost => ~LeaseOk(w)

\* A job that waits for a retry still has claims left (claimNext demands
\* attempts < max_attempts): fail and lease recovery agree on the last attempt.
NoStrandedRetry ==
  \A c \in Seqs : job[c].status \in Waiting => job[c].attempts < MaxAttempts

\* What a job row may never do: leave a final status, give back claims, or be
\* completed without having been running under a live lease.
JobHistory ==
  [][\A c \in Seqs :
       /\ job[c].status \in Terminal => job'[c] = job[c]
       /\ job'[c].attempts >= job[c].attempts
       /\ job'[c].status = "completed" /\ job[c].status # "completed" =>
            job[c].status = "running" /\ job[c].live]_vars

\* Units and extraction_status are written only by a worker that still holds, by
\* owner and epoch, the live claim of a running job, made for the newest change of
\* their source: a worker that lost its claim, also to a successor that has taken
\* the job over, or was overtaken by an edit, between reading and writing writes
\* nothing.
FencedWrites ==
  [][\A s \in Sources :
       derived'[s] # derived[s] \/ extraction'[s] # extraction[s] =>
         \E w \in Workers :
           LET row == job[worker[w].job]
           IN  /\ worker'[w] # worker[w]
               /\ Newest(s, worker[w].job)
               /\ row.status = "running" /\ row.live
               /\ row.owner = w /\ row.attempts = worker[w].epoch]_vars

\* Stored units never go back to an older version of their source.
UnitsNeverRegress ==
  [][\A s \in Sources : derived'[s] = 0 \/ derived'[s] >= derived[s]]_vars

\* Every outbox row ends as a job in a final status, crashes and expired
\* leases notwithstanding.
EveryChangeSettles ==
  \A c \in Seqs : c <= Len(changes) ~> job[c].status \in Terminal

\* docs/KNOWLEDGE_LAYER_RFC.md, "Restore source": reuse only entries that match
\* the source, otherwise reindex. Trashing and restoring a Work (softDelete and
\* restore of works.ts) append no outbox row, so a job that ran while the Work
\* was in the recycle bin leaves a restored source without its units, or with
\* those of an older version.
RestoredSourceIndexed ==
  \A s \in Sources : \A c \in Seqs :
    SettledBy(s, c) /\ Visible(s) => derived[s] = content[s]

=============================================================================
