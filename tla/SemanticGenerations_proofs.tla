---------------------- MODULE SemanticGenerations_proofs ----------------------
(***************************************************************************)
(* Type correctness, fenced builds and complete, exact searches, for any   *)
(* number of sources, workers, generations, edits and faults.              *)
(***************************************************************************)
EXTENDS SemanticGenerations, TLAPS

USE GenerationAssumption

-----------------------------------------------------------------------------
(* Type correctness.                                                       *)

\* A job that may be claimed has an attempt left.
Claimable == \A g \in Generations :
  job[g].status \in {"queued", "retry-wait"} => job[g].attempts < MaxAttempts

TypeInv == TypeOK /\ Claimable

\* A released job keeps its attempts.
LEMMA ReleasedJob ==
  ASSUME NEW row \in Job, NEW status \in {"completed", "retry-wait", "terminal-failed"}
  PROVE  /\ Released(row, status) \in Job
         /\ Released(row, status).status = status
         /\ Released(row, status).attempts = row.attempts
BY DEF Released, Job

\* Recovering an expired lease gives a job a worker may claim, or ends it.
LEMMA RecoveredJob ==
  ASSUME NEW row \in Job,
         row.status \in {"queued", "retry-wait"} => row.attempts < MaxAttempts
  PROVE  /\ Recovered(row) \in Job
         /\ Recovered(row).status \in {"queued", "retry-wait"} => Recovered(row).attempts < MaxAttempts
<1>1. CASE row.status = "running" /\ ~row.live
  <2>1. Recovered(row) = Released(row, RetryOrGiveUp(row))
    BY <1>1 DEF Recovered
  <2>4. row.attempts \in Nat /\ MaxAttempts \in Nat
    BY DEF Job
  <2>2. CASE row.attempts >= MaxAttempts
    <3>1. RetryOrGiveUp(row) = "terminal-failed"
      BY <2>2 DEF RetryOrGiveUp
    <3> QED
      BY <2>1, <3>1, ReleasedJob
  <2>3. CASE row.attempts < MaxAttempts
    <3>1. RetryOrGiveUp(row) = "retry-wait"
      BY <2>3, <2>4 DEF RetryOrGiveUp
    <3> QED
      BY <2>1, <2>3, <3>1, ReleasedJob
  <2> QED
    BY <2>2, <2>3, <2>4
<1>2. CASE ~(row.status = "running" /\ ~row.live)
  BY <1>2 DEF Recovered
<1> QED
  BY <1>1, <1>2

\* The types of a worker in materialize().
LEMMA BusyWorker ==
  ASSUME TypeOK, NEW w \in Workers, worker[w].step # "idle"
  PROVE  /\ worker[w].gen \in Generations /\ worker[w].epoch \in 0 .. MaxAttempts
         /\ worker[w].batch \in SUBSET Sources
         /\ index[worker[w].gen] \in Generation /\ job[worker[w].gen] \in Job
BY DEF TypeOK, Worker

\* Moving a worker to another place keeps its type.
LEMMA WorkerMoves ==
  ASSUME TypeOK, NEW w \in Workers, worker[w].step # "idle",
         \/ \E step \in Steps : GoTo(w, step)
         \/ \E end \in {"complete", "fail"} : Invalidating(w, end)
         \/ Raise(w)
         \/ Stale(w)
         \/ \E b \in SUBSET Sources, step \in Steps :
              worker' = [worker EXCEPT ![w].step = step, ![w].batch = b]
         \/ worker' = [worker EXCEPT ![w] = Idle]
  PROVE  /\ worker' \in [Workers -> Worker]
         /\ \A v \in Workers : worker'[v].step # "idle" => worker'[v].gen \in Generations
<1>1. /\ worker \in [Workers -> Worker] /\ worker[w] \in Worker /\ worker[w].gen \in Generations
      /\ \A v \in Workers : worker[v].step # "idle" => worker[v].gen \in Generations
  BY DEF TypeOK
<1>2. ASSUME NEW new \in Worker, worker' = [worker EXCEPT ![w] = new],
             new.step # "idle" => new.gen \in Generations
      PROVE  /\ worker' \in [Workers -> Worker]
             /\ \A v \in Workers : worker'[v].step # "idle" => worker'[v].gen \in Generations
  BY <1>1, <1>2
<1>3. ASSUME NEW step \in Steps, GoTo(w, step)
      PROVE  \E new \in Worker : worker' = [worker EXCEPT ![w] = new] /\ new.gen = worker[w].gen
  <2> DEFINE new == [worker[w] EXCEPT !.step = step]
  <2>1. new \in Worker /\ new.gen = worker[w].gen
    BY <1>1 DEF Worker
  <2> QED
    BY <1>3, <2>1 DEF GoTo
<1>4. ASSUME NEW end \in {"complete", "fail"}, Invalidating(w, end)
      PROVE  \E new \in Worker : worker' = [worker EXCEPT ![w] = new] /\ new.gen = worker[w].gen
  <2> DEFINE new == [worker[w] EXCEPT !.step = "invalidate", !.then = end]
  <2>1. new \in Worker /\ new.gen = worker[w].gen
    BY <1>1 DEF Worker, Steps
  <2> QED
    BY <1>4, <2>1 DEF Invalidating
<1>5. ASSUME NEW b \in SUBSET Sources, NEW step \in Steps,
             worker' = [worker EXCEPT ![w].step = step, ![w].batch = b]
      PROVE  \E new \in Worker : worker' = [worker EXCEPT ![w] = new] /\ new.gen = worker[w].gen
  <2> DEFINE new == [worker[w] EXCEPT !.step = step, !.batch = b]
  <2>1. new \in Worker /\ new.gen = worker[w].gen
    BY <1>1 DEF Worker
  <2> QED
    BY <1>5, <2>1
<1>6. "fail" \in Steps /\ Idle \in Worker /\ Idle.step = "idle"
  BY DEF Steps, Idle, Worker
<1>7. Raise(w) => GoTo(w, "fail") \/ Invalidating(w, "fail")
  BY DEF Raise
<1>8. Stale(w) => Invalidating(w, "complete")
  BY DEF Stale
<1> QED
  BY <1>1, <1>2, <1>3, <1>4, <1>5, <1>6, <1>7, <1>8

\* Every job row keeps its type, and a row that may be claimed has an attempt left.
JobsTyped(jobs) ==
  /\ jobs \in [Generations -> Job]
  /\ \A g \in Generations :
       jobs[g].status \in {"queued", "retry-wait"} => jobs[g].attempts < MaxAttempts

\* What each transaction on the job table leaves there.
LEMMA JobsMove ==
  ASSUME TypeInv,
         \/ \E g \in Generations : EnqueueBuild(g)
         \/ \E g \in Generations : Expire(g)
         \/ \E w \in Workers : ClaimNext(w)
         \/ \E w \in Workers : CompleteJob(w) \/ FailJob(w)
  PROVE  JobsTyped(job')
<1>1. JobsTyped(job)
  BY DEF TypeInv, TypeOK, Claimable, JobsTyped
<1>2. ASSUME NEW g \in Generations, NEW row \in Job, job' = [job EXCEPT ![g] = row],
             row.status \in {"queued", "retry-wait"} => row.attempts < MaxAttempts
      PROVE  JobsTyped(job')
  BY <1>1, <1>2 DEF JobsTyped
<1>3. ASSUME NEW g \in Generations, EnqueueBuild(g)
      PROVE  JobsTyped(job')
  <2> DEFINE row == [NoJob EXCEPT !.status = "queued"]
  <2>2. NoJob \in Job /\ NoJob.attempts = 0
    BY DEF NoJob, Job
  <2>1. row \in Job /\ row.attempts < MaxAttempts
    BY <2>2 DEF Job
  <2> QED
    BY <1>2, <1>3, <2>1 DEF EnqueueBuild
<1>4. ASSUME NEW g \in Generations, Expire(g)
      PROVE  JobsTyped(job')
  <2> DEFINE row == [job[g] EXCEPT !.live = FALSE]
  <2>1. row \in Job /\ row.status = job[g].status /\ row.attempts = job[g].attempts
    BY <1>1 DEF JobsTyped, Job
  <2> QED
    BY <1>1, <1>2, <1>4, <2>1 DEF Expire, JobsTyped
<1>5. ASSUME NEW w \in Workers, ClaimNext(w)
      PROVE  JobsTyped(job')
  <2> DEFINE rec == [g \in Generations |-> Recovered(job[g])]
  <2>1. JobsTyped(rec)
    BY <1>1, RecoveredJob DEF JobsTyped
  <2>2. \/ job' = rec
        \/ \E g \in Generations :
             /\ rec[g].status \in {"queued", "retry-wait"}
             /\ job' = [rec EXCEPT ![g] = [status |-> "running", attempts |-> rec[g].attempts + 1,
                                           owner |-> w, live |-> TRUE]]
    BY <1>5 DEF ClaimNext
  <2>3. ASSUME NEW g \in Generations, rec[g].status \in {"queued", "retry-wait"},
               job' = [rec EXCEPT ![g] = [status |-> "running", attempts |-> rec[g].attempts + 1,
                                          owner |-> w, live |-> TRUE]]
        PROVE  JobsTyped(job')
    <3> DEFINE row == [status |-> "running", attempts |-> rec[g].attempts + 1,
                       owner |-> w, live |-> TRUE]
    <3>1. rec[g] \in Job /\ rec[g].attempts < MaxAttempts
      BY <2>1, <2>3 DEF JobsTyped
    <3>2. row \in Job /\ row.status = "running"
      BY <3>1 DEF Job
    <3>3. job' = [rec EXCEPT ![g] = row]
      BY <2>3
    <3> HIDE DEF rec, row
    <3> QED
      BY <2>1, <3>2, <3>3 DEF JobsTyped
  <2> QED
    BY <2>1, <2>2, <2>3
<1>6. ASSUME NEW w \in Workers, NEW status \in {"completed", "retry-wait", "terminal-failed"},
             worker[w].step # "idle", Finish(w, status),
             status = "retry-wait" => job[worker[w].gen].attempts < MaxAttempts
      PROVE  JobsTyped(job')
  <2> DEFINE row == Released(job[worker[w].gen], status)
  <2>1. worker[w].gen \in Generations /\ job[worker[w].gen] \in Job
    BY <1>6, BusyWorker DEF TypeInv
  <2>2. row \in Job /\ row.status = status /\ row.attempts = job[worker[w].gen].attempts
    BY <2>1, ReleasedJob
  <2> QED
    BY <1>2, <1>6, <2>1, <2>2 DEF Finish
<1>7. ASSUME NEW w \in Workers, CompleteJob(w)
      PROVE  JobsTyped(job')
  BY <1>6, <1>7 DEF CompleteJob, Fenced
<1>8. ASSUME NEW w \in Workers, FailJob(w)
      PROVE  JobsTyped(job')
  <2>1. worker[w].step # "idle" /\ Finish(w, RetryOrGiveUp(job[worker[w].gen]))
    BY <1>8 DEF FailJob, Fenced
  <2>2. job[worker[w].gen].attempts \in Nat /\ MaxAttempts \in Nat
    BY <2>1, BusyWorker DEF TypeInv, Job
  <2>3. /\ RetryOrGiveUp(job[worker[w].gen]) \in {"retry-wait", "terminal-failed"}
        /\ RetryOrGiveUp(job[worker[w].gen]) = "retry-wait" => job[worker[w].gen].attempts < MaxAttempts
    BY <2>2 DEF RetryOrGiveUp
  <2> QED
    BY <1>6, <2>1, <2>3
<1> QED
  BY <1>3, <1>4, <1>5, <1>7, <1>8

\* Every index row keeps its type.
LEMMA IndexMoves ==
  ASSUME TypeInv,
         \/ \E g \in Generations : EnqueueBuild(g)
         \/ \E w \in Workers : Activate(w) \/ Invalidate(w)
  PROVE  index' \in [Generations -> Generation]
<1>1. index \in [Generations -> Generation]
  BY DEF TypeInv, TypeOK
<1>2. ASSUME NEW row \in Generation, NEW status \in {"active", "retired", "failed"}
      PROVE  [row EXCEPT !.status = status] \in Generation
  BY DEF Generation
<1>3. ASSUME NEW g \in Generations, EnqueueBuild(g)
      PROVE  index' \in [Generations -> Generation]
  <2> DEFINE pinned == [s \in Sources |-> IF Visible(s) THEN stored[s] ELSE NoContent]
  <2> DEFINE row == [status |-> "building", seq |-> latest, pinned |-> pinned, drained |-> todo = {}]
  <2>1. pinned \in [Sources -> Versions]
    BY DEF TypeInv, TypeOK, Versions
  <2>2. latest \in 0 .. MaxEdits
    BY DEF TypeInv, TypeOK
  <2>3. (todo = {}) \in BOOLEAN
    OBVIOUS
  <2>4. row \in Generation
    <3> HIDE DEF pinned
    <3> QED
      BY <2>1, <2>2, <2>3 DEF Generation
  <2>5. index' = [index EXCEPT ![g] = row]
    BY <1>3 DEF EnqueueBuild
  <2> QED
    BY <1>1, <2>4, <2>5
<1>4. ASSUME NEW w \in Workers, Activate(w)
      PROVE  index' \in [Generations -> Generation]
  BY <1>1, <1>2, <1>4 DEF Activate
<1>5. ASSUME NEW w \in Workers, Invalidate(w)
      PROVE  index' \in [Generations -> Generation]
  <2>1. worker[w].gen \in Generations
    BY <1>5 DEF Invalidate, Fenced, TypeInv, TypeOK
  <2>2. \E status \in {"failed", index[worker[w].gen].status} :
          index' = [index EXCEPT ![worker[w].gen].status = status]
    BY <1>5 DEF Invalidate
  <2>3. [index[worker[w].gen] EXCEPT !.status = "failed"] \in Generation
    BY <1>1, <1>2, <2>1
  <2>4. [index[worker[w].gen] EXCEPT !.status = index[worker[w].gen].status] \in Generation
    BY <1>1, <2>1 DEF Generation
  <2> QED
    BY <1>1, <2>1, <2>2, <2>3, <2>4
<1> QED
  BY <1>3, <1>4, <1>5

\* The state a worker in materialize() goes to.
LEMMA WorkerSteps ==
  ASSUME TypeInv, NEW w \in Workers,
         ClaimNext(w) \/ Materialize(w) \/ ProviderFails(w) \/ Crash(w)
  PROVE  /\ worker' \in [Workers -> Worker]
         /\ \A v \in Workers : worker'[v].step # "idle" => worker'[v].gen \in Generations
<1>1. TypeOK /\ worker \in [Workers -> Worker]
  BY DEF TypeInv, TypeOK
<1>2. \A step \in {"inspect", "list", "persist", "activate", "invalidate", "discard", "embed",
                   "complete", "fail"} : step \in Steps /\ step # "idle"
  BY DEF Steps
<1>3. CASE ClaimNext(w)
  <2> DEFINE rec == [g \in Generations |-> Recovered(job[g])]
  <2>1. \/ UNCHANGED worker
        \/ \E g \in Generations :
             /\ rec[g].status \in {"queued", "retry-wait"}
             /\ worker' = [worker EXCEPT ![w] =
                  [Idle EXCEPT !.step = "inspect", !.gen = g, !.epoch = rec[g].attempts + 1]]
    BY <1>3 DEF ClaimNext
  <2>2. ASSUME NEW g \in Generations, rec[g].status \in {"queued", "retry-wait"}
        PROVE  /\ [Idle EXCEPT !.step = "inspect", !.gen = g, !.epoch = rec[g].attempts + 1] \in Worker
               /\ [Idle EXCEPT !.step = "inspect", !.gen = g, !.epoch = rec[g].attempts + 1].gen = g
    <3>1. rec[g] \in Job /\ rec[g].attempts < MaxAttempts
      BY <2>2, RecoveredJob DEF TypeInv, TypeOK, Claimable
    <3>2. rec[g].attempts + 1 \in 0 .. MaxAttempts /\ g \in 0 .. MaxGenerations
      BY <3>1 DEF Job, Generations
    <3>3. Idle \in Worker
      BY DEF Idle, Worker, Steps
    <3> HIDE DEF rec
    <3> QED
      BY <3>2, <3>3 DEF Worker, Steps
  <2>3. /\ worker \in [Workers -> Worker]
        /\ \A v \in Workers : worker[v].step # "idle" => worker[v].gen \in Generations
    BY <1>1 DEF TypeOK
  <2>4. ASSUME NEW g \in Generations, NEW new \in Worker, new.gen = g,
               worker' = [worker EXCEPT ![w] = new]
        PROVE  /\ worker' \in [Workers -> Worker]
               /\ \A v \in Workers : worker'[v].step # "idle" => worker'[v].gen \in Generations
    BY <2>3, <2>4
  <2> HIDE DEF rec
  <2> QED
    BY <2>1, <2>2, <2>3, <2>4
<1>4. CASE Inspect(w)
  BY <1>1, <1>2, <1>4, WorkerMoves DEF Inspect, Fenced
<1>5. CASE ListPending(w)
  <2>1. \/ Stale(w)
        \/ GoTo(w, "activate")
        \/ \E b \in SUBSET Sources :
             worker' = [worker EXCEPT ![w].step = "embed", ![w].batch = b]
    BY <1>5 DEF ListPending, Batches, Pending
  <2> QED
    BY <1>1, <1>2, <1>5, <2>1, WorkerMoves DEF ListPending, Fenced
<1>6. CASE Embed(w)
  BY <1>1, <1>2, <1>6, WorkerMoves DEF Embed
<1>7. CASE Persist(w)
  <2>1. \/ Stale(w) \/ Raise(w)
        \/ worker' = [worker EXCEPT ![w].step = "list", ![w].batch = {}]
    BY <1>7 DEF Persist
  <2> QED
    BY <1>1, <1>2, <1>7, <2>1, WorkerMoves DEF Persist, Fenced
<1>8. CASE Activate(w)
  <2>1. Stale(w) \/ Raise(w) \/ GoTo(w, "complete")
    BY <1>8 DEF Activate
  <2> QED
    BY <1>1, <1>2, <1>8, <2>1, WorkerMoves DEF Activate, Fenced
<1>9. CASE Invalidate(w)
  BY <1>1, <1>2, <1>9, WorkerMoves DEF Invalidate, Fenced
<1>10. CASE Discard(w)
  <2>1. worker[w].then \in Steps /\ worker[w].then # "idle"
    BY <1>1 DEF Worker, Steps
  <2> QED
    BY <1>1, <1>2, <1>10, <2>1, WorkerMoves DEF Discard, Fenced
<1>11. CASE CompleteJob(w) \/ FailJob(w) \/ LeaseLost(w) \/ Crash(w)
  BY <1>1, <1>2, <1>11, WorkerMoves DEF CompleteJob, FailJob, Finish, LeaseLost, Crash, Fenced
<1>12. CASE ProviderFails(w)
  BY <1>1, <1>2, <1>12, WorkerMoves DEF ProviderFails
<1> QED
  BY <1>3, <1>4, <1>5, <1>6, <1>7, <1>8, <1>9, <1>10, <1>11, <1>12 DEF Materialize

\* Every entry keeps one of its four statuses, and vectors belong to sources.
LEMMA EntriesMove ==
  ASSUME TypeInv,
         \/ \E g \in Generations : EnqueueBuild(g)
         \/ \E s \in Sources : RetireEntries(s)
         \/ \E g \in Generations, b \in SUBSET Sources : WriteVectors(g, b)
  PROVE  entry' \in [Generations -> [Sources -> {"none", "pending", "ready", "retired"}]]
<1>1. entry \in [Generations -> [Sources -> {"none", "pending", "ready", "retired"}]]
  BY DEF TypeInv, TypeOK
<1>2. ASSUME NEW g \in Generations, EnqueueBuild(g)
      PROVE  entry' \in [Generations -> [Sources -> {"none", "pending", "ready", "retired"}]]
  <2>1. PICK row \in [Sources -> {"none", "pending", "ready", "retired"}] :
           entry' = [entry EXCEPT ![g] = row]
    BY <1>2 DEF EnqueueBuild
  <2> QED
    BY <1>1, <2>1
<1>3. ASSUME NEW s \in Sources, RetireEntries(s)
      PROVE  entry' \in [Generations -> [Sources -> {"none", "pending", "ready", "retired"}]]
  <2>1. \A g \in Generations :
          [entry[g] EXCEPT ![s] = "retired"] \in [Sources -> {"none", "pending", "ready", "retired"}]
    BY <1>1
  <2> QED
    BY <1>1, <1>3, <2>1 DEF RetireEntries
<1>4. ASSUME NEW g \in Generations, NEW b \in SUBSET Sources, WriteVectors(g, b)
      PROVE  entry' \in [Generations -> [Sources -> {"none", "pending", "ready", "retired"}]]
  <2>1. PICK row : row = [s \in Sources |-> IF s \in b THEN "ready" ELSE entry[g][s]]
    OBVIOUS
  <2>2. row \in [Sources -> {"none", "pending", "ready", "retired"}]
    BY <1>1, <2>1
  <2>3. entry' = [entry EXCEPT ![g] = row]
    BY <1>1, <1>4, <2>1 DEF WriteVectors
  <2> QED
    BY <1>1, <2>2, <2>3
<1> QED
  BY <1>2, <1>3, <1>4

\* The steps of the Library and its pipeline keep every domain.
LEMMA LibraryTyped ==
  ASSUME TypeInv,
         \/ \E s \in Sources, c \in Versions : Edit(s, c)
         \/ \E s \in Sources : TrashWork(s) \/ RestoreWork(s) \/ Extract(s)
  PROVE  TypeInv'
<1>1. TypeOK /\ Claimable
  BY DEF TypeInv
<1>2. ASSUME NEW s \in Sources, NEW c \in Versions, Edit(s, c)
      PROVE  TypeInv'
  <2>1. canonical' \in [Sources -> Versions] /\ todo' \subseteq Sources
    BY <1>1, <1>2 DEF Edit, TypeOK
  <2>2. latest' \in 0 .. edits' /\ edits' \in 0 .. MaxEdits
    BY <1>1, <1>2 DEF Edit, TypeOK
  <2> QED
    BY <1>1, <1>2, <2>1, <2>2 DEF Edit, tables, TypeInv, TypeOK, Claimable
<1>3. ASSUME NEW s \in Sources, TrashWork(s)
      PROVE  TypeInv'
  <2>1. trashed' \subseteq Sources
    BY <1>1, <1>3 DEF TrashWork, TypeOK
  <2>2. latest' \in 0 .. edits' /\ edits' \in 0 .. MaxEdits
    BY <1>1, <1>3 DEF TrashWork, TypeOK
  <2> QED
    BY <1>1, <1>3, <2>1, <2>2 DEF TrashWork, tables, TypeInv, TypeOK, Claimable
<1>4. ASSUME NEW s \in Sources, RestoreWork(s)
      PROVE  TypeInv'
  <2>1. trashed' \subseteq Sources /\ restored' \subseteq Sources
    BY <1>1, <1>4 DEF RestoreWork, TypeOK
  <2> QED
    BY <1>1, <1>4, <2>1 DEF RestoreWork, tables, TypeInv, TypeOK, Claimable
<1>5. ASSUME NEW s \in Sources, Extract(s)
      PROVE  TypeInv'
  <2>1. stored' \in [Sources -> Versions] /\ todo' \subseteq Sources /\ restored' \subseteq Sources
    BY <1>1, <1>5 DEF Extract, Versions, TypeOK
  <2>2. entry' \in [Generations -> [Sources -> {"none", "pending", "ready", "retired"}]]
    BY <1>1, <1>5, EntriesMove DEF Extract, TypeOK
  <2> QED
    BY <1>1, <1>5, <2>1, <2>2 DEF Extract, TypeInv, TypeOK, Claimable
<1> QED
  BY <1>2, <1>3, <1>4, <1>5

\* The steps of the queue and of materialize() keep every domain.
LEMMA WorkTyped ==
  ASSUME TypeInv,
         NEW w \in Workers, ClaimNext(w) \/ Materialize(w) \/ ProviderFails(w) \/ Crash(w)
  PROVE  TypeInv'
<1>1. TypeOK /\ Claimable
  BY DEF TypeInv
<1>2. /\ worker' \in [Workers -> Worker]
      /\ \A v \in Workers : worker'[v].step # "idle" => worker'[v].gen \in Generations
  BY WorkerSteps
<1>3. CASE ClaimNext(w)
  BY <1>1, <1>2, <1>3, JobsMove
  DEF ClaimNext, library, tables, JobsTyped, TypeInv, TypeOK, Claimable
<1>4. CASE Inspect(w) \/ ListPending(w) \/ Embed(w) \/ LeaseLost(w)
  BY <1>1, <1>2, <1>4
  DEF Inspect, ListPending, Embed, LeaseLost, library, tables, TypeInv, TypeOK, Claimable
<1>5. CASE Persist(w)
  <2>1. worker[w].gen \in Generations /\ worker[w].batch \in SUBSET Sources
    BY <1>1, <1>5, BusyWorker DEF Persist, Fenced
  <2>2. /\ vectors' \in [Generations -> SUBSET Sources]
        /\ entry' \in [Generations -> [Sources -> {"none", "pending", "ready", "retired"}]]
    <3>1. CASE UNCHANGED <<entry, vectors>>
      BY <1>1, <3>1 DEF TypeOK
    <3>2. CASE WriteVectors(worker[w].gen, worker[w].batch)
      BY <1>1, <2>1, <3>2, EntriesMove DEF WriteVectors, TypeOK
    <3> QED
      BY <1>5, <3>1, <3>2 DEF Persist
  <2> QED
    BY <1>1, <1>2, <1>5, <2>2 DEF Persist, library, TypeInv, TypeOK, Claimable
<1>6. CASE Activate(w)
  <2>1. index' \in [Generations -> Generation]
    BY <1>6, IndexMoves
  <2> QED
    BY <1>1, <1>2, <1>6, <2>1 DEF Activate, library, TypeInv, TypeOK, Claimable
<1>7. CASE Invalidate(w)
  <2>1. index' \in [Generations -> Generation]
    BY <1>7, IndexMoves
  <2> QED
    BY <1>1, <1>2, <1>7, <2>1 DEF Invalidate, library, TypeInv, TypeOK, Claimable
<1>8. CASE Discard(w)
  <2>1. vectors' \in [Generations -> SUBSET Sources]
    BY <1>1, <1>8 DEF Discard, TypeOK
  <2> QED
    BY <1>1, <1>2, <1>8, <2>1 DEF Discard, library, TypeInv, TypeOK, Claimable
<1>9. CASE CompleteJob(w) \/ FailJob(w)
  BY <1>1, <1>2, <1>9, JobsMove
  DEF CompleteJob, FailJob, Finish, library, tables, JobsTyped, TypeInv, TypeOK, Claimable
<1>10. CASE ProviderFails(w) \/ Crash(w)
  <2>1. faults' \in 0 .. MaxFaults
    BY <1>1, <1>10 DEF ProviderFails, Crash, TypeOK
  <2> QED
    BY <1>1, <1>2, <1>10, <2>1
    DEF ProviderFails, Crash, library, tables, TypeInv, TypeOK, Claimable
<1> QED
  BY <1>3, <1>4, <1>5, <1>6, <1>7, <1>8, <1>9, <1>10 DEF Materialize

\* Nothing is built and nothing has been edited at first.
LEMMA InitTyped == Init => TypeInv
<1> SUFFICES ASSUME Init
             PROVE  TypeInv
  OBVIOUS
<1>1. /\ canonical \in [Sources -> Versions] /\ stored \in [Sources -> Versions]
      /\ trashed \subseteq Sources /\ restored \subseteq Sources /\ todo \subseteq Sources
      /\ latest \in 0 .. edits /\ edits \in 0 .. MaxEdits /\ faults \in 0 .. MaxFaults
  BY DEF Init, Versions
<1>2. index \in [Generations -> Generation]
  <2>1. PICK row : row = [status |-> "absent", seq |-> 0, pinned |-> [s \in Sources |-> NoContent],
                          drained |-> FALSE]
    OBVIOUS
  <2>2. row \in Generation
    BY <2>1 DEF Generation, Versions
  <2> QED
    BY <2>1, <2>2 DEF Init
<1>3. /\ entry \in [Generations -> [Sources -> {"none", "pending", "ready", "retired"}]]
      /\ vectors \in [Generations -> SUBSET Sources]
  BY DEF Init
<1>4. job \in [Generations -> Job] /\ Claimable
  BY DEF Init, NoJob, Job, Claimable
<1>5. /\ worker \in [Workers -> Worker]
      /\ \A w \in Workers : worker[w].step # "idle" => worker[w].gen \in Generations
  BY DEF Init, Idle, Worker, Steps
<1> QED
  BY <1>1, <1>2, <1>3, <1>4, <1>5 DEF TypeInv, TypeOK

\* Every step keeps every variable in its domain.
LEMMA TypedStep == TypeInv /\ [Next]_vars => TypeInv'
<1> SUFFICES ASSUME TypeInv, [Next]_vars
             PROVE  TypeInv'
  OBVIOUS
<1>1. CASE \/ \E s \in Sources : \E c \in Versions : Edit(s, c)
           \/ \E s \in Sources : TrashWork(s) \/ RestoreWork(s) \/ Extract(s)
  BY <1>1, LibraryTyped
<1>2. ASSUME NEW g \in Generations, EnqueueBuild(g)
      PROVE  TypeInv'
  <2>1. /\ index' \in [Generations -> Generation]
        /\ entry' \in [Generations -> [Sources -> {"none", "pending", "ready", "retired"}]]
        /\ JobsTyped(job')
    BY <1>2, IndexMoves, EntriesMove, JobsMove
  <2> QED
    BY <1>2, <2>1 DEF EnqueueBuild, library, JobsTyped, TypeInv, TypeOK, Claimable
<1>3. ASSUME NEW g \in Generations, AbandonedLeaseExpires(g) \/ HeldLeaseExpires(g)
      PROVE  TypeInv'
  <2>1. JobsTyped(job')
    BY <1>3, JobsMove DEF AbandonedLeaseExpires, HeldLeaseExpires
  <2>2. faults' \in 0 .. MaxFaults
    BY <1>3 DEF AbandonedLeaseExpires, HeldLeaseExpires, TypeInv, TypeOK
  <2> QED
    BY <1>3, <2>1, <2>2
    DEF AbandonedLeaseExpires, HeldLeaseExpires, library, tables, JobsTyped, TypeInv, TypeOK, Claimable
<1>4. ASSUME NEW w \in Workers, ClaimNext(w) \/ Materialize(w) \/ ProviderFails(w) \/ Crash(w)
      PROVE  TypeInv'
  BY <1>4, WorkTyped
<1>5. CASE UNCHANGED vars
  BY <1>5 DEF vars, library, tables, TypeInv, TypeOK, Claimable
<1> QED
  BY <1>1, <1>2, <1>3, <1>4, <1>5 DEF Next

\* TypeOK holds in every reachable state.
THEOREM TypeCorrect == Spec => []TypeOK
<1>1. TypeInv => TypeOK
  BY DEF TypeInv
<1> QED
  BY InitTyped, TypedStep, <1>1, PTL DEF Spec

-----------------------------------------------------------------------------
(* A build is fenced.                                                      *)

\* One generation, in one step: what BuildsAreFenced says of it.
FencedFor(g) ==
  /\ ~(vectors'[g] \subseteq vectors[g]) \/ BecomesActive(g) => FencedStep(g)
  /\ ~(vectors[g] \subseteq vectors'[g]) => index[g].status \in {"failed", "retired"}
  /\ index[g].status = "active" /\ index'[g].status # "active" =>
       \E h \in Generations : BecomesActive(h)

\* A worker that leaves the step it is at takes a step of its own.
LEMMA WorkerLeaves ==
  ASSUME TypeInv, NEW w \in Workers, NEW step \in Steps, GoTo(w, step) \/
           (\E b \in SUBSET Sources : worker' = [worker EXCEPT ![w].step = step, ![w].batch = b]),
         step # worker[w].step
  PROVE  worker'[w] # worker[w]
<1>1. worker \in [Workers -> Worker] /\ worker[w] \in Worker
  BY DEF TypeInv, TypeOK
<1>2. worker'[w].step = step
  BY <1>1 DEF GoTo, Worker
<1> QED
  BY <1>2

\* The transaction of a worker whose lease holds, on a generation that is current.
LEMMA HoldsTheClaim ==
  ASSUME NEW w \in Workers, LeaseOk(w), Current(worker[w].gen),
         index[worker[w].gen].status = "building", worker'[w] # worker[w]
  PROVE  FencedStep(worker[w].gen)
BY DEF LeaseOk, Current, FencedStep

\* Persist adds vectors to its own generation, under the latest claim.
LEMMA PersistFenced ==
  ASSUME TypeInv, NEW w \in Workers, Persist(w), NEW g \in Generations
  PROVE  FencedFor(g)
<1>1. worker[w].step = "persist" /\ LeaseOk(w) /\ index' = index
  BY DEF Persist, Fenced
<1>2. worker[w].gen \in Generations
  BY <1>1, BusyWorker DEF TypeInv
<1>3. CASE UNCHANGED <<entry, vectors>>
  BY <1>1, <1>3 DEF FencedFor, BecomesActive
<1>4. CASE /\ Current(worker[w].gen) /\ index[worker[w].gen].status = "building"
           /\ WriteVectors(worker[w].gen, worker[w].batch)
           /\ worker' = [worker EXCEPT ![w].step = "list", ![w].batch = {}]
  <2>1. vectors' = [vectors EXCEPT ![worker[w].gen] = vectors[worker[w].gen] \cup worker[w].batch]
    BY <1>4 DEF WriteVectors
  <2>2. vectors \in [Generations -> SUBSET Sources]
    BY DEF TypeInv, TypeOK
  <2>3. vectors[g] \subseteq vectors'[g] /\ (g # worker[w].gen => vectors'[g] = vectors[g])
    BY <1>2, <2>1, <2>2
  <2>4. "list" \in Steps
    BY DEF Steps
  <2>5. worker'[w] # worker[w]
    BY <1>1, <1>4, <2>4, WorkerLeaves
  <2>6. FencedStep(worker[w].gen)
    BY <1>1, <1>4, <2>5, HoldsTheClaim
  <2> QED
    BY <1>1, <2>3, <2>6 DEF FencedFor, BecomesActive
<1> QED
  BY <1>3, <1>4 DEF Persist

\* Activate makes its own generation active, under the latest claim.
LEMMA ActivateFenced ==
  ASSUME TypeInv, NEW w \in Workers, Activate(w), NEW g \in Generations
  PROVE  FencedFor(g)
<1>1. worker[w].step = "activate" /\ LeaseOk(w) /\ vectors' = vectors
  BY DEF Activate, Fenced
<1>2. worker[w].gen \in Generations /\ index \in [Generations -> Generation]
  BY <1>1, BusyWorker DEF TypeInv, TypeOK
<1>3. CASE UNCHANGED index
  BY <1>1, <1>3 DEF FencedFor, BecomesActive
<1>4. CASE /\ Current(worker[w].gen) /\ index[worker[w].gen].status = "building"
           /\ index' = [h \in Generations |->
                IF h = worker[w].gen THEN [index[h] EXCEPT !.status = "active"]
                ELSE IF index[h].status = "active" THEN [index[h] EXCEPT !.status = "retired"]
                ELSE index[h]]
           /\ GoTo(w, "complete")
  <2>1. "complete" \in Steps
    BY DEF Steps
  <2>2. worker'[w] # worker[w]
    BY <1>1, <1>4, <2>1, WorkerLeaves
  <2>3. FencedStep(worker[w].gen)
    BY <1>1, <1>4, <2>2, HoldsTheClaim
  <2>4. index'[worker[w].gen].status = "active"
    BY <1>2, <1>4 DEF Generation
  <2>5. BecomesActive(worker[w].gen)
    BY <1>4, <2>4 DEF BecomesActive
  <2>6. ASSUME g # worker[w].gen, BecomesActive(g)
        PROVE  FALSE
    <3>1. \/ index'[g] = index[g]
          \/ index'[g] = [index[g] EXCEPT !.status = "retired"]
      BY <1>4, <2>6
    <3>2. [index[g] EXCEPT !.status = "retired"].status = "retired"
      BY <1>2 DEF Generation
    <3> QED
      BY <2>6, <3>1, <3>2 DEF BecomesActive
  <2> QED
    BY <1>1, <1>2, <2>3, <2>5, <2>6 DEF FencedFor
<1> QED
  BY <1>3, <1>4 DEF Activate

\* Discard takes vectors away from a generation that is failed or retired.
LEMMA DiscardFenced ==
  ASSUME TypeInv, NEW w \in Workers, Discard(w), NEW g \in Generations
  PROVE  FencedFor(g)
<1>1. /\ index' = index
      /\ vectors' = [vectors EXCEPT ![worker[w].gen] =
           IF index[worker[w].gen].status \in {"failed", "retired"} THEN {} ELSE vectors[worker[w].gen]]
      /\ vectors \in [Generations -> SUBSET Sources]
  BY DEF Discard, TypeInv, TypeOK
<1>2. vectors'[g] = vectors[g]
      \/ (g = worker[w].gen /\ vectors'[g] = {} /\ index[g].status \in {"failed", "retired"})
  BY <1>1
<1> QED
  BY <1>1, <1>2 DEF FencedFor, BecomesActive

\* A generation that is begun or invalidated was not active and is not now.
LEMMA OtherStatusFenced ==
  ASSUME TypeInv, NEW g \in Generations, vectors' = vectors,
         NEW h \in Generations, NEW row,
         index[h].status \notin {"active"}, row.status # "active",
         index' = [index EXCEPT ![h] = row]
  PROVE  FencedFor(g)
<1>1. index \in [Generations -> Generation]
  BY DEF TypeInv, TypeOK
<1>2. index'[g] = index[g] \/ (g = h /\ index'[g] = row)
  BY <1>1
<1> QED
  BY <1>2 DEF FencedFor, BecomesActive

\* Invalidate fails a build, and leaves any other generation as it is.
LEMMA InvalidateFenced ==
  ASSUME TypeInv, NEW w \in Workers, Invalidate(w), NEW g \in Generations
  PROVE  FencedFor(g)
<1>1. /\ vectors' = vectors
      /\ index \in [Generations -> Generation]
      /\ worker[w].gen \in Generations
  BY BusyWorker DEF Invalidate, Fenced, TypeInv, TypeOK
<1>2. CASE index[worker[w].gen].status = "building"
  <2>1. index' = [index EXCEPT ![worker[w].gen].status = "failed"]
    BY <1>2 DEF Invalidate
  <2>2. index'[g] = index[g] \/ (g = worker[w].gen /\ index'[g].status = "failed")
    BY <1>1, <2>1 DEF Generation
  <2> QED
    BY <1>1, <1>2, <2>2 DEF FencedFor, BecomesActive
<1>3. CASE index[worker[w].gen].status # "building"
  <2>1. index' = [index EXCEPT ![worker[w].gen].status = index[worker[w].gen].status]
    BY <1>3 DEF Invalidate
  <2>2. index'[g].status = index[g].status
    BY <1>1, <2>1 DEF Generation
  <2> QED
    BY <1>1, <2>2 DEF FencedFor, BecomesActive
<1> QED
  BY <1>2, <1>3

\* No other step touches a vector or the status of a generation.
LEMMA FencedNext ==
  ASSUME TypeInv, Next, NEW g \in Generations
  PROVE  FencedFor(g)
<1>1. ASSUME NEW h \in Generations, EnqueueBuild(h)
      PROVE  FencedFor(g)
  <2> DEFINE pinned == [s \in Sources |-> IF Visible(s) THEN stored[s] ELSE NoContent]
  <2> DEFINE row == [status |-> "building", seq |-> latest, pinned |-> pinned, drained |-> todo = {}]
  <2>1. row.status = "building"
    OBVIOUS
  <2>2. index' = [index EXCEPT ![h] = row] /\ index[h].status = "absent" /\ vectors' = vectors
    BY <1>1 DEF EnqueueBuild
  <2> HIDE DEF row
  <2> QED
    BY <2>1, <2>2, OtherStatusFenced
<1>2. CASE UNCHANGED <<vectors, index>>
  BY <1>2 DEF FencedFor, BecomesActive
<1>3. ASSUME NEW w \in Workers, Materialize(w)
      PROVE  FencedFor(g)
  BY <1>2, <1>3, PersistFenced, ActivateFenced, InvalidateFenced, DiscardFenced
  DEF Materialize, Inspect, ListPending, Embed, CompleteJob, FailJob, Finish, LeaseLost, tables
<1> QED
  BY <1>1, <1>2, <1>3
  DEF Next, Edit, TrashWork, RestoreWork, Extract, AbandonedLeaseExpires, HeldLeaseExpires,
      ClaimNext, ProviderFails, Crash, tables

\* BuildsAreFenced: vectors appear, and a generation becomes the one searches
\* use, only under the latest claim of its build and while the Library is as it
\* was pinned; vectors go only from a generation no search uses.
THEOREM BuildsFenced == Spec => BuildsAreFenced
<1>1. TypeInv /\ [Next]_vars => [\A g \in Generations : FencedFor(g)]_vars
  BY FencedNext
<1>2. (\A g \in Generations : FencedFor(g)) <=>
        \A g \in Generations :
          /\ ~(vectors'[g] \subseteq vectors[g]) \/ BecomesActive(g) => FencedStep(g)
          /\ ~(vectors[g] \subseteq vectors'[g]) => index[g].status \in {"failed", "retired"}
          /\ index[g].status = "active" /\ index'[g].status # "active" =>
               \E h \in Generations : BecomesActive(h)
  BY DEF FencedFor
<1> QED
  BY <1>1, <1>2, InitTyped, TypedStep, PTL DEF Spec, BuildsAreFenced

-----------------------------------------------------------------------------
(* The active generation is complete.                                      *)

\* A ready entry has its vector, unless the generation was given up, and still
\* pins the unit that is stored.
ReadyIsStored ==
  \A g \in Generations, s \in Sources :
    entry[g][s] = "ready" =>
      /\ stored[s] = index[g].pinned[s] /\ stored[s] # NoContent
      /\ s \in vectors[g] \/ index[g].status \in {"failed", "retired"}

\* A generation that was not begun has no entries.
AbsentIsEmpty ==
  \A g \in Generations, s \in Sources : index[g].status = "absent" => entry[g][s] = "none"

\* One generation at most is active, and nothing of it was left out.
ActiveIsBuilt ==
  \A g \in Generations : index[g].status = "active" =>
    /\ \A h \in Generations : index[h].status = "active" => h = g
    /\ \A s \in Pinned(g) : entry[g][s] \in {"ready", "retired"}

BuildInv == TypeInv /\ ReadyIsStored /\ AbsentIsEmpty /\ ActiveIsBuilt

\* What the transactions do to the tables of one generation and one source.
LEMMA ExtractEntries ==
  ASSUME TypeInv, ReadyIsStored, NEW s \in Sources, Extract(s)
  PROVE  \A g \in Generations, r \in Sources :
           /\ entry'[g][r] \in {entry[g][r], "retired"}
           /\ entry[g][r] = "none" => entry'[g][r] = "none"
           /\ r = s /\ stored'[s] # stored[s] => entry'[g][r] # "ready"
           /\ r # s => stored'[r] = stored[r]
<1>1. /\ entry \in [Generations -> [Sources -> {"none", "pending", "ready", "retired"}]]
      /\ stored \in [Sources -> Versions]
  BY DEF TypeInv, TypeOK
<1>2. \A r \in Sources : r # s => stored'[r] = stored[r]
  BY <1>1 DEF Extract
<1>3. CASE RetireEntries(s)
  <2>1. \A g \in Generations, r \in Sources :
          /\ entry'[g][r] \in {entry[g][r], "retired"}
          /\ entry[g][r] = "none" => entry'[g][r] = "none"
          /\ r = s => (entry'[g][r] = "ready" => index[g].pinned[s] # stored[s] /\ entry[g][r] = "ready")
    BY <1>1, <1>3 DEF RetireEntries
  <2> QED
    BY <1>2, <2>1 DEF ReadyIsStored
<1>4. CASE ~RetireEntries(s)
  <2>1. entry' = entry /\ stored' = [stored EXCEPT ![s] = IF Visible(s) THEN canonical[s] ELSE NoContent]
        /\ stored[s] \in {NoContent, IF Visible(s) THEN canonical[s] ELSE NoContent}
    BY <1>4 DEF Extract
  <2>2. stored'[s] # stored[s] => stored[s] = NoContent
    BY <1>1, <2>1
  <2> QED
    BY <1>2, <2>1, <2>2 DEF ReadyIsStored
<1> QED
  BY <1>3, <1>4

\* Extract keeps what was built: an entry whose unit goes is retired with it.
LEMMA ExtractBuilt ==
  ASSUME BuildInv, NEW s \in Sources, Extract(s)
  PROVE  ReadyIsStored' /\ AbsentIsEmpty' /\ ActiveIsBuilt'
<1>1. \A g \in Generations, r \in Sources :
        /\ entry'[g][r] \in {entry[g][r], "retired"}
        /\ entry[g][r] = "none" => entry'[g][r] = "none"
        /\ r = s /\ stored'[s] # stored[s] => entry'[g][r] # "ready"
        /\ r # s => stored'[r] = stored[r]
  BY ExtractEntries DEF BuildInv
<1>2. index' = index /\ vectors' = vectors
  BY DEF Extract
<1>3. ReadyIsStored'
  BY <1>1, <1>2 DEF BuildInv, ReadyIsStored
<1>4. AbsentIsEmpty'
  BY <1>1, <1>2 DEF BuildInv, AbsentIsEmpty
<1>5. ActiveIsBuilt'
  BY <1>1, <1>2 DEF BuildInv, ActiveIsBuilt, Pinned
<1> QED
  BY <1>3, <1>4, <1>5

\* A new generation starts with entries that wait for their vectors.
LEMMA EnqueueBuilt ==
  ASSUME BuildInv, NEW g \in Generations, EnqueueBuild(g)
  PROVE  ReadyIsStored' /\ AbsentIsEmpty' /\ ActiveIsBuilt'
<1>1. /\ index \in [Generations -> Generation]
      /\ entry \in [Generations -> [Sources -> {"none", "pending", "ready", "retired"}]]
  BY DEF BuildInv, TypeInv, TypeOK
<1> DEFINE pinned == [s \in Sources |-> IF Visible(s) THEN stored[s] ELSE NoContent]
<1> DEFINE row == [status |-> "building", seq |-> latest, pinned |-> pinned, drained |-> todo = {}]
<1> DEFINE pending == [s \in Sources |-> IF pinned[s] = NoContent THEN "none" ELSE "pending"]
<1>2. /\ index[g].status = "absent" /\ index' = [index EXCEPT ![g] = row]
      /\ entry' = [entry EXCEPT ![g] = pending]
      /\ stored' = stored /\ vectors' = vectors
  BY DEF EnqueueBuild
<1>3. row.status = "building" /\ \A s \in Sources : pending[s] \in {"none", "pending"}
  OBVIOUS
<1> HIDE DEF row, pending
<1>4. /\ index'[g].status = "building" /\ \A s \in Sources : entry'[g][s] \in {"none", "pending"}
      /\ \A h \in Generations : h # g => index'[h] = index[h] /\ entry'[h] = entry[h]
  BY <1>1, <1>2, <1>3
<1>5. ReadyIsStored'
  BY <1>2, <1>4 DEF BuildInv, ReadyIsStored
<1>6. AbsentIsEmpty'
  BY <1>4 DEF BuildInv, AbsentIsEmpty
<1>7. ActiveIsBuilt'
  BY <1>4 DEF BuildInv, ActiveIsBuilt, Pinned
<1> QED
  BY <1>5, <1>6, <1>7

\* Persist makes an entry ready only with its vector and its unit.
LEMMA PersistBuilt ==
  ASSUME BuildInv, NEW w \in Workers, Persist(w)
  PROVE  ReadyIsStored' /\ AbsentIsEmpty' /\ ActiveIsBuilt'
<1>1. /\ entry \in [Generations -> [Sources -> {"none", "pending", "ready", "retired"}]]
      /\ vectors \in [Generations -> SUBSET Sources]
      /\ worker[w].gen \in Generations /\ worker[w].batch \in SUBSET Sources
  BY BusyWorker DEF Persist, Fenced, BuildInv, TypeInv, TypeOK
<1>2. stored' = stored /\ index' = index
  BY DEF Persist
<1>3. CASE UNCHANGED <<entry, vectors>>
  BY <1>2, <1>3 DEF BuildInv, ReadyIsStored, AbsentIsEmpty, ActiveIsBuilt, Pinned
<1>4. CASE /\ index[worker[w].gen].status = "building"
           /\ worker[w].batch \subseteq Pending(worker[w].gen)
           /\ WriteVectors(worker[w].gen, worker[w].batch)
  <2> DEFINE g == worker[w].gen
  <2>1. /\ vectors' = [vectors EXCEPT ![g] = vectors[g] \cup worker[w].batch]
        /\ entry' = [entry EXCEPT ![g] = [s \in Sources |->
             IF s \in worker[w].batch THEN "ready" ELSE entry[g][s]]]
    BY <1>4 DEF WriteVectors
  <2>2. \A h \in Generations, s \in Sources :
          /\ h # g \/ s \notin worker[w].batch => entry'[h][s] = entry[h][s]
          /\ s \in vectors[h] => s \in vectors'[h]
          /\ s \in worker[w].batch => s \in vectors'[g]
    BY <1>1, <2>1
  <2>3. \A s \in worker[w].batch :
          stored[s] = index[g].pinned[s] /\ stored[s] # NoContent
    BY <1>4 DEF Pending, Matches
  <2>4. index[g].status = "building"
    BY <1>4
  <2> HIDE DEF g
  <2>5. ReadyIsStored'
    BY <1>2, <2>2, <2>3 DEF BuildInv, ReadyIsStored
  <2>6. AbsentIsEmpty'
    BY <1>2, <2>2, <2>4 DEF BuildInv, AbsentIsEmpty
  <2>7. ActiveIsBuilt'
    BY <1>2, <2>2, <2>4 DEF BuildInv, ActiveIsBuilt, Pinned
  <2> QED
    BY <2>5, <2>6, <2>7
<1> QED
  BY <1>3, <1>4 DEF Persist

\* Activate makes a complete generation the only active one.
LEMMA ActivateBuilt ==
  ASSUME BuildInv, NEW w \in Workers, Activate(w)
  PROVE  ReadyIsStored' /\ AbsentIsEmpty' /\ ActiveIsBuilt'
<1>1. /\ index \in [Generations -> Generation]
      /\ worker[w].gen \in Generations
  BY BusyWorker DEF Activate, Fenced, BuildInv, TypeInv, TypeOK
<1>2. stored' = stored /\ entry' = entry /\ vectors' = vectors
  BY DEF Activate
<1>3. CASE UNCHANGED index
  BY <1>2, <1>3 DEF BuildInv, ReadyIsStored, AbsentIsEmpty, ActiveIsBuilt, Pinned
<1>4. CASE /\ index[worker[w].gen].status = "building"
           /\ Complete(worker[w].gen)
           /\ index' = [h \in Generations |->
                IF h = worker[w].gen THEN [index[h] EXCEPT !.status = "active"]
                ELSE IF index[h].status = "active" THEN [index[h] EXCEPT !.status = "retired"]
                ELSE index[h]]
  <2> DEFINE g == worker[w].gen
  <2>1. \A h \in Generations :
          /\ index'[h].pinned = index[h].pinned
          /\ h = g => index'[h].status = "active"
          /\ h # g => index'[h].status = IF index[h].status = "active" THEN "retired"
                                         ELSE index[h].status
    BY <1>1, <1>4 DEF Generation
  <2>2. index[g].status = "building" /\ \A s \in Pinned(g) : entry[g][s] = "ready"
    BY <1>4 DEF Complete
  <2>3. g \in Generations
    BY <1>1
  <2> HIDE DEF g
  <2>4. ReadyIsStored'
    BY <1>2, <2>1, <2>2 DEF BuildInv, ReadyIsStored
  <2>5. AbsentIsEmpty'
    BY <1>2, <2>1, <2>2 DEF BuildInv, AbsentIsEmpty
  <2>6. ActiveIsBuilt'
    <3>1. \A h \in Generations : index'[h].status = "active" => h = g
      BY <2>1
    <3>2. \A s \in Sources :
            index'[g].pinned[s] # NoContent => entry'[g][s] \in {"ready", "retired"}
      BY <1>2, <2>1, <2>2, <2>3 DEF Pinned
    <3> QED
      BY <3>1, <3>2 DEF ActiveIsBuilt, Pinned
  <2> QED
    BY <2>4, <2>5, <2>6
<1> QED
  BY <1>3, <1>4 DEF Activate

\* Giving a generation up, and discarding its vectors, touches no other.
LEMMA GiveUpBuilt ==
  ASSUME BuildInv, NEW w \in Workers, Invalidate(w) \/ Discard(w)
  PROVE  ReadyIsStored' /\ AbsentIsEmpty' /\ ActiveIsBuilt'
<1>1. /\ index \in [Generations -> Generation] /\ vectors \in [Generations -> SUBSET Sources]
      /\ worker[w].gen \in Generations
  BY BusyWorker DEF Invalidate, Discard, Fenced, BuildInv, TypeInv, TypeOK
<1>2. stored' = stored /\ entry' = entry
  BY DEF Invalidate, Discard
<1>3. CASE Invalidate(w)
  <2>1. \A h \in Generations :
          /\ index'[h].pinned = index[h].pinned
          /\ index'[h].status = index[h].status
               \/ (index[h].status = "building" /\ index'[h].status = "failed")
    BY <1>1, <1>3 DEF Invalidate, Generation
  <2>2. vectors' = vectors
    BY <1>3 DEF Invalidate
  <2> QED
    BY <1>2, <2>1, <2>2 DEF BuildInv, ReadyIsStored, AbsentIsEmpty, ActiveIsBuilt, Pinned
<1>4. CASE Discard(w)
  <2>1. \A h \in Generations :
          vectors'[h] = vectors[h] \/ index[h].status \in {"failed", "retired"}
    BY <1>1, <1>4 DEF Discard
  <2>2. index' = index
    BY <1>4 DEF Discard
  <2> QED
    BY <1>2, <2>1, <2>2 DEF BuildInv, ReadyIsStored, AbsentIsEmpty, ActiveIsBuilt, Pinned
<1> QED
  BY <1>3, <1>4

\* Nothing has been built at first.
LEMMA InitBuilt == Init => BuildInv
<1> SUFFICES ASSUME Init
             PROVE  BuildInv
  OBVIOUS
<1>1. \A g \in Generations : index[g].status = "absent"
  BY DEF Init
<1>2. \A g \in Generations, s \in Sources : entry[g][s] = "none"
  BY DEF Init
<1> QED
  BY <1>1, <1>2, InitTyped DEF BuildInv, ReadyIsStored, AbsentIsEmpty, ActiveIsBuilt

\* Every step keeps what was built.
LEMMA BuiltStep == BuildInv /\ [Next]_vars => BuildInv'
<1> SUFFICES ASSUME BuildInv, [Next]_vars
             PROVE  BuildInv'
  OBVIOUS
<1>1. TypeInv'
  BY TypedStep DEF BuildInv
<1>2. CASE UNCHANGED tables
  BY <1>1, <1>2 DEF BuildInv, tables, ReadyIsStored, AbsentIsEmpty, ActiveIsBuilt, Pinned
<1>3. ReadyIsStored' /\ AbsentIsEmpty' /\ ActiveIsBuilt'
  BY <1>2, ExtractBuilt, EnqueueBuilt, PersistBuilt, ActivateBuilt, GiveUpBuilt
  DEF BuildInv, Next, Edit, TrashWork, RestoreWork, AbandonedLeaseExpires, HeldLeaseExpires, ClaimNext,
      Materialize, Inspect, ListPending, Embed, CompleteJob, FailJob, Finish, LeaseLost,
      ProviderFails, Crash, vars
<1> QED
  BY <1>1, <1>2, <1>3 DEF BuildInv

\* ActiveIsComplete: searches use one generation at most, and every unit it
\* pinned is there with its vector or was retired with its source.
THEOREM SearchedIsComplete == Spec => []ActiveIsComplete
<1>1. BuildInv => ActiveIsComplete
  <2> SUFFICES ASSUME BuildInv, NEW g \in Generations, index[g].status = "active"
               PROVE  /\ \A h \in Generations : index[h].status = "active" => h = g
                      /\ \A s \in Pinned(g) :
                           \/ /\ entry[g][s] = "ready" /\ s \in vectors[g]
                              /\ stored[s] = index[g].pinned[s]
                           \/ entry[g][s] = "retired"
    BY DEF ActiveIsComplete
  <2> QED
    BY DEF BuildInv, ReadyIsStored, ActiveIsBuilt, Pinned
<1> QED
  BY InitBuilt, BuiltStep, <1>1, PTL DEF Spec

-----------------------------------------------------------------------------
(* A search of a current generation is exact.                              *)

\* A source whose Work is in the recycle bin, or came back and had no job since.
Binned(s) == s \in trashed \cup restored

\* A source with no waiting change has the unit its content asks for, or none
\* because its Work was in the recycle bin when its last job was executed.
Caught ==
  \A s \in Sources \ todo :
    /\ stored[s] \in {canonical[s], NoContent}
    /\ ~Binned(s) => stored[s] = canonical[s]

\* What a generation pinned of a source is what the source says, or nothing
\* because its Work was in the recycle bin.
PinnedExactly(g, s) ==
  /\ index[g].pinned[s] \in {canonical[s], NoContent}
  /\ ~Binned(s) => index[g].pinned[s] = canonical[s]
  /\ entry[g][s] # "retired"

\* A generation that pinned its units when nothing was waiting still pins what
\* the sources say, for as long as no change is newer than it.
DrainedIsExact ==
  \A g \in Generations : index[g].status # "absent" =>
    /\ index[g].seq <= latest
    /\ index[g].drained /\ index[g].seq = latest =>
         todo = {} /\ \A s \in Sources : PinnedExactly(g, s)

SearchInv == BuildInv /\ Caught /\ DrainedIsExact

\* An edit moves latest past every generation; nothing is pinned of it.
LEMMA EditExact ==
  ASSUME SearchInv, NEW s \in Sources, NEW c \in Versions, Edit(s, c)
  PROVE  Caught' /\ DrainedIsExact'
<1>1. /\ canonical' = [canonical EXCEPT ![s] = c] /\ canonical \in [Sources -> Versions]
      /\ latest' = latest + 1 /\ todo' = todo \cup {s}
      /\ trashed' = trashed /\ restored' = restored /\ stored' = stored /\ index' = index
  BY DEF Edit, tables, SearchInv, BuildInv, TypeInv, TypeOK
<1>2. latest \in Int /\ \A g \in Generations : index[g].seq \in Int
  BY DEF SearchInv, BuildInv, TypeInv, TypeOK, Generation
<1>3. Caught'
  BY <1>1 DEF SearchInv, Caught, Binned
<1>4. \A g \in Generations : index[g].status # "absent" =>
        index'[g].seq <= latest' /\ index'[g].seq # latest'
  BY <1>1, <1>2 DEF SearchInv, DrainedIsExact
<1>5. DrainedIsExact'
  BY <1>1, <1>4 DEF DrainedIsExact
<1> QED
  BY <1>3, <1>5

\* Moving a Work to the recycle bin and back moves no unit and no pin, and its
\* sources are remembered.
LEMMA TrashExact ==
  ASSUME SearchInv, NEW s \in Sources, TrashWork(s) \/ RestoreWork(s)
  PROVE  Caught' /\ DrainedIsExact'
<1>1. /\ canonical' = canonical /\ latest' = latest /\ todo' = todo
      /\ stored' = stored /\ index' = index /\ entry' = entry
      /\ \A r \in Sources : Binned(r) => Binned(r)'
  BY DEF TrashWork, RestoreWork, Binned, tables
<1>2. Caught'
  BY <1>1 DEF SearchInv, Caught
<1>3. ASSUME NEW g \in Generations, NEW r \in Sources, PinnedExactly(g, r)
      PROVE  PinnedExactly(g, r)'
  BY <1>1, <1>3 DEF PinnedExactly
<1>4. DrainedIsExact'
  BY <1>1, <1>3 DEF SearchInv, DrainedIsExact
<1> QED
  BY <1>2, <1>4

\* The pipeline brings a source to what it says, while a change was waiting.
LEMMA ExtractExact ==
  ASSUME SearchInv, NEW s \in Sources, Extract(s)
  PROVE  Caught' /\ DrainedIsExact'
<1>1. /\ canonical' = canonical /\ latest' = latest /\ trashed' = trashed /\ index' = index
      /\ s \in todo /\ todo' = todo \ {s}
      /\ stored' = [stored EXCEPT ![s] = IF Visible(s) THEN canonical[s] ELSE NoContent]
      /\ restored' = IF Visible(s) THEN restored \ {s} ELSE restored
      /\ stored \in [Sources -> Versions]
  BY DEF Extract, SearchInv, BuildInv, TypeInv, TypeOK
<1>2. ASSUME NEW r \in Sources \ todo'
      PROVE  /\ stored'[r] \in {canonical'[r], NoContent}
             /\ ~Binned(r)' => stored'[r] = canonical'[r]
  <2>1. CASE r = s
    BY <1>1, <2>1 DEF Visible, Binned
  <2>2. CASE r # s
    <3>1. /\ stored'[r] = stored[r] /\ r \in Sources \ todo
          /\ Binned(r) => Binned(r)'
      BY <1>1, <2>2 DEF Binned
    <3> QED
      BY <1>1, <3>1 DEF SearchInv, Caught
  <2> QED
    BY <2>1, <2>2
<1>3. Caught'
  BY <1>2 DEF Caught
<1>4. DrainedIsExact'
  BY <1>1 DEF SearchInv, DrainedIsExact
<1> QED
  BY <1>3, <1>4

\* A build that begins when nothing is waiting pins what the sources say.
LEMMA EnqueueExact ==
  ASSUME SearchInv, NEW g \in Generations, EnqueueBuild(g)
  PROVE  Caught' /\ DrainedIsExact'
<1>1. /\ index \in [Generations -> Generation] /\ latest \in Int
      /\ entry \in [Generations -> [Sources -> {"none", "pending", "ready", "retired"}]]
  BY DEF SearchInv, BuildInv, TypeInv, TypeOK
<1> DEFINE pinned == [s \in Sources |-> IF Visible(s) THEN stored[s] ELSE NoContent]
<1> DEFINE row == [status |-> "building", seq |-> latest, pinned |-> pinned, drained |-> todo = {}]
<1> DEFINE pending == [s \in Sources |-> IF pinned[s] = NoContent THEN "none" ELSE "pending"]
<1>2. /\ index' = [index EXCEPT ![g] = row] /\ entry' = [entry EXCEPT ![g] = pending]
      /\ canonical' = canonical /\ latest' = latest /\ todo' = todo /\ stored' = stored
      /\ \A s \in Sources : Binned(s)' <=> Binned(s)
  BY DEF EnqueueBuild, Binned, library
<1>3. /\ row.seq = latest /\ (row.drained => todo = {})
      /\ \A s \in Sources : pending[s] # "retired"
  OBVIOUS
<1>4. ASSUME todo = {}, NEW s \in Sources
      PROVE  /\ row.pinned[s] \in {canonical[s], NoContent}
             /\ ~Binned(s) => row.pinned[s] = canonical[s]
  <2>1. /\ stored[s] \in {canonical[s], NoContent}
        /\ ~Binned(s) => stored[s] = canonical[s]
    BY <1>4 DEF SearchInv, Caught
  <2>2. row.pinned[s] = IF Visible(s) THEN stored[s] ELSE NoContent
    OBVIOUS
  <2> HIDE DEF row
  <2> QED
    BY <2>1, <2>2 DEF Visible, Binned
<1> HIDE DEF row, pending
<1>5. Caught'
  BY <1>2 DEF SearchInv, Caught
<1>6. ASSUME NEW h \in Generations, index'[h].status # "absent"
      PROVE  /\ index'[h].seq <= latest'
             /\ index'[h].drained /\ index'[h].seq = latest' =>
                  todo' = {} /\ \A s \in Sources : PinnedExactly(h, s)'
  <2>1. CASE h = g
    <3>1. index'[h] = row /\ entry'[h] = pending
      BY <1>1, <1>2, <2>1
    <3>2. ASSUME todo = {}, NEW s \in Sources
          PROVE  PinnedExactly(h, s)'
      <4>1. /\ index'[h].pinned[s] \in {canonical[s], NoContent}
            /\ ~Binned(s) => index'[h].pinned[s] = canonical[s]
            /\ entry'[h][s] # "retired"
        BY <1>3, <1>4, <3>1, <3>2
      <4> QED
        BY <1>2, <4>1 DEF PinnedExactly
    <3> QED
      BY <1>1, <1>2, <1>3, <3>1, <3>2
  <2>2. CASE h # g
    <3>1. index'[h] = index[h] /\ entry'[h] = entry[h]
      BY <1>1, <1>2, <2>2
    <3>2. \A s \in Sources : PinnedExactly(h, s) => PinnedExactly(h, s)'
      BY <1>2, <3>1 DEF PinnedExactly
    <3> QED
      BY <1>2, <1>6, <3>1, <3>2 DEF SearchInv, DrainedIsExact
  <2> QED
    BY <2>1, <2>2
<1>7. DrainedIsExact'
  BY <1>6 DEF DrainedIsExact
<1> QED
  BY <1>5, <1>7

\* A new status leaves the rest of a generation's row alone.
LEMMA NewStatus ==
  ASSUME NEW row \in Generation, NEW status
  PROVE  LET new == [row EXCEPT !.status = status]
         IN  /\ new.pinned = row.pinned /\ new.seq = row.seq /\ new.drained = row.drained
             /\ new.status = status
BY DEF Generation

\* materialize() retires no entry and moves no pin.
LEMMA WorkExact ==
  ASSUME SearchInv,
         NEW w \in Workers, Persist(w) \/ Activate(w) \/ Invalidate(w) \/ Discard(w)
  PROVE  Caught' /\ DrainedIsExact'
<1>1. /\ index \in [Generations -> Generation]
      /\ entry \in [Generations -> [Sources -> {"none", "pending", "ready", "retired"}]]
      /\ worker[w].gen \in Generations
  BY BusyWorker
  DEF Persist, Activate, Invalidate, Discard, Fenced, SearchInv, BuildInv, TypeInv, TypeOK
<1>2. /\ canonical' = canonical /\ latest' = latest /\ todo' = todo /\ stored' = stored
      /\ \A s \in Sources : Binned(s)' <=> Binned(s)
  BY DEF Persist, Activate, Invalidate, Discard, Binned, library
<1>3. Caught'
  BY <1>2 DEF SearchInv, Caught
<1>4. \A g \in Generations :
        /\ index'[g].pinned = index[g].pinned /\ index'[g].seq = index[g].seq
        /\ index'[g].drained = index[g].drained
        /\ index'[g].status # "absent" => index[g].status # "absent"
  <2> SUFFICES ASSUME NEW g \in Generations
               PROVE  /\ index'[g].pinned = index[g].pinned /\ index'[g].seq = index[g].seq
                      /\ index'[g].drained = index[g].drained
                      /\ index'[g].status # "absent" => index[g].status # "absent"
    OBVIOUS
  <2>1. index[g] \in Generation
    BY <1>1
  <2>2. ASSUME NEW status, index'[g] = [index[g] EXCEPT !.status = status],
               index[g].status # "absent" \/ status = index[g].status
        PROVE  /\ index'[g].pinned = index[g].pinned /\ index'[g].seq = index[g].seq
               /\ index'[g].drained = index[g].drained
               /\ index'[g].status # "absent" => index[g].status # "absent"
    BY <2>1, <2>2, NewStatus
  <2>3. CASE Activate(w)
    <3>1. \/ index'[g] = index[g]
          \/ index'[g] = [index[g] EXCEPT !.status = "retired"] /\ index[g].status = "active"
          \/ index'[g] = [index[g] EXCEPT !.status = "active"] /\ index[g].status = "building"
      BY <2>3 DEF Activate
    <3> QED
      BY <2>2, <3>1
  <2>4. CASE Invalidate(w)
    <3>1. \/ index'[g] = [index[g] EXCEPT !.status = index[g].status]
          \/ index'[g] = index[g]
          \/ index'[g] = [index[g] EXCEPT !.status = "failed"] /\ index[g].status = "building"
      BY <1>1, <2>4 DEF Invalidate
    <3> QED
      BY <2>2, <3>1
  <2> QED
    BY <2>3, <2>4 DEF Persist, Discard
<1>5. \A g \in Generations, s \in Sources :
        entry[g][s] # "retired" => entry'[g][s] # "retired"
  <2>1. CASE entry' = entry
    BY <2>1
  <2>2. CASE WriteVectors(worker[w].gen, worker[w].batch)
    BY <1>1, <2>2 DEF WriteVectors
  <2> QED
    BY <2>1, <2>2 DEF Persist, Activate, Invalidate, Discard
<1>6. \A g \in Generations, s \in Sources : PinnedExactly(g, s) => PinnedExactly(g, s)'
  BY <1>2, <1>4, <1>5 DEF PinnedExactly
<1>7. DrainedIsExact'
  BY <1>2, <1>4, <1>6 DEF SearchInv, DrainedIsExact
<1> QED
  BY <1>3, <1>7

\* Every source starts with the unit of its content.
LEMMA InitExact == Init => SearchInv
<1> SUFFICES ASSUME Init
             PROVE  SearchInv
  OBVIOUS
<1>1. \A g \in Generations : index[g].status = "absent"
  BY DEF Init
<1>2. Caught
  BY DEF Init, Caught
<1> QED
  BY <1>1, <1>2, InitBuilt DEF SearchInv, DrainedIsExact

\* Every step keeps a drained, current generation exact.
LEMMA ExactStep == SearchInv /\ [Next]_vars => SearchInv'
<1> SUFFICES ASSUME SearchInv, [Next]_vars
             PROVE  SearchInv'
  OBVIOUS
<1>1. BuildInv'
  BY BuiltStep DEF SearchInv
<1>2. CASE UNCHANGED <<library, tables>>
  BY <1>1, <1>2 DEF SearchInv, library, tables, Binned, Caught, PinnedExactly, DrainedIsExact
<1>3. Caught' /\ DrainedIsExact'
  BY <1>2, EditExact, TrashExact, ExtractExact, EnqueueExact, WorkExact
  DEF SearchInv, Next, AbandonedLeaseExpires, HeldLeaseExpires, ClaimNext, Materialize, Inspect,
      ListPending, Embed, CompleteJob, FailJob, Finish, LeaseLost, ProviderFails, Crash, vars
<1> QED
  BY <1>1, <1>3 DEF SearchInv

\* SearchIsExact: the generation that getActiveCurrent() selects, when it was
\* begun with nothing waiting, finds what the Library shows as it is; it may miss
\* a source only if its Work came back from the recycle bin, unpinned.
THEOREM SearchesAreExact == Spec => []SearchIsExact
<1>1. SearchInv => SearchIsExact
  <2> SUFFICES ASSUME SearchInv, NEW g \in Generations, index[g].status = "active",
                      index[g].seq = latest, index[g].drained, NEW s \in Sources
               PROVE  /\ s \in Hits(g) => Visible(s) /\ index[g].pinned[s] = canonical[s]
                      /\ Visible(s) => s \in Hits(g) \/ (s \in restored /\ s \notin Pinned(g))
    BY DEF SearchIsExact
  <2>1. PinnedExactly(g, s)
    BY DEF SearchInv, DrainedIsExact
  <2>2. s \in Pinned(g) =>
          /\ entry[g][s] = "ready" /\ s \in vectors[g] /\ stored[s] = index[g].pinned[s]
          /\ index[g].pinned[s] = canonical[s]
    BY <2>1 DEF SearchInv, BuildInv, ActiveIsBuilt, ReadyIsStored, Pinned, PinnedExactly
  <2>3. s \in Hits(g) => Visible(s) /\ s \in Pinned(g)
    BY DEF Hits, Matches, Pinned
  <2>4. CASE s \in Pinned(g)
    BY <2>2, <2>3, <2>4 DEF Hits, Matches, Visible
  <2>5. CASE s \notin Pinned(g)
    BY <2>1, <2>3, <2>5 DEF PinnedExactly, Pinned, Visible, Binned
  <2> QED
    BY <2>4, <2>5
<1> QED
  BY InitExact, ExactStep, <1>1, PTL DEF Spec

=============================================================================
