-------------------------- MODULE SemanticGenerations --------------------------
(***************************************************************************)
(* Generations of the local semantic index (local-semantic-index-service,  *)
(* knowledge-indexes, sqlite-vec-index): a build pins the stored units in  *)
(* one transaction, an embed job embeds them batch by batch outside any    *)
(* transaction and writes their vectors under its lease, and one           *)
(* transaction makes the complete generation the one that searches use.    *)
(*                                                                         *)
(* The pipeline that stores units is KnowledgeQueue's; here Extract stands *)
(* for it.  A source has one unit, named by its content.  The claim of an  *)
(* embed job and its start are one step, a retry is due at once, and the   *)
(* active Library never changes.                                           *)
(***************************************************************************)
EXTENDS Integers, FiniteSets

CONSTANTS
  Sources,         \* the sources of the Library
  Contents,        \* what a source may say
  NoContent,       \* the source, or its unit, does not exist
  InitialContent,  \* what the sources say when the first build may be requested
  Trashable,       \* sources whose Work may be moved to the recycle bin
  Workers,         \* worker processes
  NoOwner,         \* lease_owner IS NULL
  BatchSize,       \* EMBED_BATCH_SIZE
  MaxAttempts,     \* max_attempts of an embed job
  MaxGenerations,  \* bound: builds requested
  MaxEdits,        \* bound: canonical edits and moves to the recycle bin
  MaxFaults        \* bound: crashes, missed heartbeats and failed embeddings

ASSUME GenerationAssumption ==
  /\ IsFiniteSet(Sources)
  /\ NoContent \notin Contents
  /\ InitialContent \in [Sources -> Contents \cup {NoContent}]
  /\ Trashable \subseteq Sources
  /\ NoOwner \notin Workers
  /\ BatchSize \in Nat \ {0}
  /\ MaxAttempts \in Nat \ {0}
  /\ MaxGenerations \in Nat
  /\ MaxEdits \in Nat
  /\ MaxFaults \in Nat

VARIABLES
  canonical,  \* what the canonical source says
  trashed,    \* sources whose Work is in the recycle bin
  restored,   \* history: sources whose Work came back, with no job since
  latest,     \* MAX(seq) of knowledge_changes
  todo,       \* sources with a change no job has executed
  stored,     \* the live, ready ContentUnit of a source
  index,      \* knowledge_indexes: status, source_change_seq, and what begin() pinned
  entry,      \* knowledge_index_entries: the status of a source's entry
  vectors,    \* the rows of a generation in the vec0 table
  job,        \* the embed job of a generation
  worker,     \* a worker's place in materialize() and what it remembers there
  edits,      \* edits so far
  faults      \* faults so far

library == <<canonical, trashed, restored, latest, todo, edits>>
tables == <<stored, index, entry, vectors>>
vars == <<library, tables, job, worker, faults>>

-----------------------------------------------------------------------------
Generations == 1 .. MaxGenerations
Versions == Contents \cup {NoContent}

\* drained is history: no change was waiting for its job when the units were pinned.
Generation ==
  [status : {"absent", "building", "active", "retired", "failed"},
   seq : 0 .. MaxEdits,
   pinned : [Sources -> Versions],
   drained : BOOLEAN]

Job ==
  [status : {"absent", "queued", "running", "retry-wait", "completed", "terminal-failed"},
   attempts : 0 .. MaxAttempts,
   owner : Workers \cup {NoOwner},
   live : BOOLEAN]     \* lease_expires_at > now

NoJob == [status |-> "absent", attempts |-> 0, owner |-> NoOwner, live |-> FALSE]

Steps == {"idle", "inspect", "list", "embed", "persist", "activate",
          "invalidate", "discard", "complete", "fail"}

\* then is what the worker does once a generation is failed and discarded.
Worker ==
  [step : Steps, gen : 0 .. MaxGenerations, epoch : 0 .. MaxAttempts,
   batch : SUBSET Sources, then : {"complete", "fail"}]

Idle == [step |-> "idle", gen |-> 0, epoch |-> 0, batch |-> {}, then |-> "complete"]

\* contentUnitCanonicalVisibilitySql
Visible(s) == canonical[s] # NoContent /\ s \notin trashed

\* An entry that still pins the live, visible unit it was made for.
Matches(g, s) == stored[s] # NoContent /\ stored[s] = index[g].pinned[s] /\ Visible(s)

Init ==
  /\ canonical = InitialContent
  /\ stored = InitialContent
  /\ trashed = {}
  /\ restored = {}
  /\ latest = 0
  /\ todo = {}
  /\ index = [g \in Generations |->
       [status |-> "absent", seq |-> 0, pinned |-> [s \in Sources |-> NoContent],
        drained |-> FALSE]]
  /\ entry = [g \in Generations |-> [s \in Sources |-> "none"]]
  /\ vectors = [g \in Generations |-> {}]
  /\ job = [g \in Generations |-> NoJob]
  /\ worker = [w \in Workers |-> Idle]
  /\ edits = 0
  /\ faults = 0

-----------------------------------------------------------------------------
(* The Library.                                                            *)

\* Mutant: the mutation commits without its outbox row.
EditUnlogged(s, c) ==
  /\ edits < MaxEdits
  /\ s \notin trashed
  /\ c # canonical[s]
  /\ canonical' = [canonical EXCEPT ![s] = c]
  /\ edits' = edits + 1
  /\ UNCHANGED <<trashed, restored, latest, todo, tables, job, worker, faults>>

\* A source is created, rewritten, deleted or restored, with its outbox row.
Edit(s, c) ==
  /\ edits < MaxEdits
  /\ s \notin trashed
  /\ c # canonical[s]
  /\ canonical' = [canonical EXCEPT ![s] = c]
  /\ latest' = latest + 1
  /\ todo' = todo \cup {s}
  /\ edits' = edits + 1
  /\ UNCHANGED <<trashed, restored, tables, job, worker, faults>>

\* A Work that is moved to the recycle bin, or back, appends no outbox row.
TrashWork(s) ==
  /\ edits < MaxEdits
  /\ s \in Trashable \ trashed
  /\ trashed' = trashed \cup {s}
  /\ edits' = edits + 1
  /\ UNCHANGED <<canonical, restored, latest, todo, tables, job, worker, faults>>

RestoreWork(s) ==
  /\ s \in trashed
  /\ trashed' = trashed \ {s}
  /\ restored' = restored \cup {s}
  /\ UNCHANGED <<canonical, latest, todo, edits, tables, job, worker, faults>>

\* The retire trigger: entries of a unit that is deleted are retired for good.
RetireEntries(s) ==
  entry' = [g \in Generations |->
    IF entry[g][s] # "none" /\ index[g].pinned[s] = stored[s]
    THEN [entry[g] EXCEPT ![s] = "retired"]
    ELSE entry[g]]

\* replaceForSource or retireSource, in the job of the source's newest change.
Extract(s) ==
  LET wanted == IF Visible(s) THEN canonical[s] ELSE NoContent IN
  /\ s \in todo
  /\ todo' = todo \ {s}
  /\ stored' = [stored EXCEPT ![s] = wanted]
  /\ restored' = IF Visible(s) THEN restored \ {s} ELSE restored
  /\ IF stored[s] \in {NoContent, wanted} THEN UNCHANGED entry ELSE RetireEntries(s)
  /\ UNCHANGED <<canonical, trashed, latest, edits, index, vectors, job, worker, faults>>

-----------------------------------------------------------------------------
(* enqueueBuild: begin() and the job, in one transaction.                  *)

EnqueueBuild(g) ==
  LET pinned == [s \in Sources |-> IF Visible(s) THEN stored[s] ELSE NoContent] IN
  /\ index[g].status = "absent"
  /\ \A h \in Generations : h < g => index[h].status # "absent"
  /\ index' = [index EXCEPT ![g] = [status |-> "building", seq |-> latest,
                                    pinned |-> pinned, drained |-> todo = {}]]
  /\ entry' = [entry EXCEPT ![g] =
       [s \in Sources |-> IF pinned[s] = NoContent THEN "none" ELSE "pending"]]
  /\ job' = [job EXCEPT ![g] = [NoJob EXCEPT !.status = "queued"]]
  /\ UNCHANGED <<library, stored, vectors, worker, faults>>

-----------------------------------------------------------------------------
(* The queue, as far as an embed job goes through it.                      *)

Released(row, status) ==
  [row EXCEPT !.status = status, !.owner = NoOwner, !.live = FALSE]

\* Mutant: the last attempt is allowed one more retry.
RetryOffByOne(row) ==
  IF row.attempts > MaxAttempts THEN "terminal-failed" ELSE "retry-wait"

RetryOrGiveUp(row) == IF row.attempts >= MaxAttempts THEN "terminal-failed" ELSE "retry-wait"

Recovered(row) ==
  IF row.status = "running" /\ ~row.live THEN Released(row, RetryOrGiveUp(row)) ELSE row

\* claimNext, after it recovered the expired leases, and start.
ClaimNext(w) ==
  LET rec == [g \in Generations |-> Recovered(job[g])]
      eligible == {g \in Generations : rec[g].status \in {"queued", "retry-wait"}}
  IN
  /\ worker[w].step = "idle"
  /\ \/ /\ eligible = {}
        /\ rec # job
        /\ job' = rec
        /\ UNCHANGED worker
     \/ \E g \in eligible :
          /\ job' = [rec EXCEPT ![g] = [status |-> "running", attempts |-> @.attempts + 1,
                                        owner |-> w, live |-> TRUE]]
          /\ worker' = [worker EXCEPT ![w] =
               [Idle EXCEPT !.step = "inspect", !.gen = g, !.epoch = rec[g].attempts + 1]]
  /\ UNCHANGED <<library, tables, faults>>

\* Mutant: any live claim of the job passes for the worker's own.
LeaseOkByStatus(w) == job[worker[w].gen].status = "running" /\ job[worker[w].gen].live

\* assertKnowledgeJobLease: id, owner, attempts and a live lease.
LeaseOk(w) ==
  /\ worker[w].step # "idle"
  /\ LET row == job[worker[w].gen]
     IN  row.status = "running" /\ row.live /\ row.owner = w /\ row.attempts = worker[w].epoch

\* The next transaction, or the heartbeat, finds the claim gone.
LeaseLost(w) ==
  /\ worker[w].step # "idle"
  /\ ~LeaseOk(w)
  /\ worker' = [worker EXCEPT ![w] = Idle]
  /\ UNCHANGED <<library, tables, job, faults>>

-----------------------------------------------------------------------------
(* materialize().                                                          *)

GoTo(w, step) == worker' = [worker EXCEPT ![w].step = step]

\* failAndDiscard, and then the job's end.
Invalidating(w, end) == worker' = [worker EXCEPT ![w].step = "invalidate", ![w].then = end]

\* Mutant: the last attempt fails like any other.
RaiseOnly(w) == GoTo(w, "fail")

\* An error: on the final attempt the generation is failed with the job.
Raise(w) ==
  IF worker[w].epoch >= MaxAttempts THEN Invalidating(w, "fail") ELSE GoTo(w, "fail")

\* assertKnowledgeIndexSnapshot
Current(g) == index[g].seq = latest

\* A transaction of materialize() on a generation that is still wanted.
Fenced(w, step) == worker[w].step = step /\ LeaseOk(w)

Stale(w) == ~Current(worker[w].gen) /\ Invalidating(w, "complete")

Inspect(w) ==
  /\ Fenced(w, "inspect")
  /\ IF index[worker[w].gen].status # "building" THEN GoTo(w, "complete")
     ELSE IF Current(worker[w].gen) THEN GoTo(w, "list") ELSE Stale(w)
  /\ UNCHANGED <<library, tables, job, faults>>

\* listPendingVectorEntries
Pending(g) == {s \in Sources : entry[g][s] = "pending" /\ Matches(g, s)}

Batches(g) ==
  {b \in SUBSET Pending(g) :
     IF Cardinality(Pending(g)) <= BatchSize THEN b = Pending(g) ELSE Cardinality(b) = BatchSize}

ListPending(w) ==
  LET g == worker[w].gen IN
  /\ Fenced(w, "list")
  /\ \/ Stale(w)
     \/ /\ Current(g)
        /\ Pending(g) = {}
        /\ GoTo(w, "activate")
     \/ /\ Current(g)
        /\ \E b \in Batches(g) \ {{}} :
             worker' = [worker EXCEPT ![w].step = "embed", ![w].batch = b]
  /\ UNCHANGED <<library, tables, job, faults>>

\* embedDocuments: no lease is looked at while the model runs.
Embed(w) ==
  /\ worker[w].step = "embed"
  /\ GoTo(w, "persist")
  /\ UNCHANGED <<library, tables, job, faults>>

\* The provider cannot be loaded, is another one, or fails to embed.
ProviderFails(w) ==
  /\ worker[w].step \in {"list", "embed"}
  /\ faults < MaxFaults
  /\ faults' = faults + 1
  /\ Raise(w)
  /\ UNCHANGED <<library, tables, job>>

\* The vectors and their entries, or nothing.
WriteVectors(g, batch) ==
  /\ vectors' = [vectors EXCEPT ![g] = @ \cup batch]
  /\ entry' = [entry EXCEPT ![g] = [s \in Sources |-> IF s \in batch THEN "ready" ELSE @[s]]]

Persist(w) ==
  LET g == worker[w].gen IN
  /\ Fenced(w, "persist")
  /\ \/ Stale(w) /\ UNCHANGED <<entry, vectors>>
     \/ /\ Current(g)
        /\ ~(worker[w].batch \subseteq Pending(g))
        /\ Raise(w)
        /\ UNCHANGED <<entry, vectors>>
     \/ /\ Current(g)
        /\ index[g].status = "building"
        /\ worker[w].batch \subseteq Pending(g)
        /\ WriteVectors(g, worker[w].batch)
        /\ worker' = [worker EXCEPT ![w].step = "list", ![w].batch = {}]
  /\ UNCHANGED <<library, stored, index, job, faults>>

Pinned(g) == {s \in Sources : index[g].pinned[s] # NoContent}

\* Mutant: activation is content with the entries that are left.
CompleteSoFar(g) == \A s \in Sources : entry[g][s] # "pending" \/ ~Matches(g, s)

\* activate(): every pinned entry is ready and still matches its unit.
Complete(g) == \A s \in Pinned(g) : entry[g][s] = "ready" /\ Matches(g, s)

Activate(w) ==
  LET g == worker[w].gen IN
  /\ Fenced(w, "activate")
  /\ \/ Stale(w) /\ UNCHANGED index
     \/ Current(g) /\ ~Complete(g) /\ Raise(w) /\ UNCHANGED index
     \/ /\ Current(g)
        /\ index[g].status = "building"
        /\ Complete(g)
        /\ index' = [h \in Generations |->
             IF h = g THEN [index[h] EXCEPT !.status = "active"]
             ELSE IF index[h].status = "active" THEN [index[h] EXCEPT !.status = "retired"]
             ELSE index[h]]
        /\ GoTo(w, "complete")
  /\ UNCHANGED <<library, stored, entry, vectors, job, faults>>

\* failIndex: without effect on a generation that is not building.
Invalidate(w) ==
  LET g == worker[w].gen IN
  /\ Fenced(w, "invalidate")
  /\ index' = [index EXCEPT ![g].status = IF @ = "building" THEN "failed" ELSE @]
  /\ GoTo(w, "discard")
  /\ UNCHANGED <<library, stored, entry, vectors, job, faults>>

\* discardPhysicalRows: only of a failed or retired generation; errors are swallowed.
Discard(w) ==
  LET g == worker[w].gen IN
  /\ Fenced(w, "discard")
  /\ vectors' = [vectors EXCEPT ![g] = IF index[g].status \in {"failed", "retired"} THEN {} ELSE @]
  /\ GoTo(w, worker[w].then)
  /\ UNCHANGED <<library, stored, index, entry, job, faults>>

Finish(w, status) ==
  /\ job' = [job EXCEPT ![worker[w].gen] = Released(@, status)]
  /\ worker' = [worker EXCEPT ![w] = Idle]
  /\ UNCHANGED <<library, tables, faults>>

CompleteJob(w) == Fenced(w, "complete") /\ Finish(w, "completed")

FailJob(w) == Fenced(w, "fail") /\ Finish(w, RetryOrGiveUp(job[worker[w].gen]))

-----------------------------------------------------------------------------
(* Crashes and leases that run out.                                        *)

Crash(w) ==
  /\ worker[w].step # "idle"
  /\ faults < MaxFaults
  /\ faults' = faults + 1
  /\ worker' = [worker EXCEPT ![w] = Idle]
  /\ UNCHANGED <<library, tables, job>>

Held(g) == \E w \in Workers : worker[w].gen = g /\ LeaseOk(w)

Expire(g) == job' = [job EXCEPT ![g].live = FALSE]

\* The lease of a process that is gone.
AbandonedLeaseExpires(g) ==
  /\ job[g].live
  /\ ~Held(g)
  /\ Expire(g)
  /\ UNCHANGED <<library, tables, worker, faults>>

\* The worker is alive but its heartbeats did not come through in time.
HeldLeaseExpires(g) ==
  /\ Held(g)
  /\ faults < MaxFaults
  /\ faults' = faults + 1
  /\ Expire(g)
  /\ UNCHANGED <<library, tables, worker>>

-----------------------------------------------------------------------------
Materialize(w) ==
  \/ Inspect(w) \/ ListPending(w) \/ Embed(w) \/ Persist(w) \/ Activate(w)
  \/ Invalidate(w) \/ Discard(w) \/ CompleteJob(w) \/ FailJob(w) \/ LeaseLost(w)

Next ==
  \/ \E s \in Sources : \E c \in Versions : Edit(s, c)
  \/ \E s \in Sources : TrashWork(s) \/ RestoreWork(s) \/ Extract(s)
  \/ \E g \in Generations :
       EnqueueBuild(g) \/ AbandonedLeaseExpires(g) \/ HeldLeaseExpires(g)
  \/ \E w \in Workers : ClaimNext(w) \/ Materialize(w) \/ ProviderFails(w) \/ Crash(w)

Spec == Init /\ [][Next]_vars

\* The dispatcher's timer runs pass after pass, and a dead process renews no lease.
Fairness ==
  /\ \A w \in Workers : WF_vars(ClaimNext(w) \/ Materialize(w))
  /\ WF_vars(\E g \in Generations : AbandonedLeaseExpires(g))

FairSpec == Spec /\ Fairness

-----------------------------------------------------------------------------
(* Properties.                                                             *)

\* Every variable stays in its domain, and a worker in materialize() has a job.
TypeOK ==
  /\ canonical \in [Sources -> Versions]
  /\ trashed \subseteq Sources
  /\ restored \subseteq Sources
  /\ latest \in 0 .. edits
  /\ todo \subseteq Sources
  /\ stored \in [Sources -> Versions]
  /\ index \in [Generations -> Generation]
  /\ entry \in [Generations -> [Sources -> {"none", "pending", "ready", "retired"}]]
  /\ vectors \in [Generations -> SUBSET Sources]
  /\ job \in [Generations -> Job]
  /\ worker \in [Workers -> Worker]
  /\ \A w \in Workers : worker[w].step # "idle" => worker[w].gen \in Generations
  /\ edits \in 0 .. MaxEdits
  /\ faults \in 0 .. MaxFaults

\* What a search of the generation can return: a physical row whose entry is
\* ready and whose unit is live, visible and the one that was pinned.
Hits(g) == {s \in vectors[g] : entry[g][s] = "ready" /\ Matches(g, s)}

\* Searches use at most one generation.  Nothing of it was left out when it was
\* activated, whatever workers died on the way: every ready entry has its vector
\* and the unit it pinned, and one that is not ready was retired with its unit.
ActiveIsComplete ==
  \A g \in Generations :
    index[g].status = "active" =>
      /\ \A h \in Generations : index[h].status = "active" => h = g
      /\ \A s \in Pinned(g) :
           \/ entry[g][s] = "ready" /\ s \in vectors[g] /\ stored[s] = index[g].pinned[s]
           \/ entry[g][s] = "retired"

\* A generation that was begun when every change had been executed finds, for
\* as long as getActiveCurrent() selects it, only sources the Library shows, with
\* what they say, and all of these but one kind: restoring a Work from the recycle
\* bin appends no outbox row, so a source of it that the generation did not pin,
\* because it was begun, or the units were retired, while the Work was in the bin,
\* stays out of it although the generation passes for current.
SearchIsExact ==
  \A g \in Generations :
    index[g].status = "active" /\ index[g].seq = latest /\ index[g].drained =>
      \A s \in Sources :
        /\ s \in Hits(g) => Visible(s) /\ index[g].pinned[s] = canonical[s]
        /\ Visible(s) => s \in Hits(g) \/ (s \in restored /\ s \notin Pinned(g))

BecomesActive(g) == index[g].status # "active" /\ index'[g].status = "active"

\* A worker that takes this step still holds the latest claim of the build of g,
\* and the Library has not changed since its units were pinned.
FencedStep(g) ==
  /\ index[g].status = "building"
  /\ index[g].seq = latest
  /\ \E w \in Workers :
       /\ worker'[w] # worker[w]
       /\ worker[w].gen = g
       /\ job[g].status = "running" /\ job[g].live
       /\ job[g].owner = w /\ job[g].attempts = worker[w].epoch

\* Vectors are added and a generation is activated only under the latest claim
\* of its build: a worker whose lease ran out while the model was embedding
\* writes nothing.  Vectors are removed only from a generation no search uses,
\* and the one searches use is replaced by another in one step or not at all.
BuildsAreFenced ==
  [][\A g \in Generations :
       /\ ~(vectors'[g] \subseteq vectors[g]) \/ BecomesActive(g) => FencedStep(g)
       /\ ~(vectors[g] \subseteq vectors'[g]) => index[g].status \in {"failed", "retired"}
       /\ index[g].status = "active" /\ index'[g].status # "active" =>
            \E h \in Generations : BecomesActive(h)]_vars

\* Unless a process dies or a heartbeat or an embedding fails, every build ends:
\* in a generation that searches use, or in one that is marked as failed.
BuildsEnd ==
  \A g \in Generations :
    index[g].status = "building" ~> index[g].status # "building" \/ faults > 0

=============================================================================
