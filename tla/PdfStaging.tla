------------------------------ MODULE PdfStaging ------------------------------
(***************************************************************************)
(* The main process's registry of staged PDFs                              *)
(* (library-pdf-staging.ts), its durable journal of content hashes, the    *)
(* collector of unreferenced blobs, the import that claims a receipt and   *)
(* the database coordinator whose transactions the import and the          *)
(* collector take turns in.                                                *)
(*                                                                         *)
(* A step is what runs between two awaits.  A journal operation and the    *)
(* continuation of the call that awaits it are one step.  Several calls of *)
(* stage() with the same bytes have the same hash: ShaOf.  Every PDF has   *)
(* the same size, so the byte quota and the receipt limit are one limit.   *)
(***************************************************************************)
EXTENDS Integers, Sequences, FiniteSets

CONSTANTS
  Shas,            \* content hashes
  Stages,          \* calls of stage(); a call's name is free again when its receipt is gone
  ShaOf,           \* the hash of the bytes each call is given
  MaxReceipts,     \* MAX_PENDING_RECEIPTS
  MaxStagedCount,  \* MAX_STAGED_SHA_COUNT
  MaxFailures,     \* bound: failed writes, reads and transactions
  MaxCrashes       \* bound: process crashes

ASSUME StagingAssumption ==
  /\ IsFiniteSet(Stages)
  /\ ShaOf \in [Stages -> Shas]
  /\ MaxReceipts \in Nat \ {0}
  /\ MaxStagedCount \in Nat \ {0}
  /\ MaxFailures \in Nat
  /\ MaxCrashes \in Nat

VARIABLES
  app,         \* "down", "recovering" (before any handler is registered) or "ready"
  pc,          \* progress of each stage() call and of the receipt it returned
  reserved,    \* pendingStageReservations
  pins,        \* stagedShaPins
  staged,      \* durable: the journal's count of unsettled stages per hash
  orphaned,    \* durable: the journal's orphaned hashes
  requests,    \* the journal's serialized operations, oldest first
  candidates,  \* orphanCandidates
  recovered,   \* recoveryCandidates
  due,         \* hashes with a queued collection that has not looked at its guards
  gc,          \* the collection of a hash that is past its guards
  tx,          \* the database transaction that is open
  poisoned,    \* the coordinator's poisonedError
  files,       \* durable: canonical blobs on disk
  refs,        \* durable: hashes some attachment or revision row refers to
  erased,      \* history: hashes whose last row was purged
  failures,    \* failures so far
  crashes      \* crashes so far

registry == <<pc, reserved, pins>>
journal == <<staged, orphaned>>
collector == <<candidates, recovered, due, gc>>
database == <<tx, poisoned, refs, erased>>
bounds == <<failures, crashes>>
vars == <<app, registry, journal, requests, collector, database, files, bounds>>

-----------------------------------------------------------------------------
\* Reservations: the call has passed the capacity check and has no receipt yet.
Reserving == {"waiting", "recording", "writing"}
\* Entries of the receipt map.
Held == {"live", "retiring", "claimed", "ingesting", "committed"}

Entries == {s \in Stages : pc[s] \in Held}
StagesOf(h) == {s \in Stages : ShaOf[s] = h}
Journalled(h) == staged[h] > 0 \/ h \in orphaned

NoTx == [kind |-> "none"]
IngestTx(s) == [kind |-> "ingest", stage |-> s]
CollectTx(h, phase) == [kind |-> "collect", sha |-> h, phase |-> phase]
RowTx(kind, h) == [kind |-> kind, sha |-> h]
Transactions ==
  {NoTx}
    \cup {IngestTx(s) : s \in Stages}
    \cup {CollectTx(h, p) : h \in Shas, p \in {"open", "unlinking", "done"}}
    \cup {RowTx(k, h) : k \in {"pull", "purge"}, h \in Shas}

RecordOp(s) == [op |-> "record", stage |-> s]
OrphanOp(s) == [op |-> "orphan", stage |-> s]
CommitOp(s) == [op |-> "commit", stage |-> s]
ClearOp(h) == [op |-> "clear", sha |-> h]
Operations ==
  [op : {"record", "orphan", "commit"}, stage : Stages] \cup [op : {"clear"}, sha : Shas]

Request(r) == requests' = Append(requests, r)
Fail == failures < MaxFailures /\ failures' = failures + 1

Init ==
  /\ app = "ready"
  /\ pc = [s \in Stages |-> "idle"]
  /\ reserved = 0
  /\ pins = [h \in Shas |-> 0]
  /\ staged = [h \in Shas |-> 0]
  /\ orphaned = {}
  /\ requests = <<>>
  /\ candidates = {}
  /\ recovered = {}
  /\ due = {}
  /\ gc = [h \in Shas |-> "idle"]
  /\ tx = NoTx
  /\ poisoned = FALSE
  /\ files = {}
  /\ refs = {}
  /\ erased = {}
  /\ failures = 0
  /\ crashes = 0

-----------------------------------------------------------------------------
(* stage(): check and reserve, wait, journal, write, issue the receipt.    *)

\* Mutant: calls in flight are not counted.
HasCapacityForReceipts == Cardinality(Entries) < MaxReceipts

HasCapacity == Cardinality(Entries) + reserved < MaxReceipts

Stage(s) ==
  /\ app = "ready"
  /\ pc[s] = "idle"
  /\ HasCapacity
  /\ pc' = [pc EXCEPT ![s] = "waiting"]
  /\ reserved' = reserved + 1
  /\ pins' = [pins EXCEPT ![ShaOf[s]] = @ + 1]
  /\ UNCHANGED <<app, journal, requests, collector, database, files, bounds>>

\* Mutant: stage() does not wait for a collection that is already running.
NotAwaited(s) == TRUE

\* waitForPendingBlobCollection: a collection past its pin check must finish first.
CollectionSettled(s) == gc[ShaOf[s]] = "idle"

RecordStage(s) ==
  /\ pc[s] = "waiting"
  /\ CollectionSettled(s)
  /\ pc' = [pc EXCEPT ![s] = "recording"]
  /\ Request(RecordOp(s))
  /\ UNCHANGED <<app, reserved, pins, journal, collector, database, files, bounds>>

WriteBlob(s) ==
  /\ pc[s] = "writing"
  /\ files' = files \cup {ShaOf[s]}
  /\ pc' = [pc EXCEPT ![s] = "live"]
  /\ reserved' = reserved - 1
  /\ UNCHANGED <<app, pins, journal, requests, collector, database, bounds>>

\* The write may fail before or after the link that makes the file appear.
WriteFails(s) ==
  /\ pc[s] = "writing"
  /\ Fail
  /\ files' \in {files, files \cup {ShaOf[s]}}
  /\ pc' = [pc EXCEPT ![s] = "failing"]
  /\ reserved' = reserved - 1
  /\ Request(OrphanOp(s))
  /\ UNCHANGED <<app, pins, journal, collector, database, crashes>>

(* orphanEntry(): reached by expiry, release() and clear().                *)
Retire(s) ==
  /\ app = "ready"
  /\ pc[s] = "live"
  /\ pc' = [pc EXCEPT ![s] = "retiring"]
  /\ Request(OrphanOp(s))
  /\ UNCHANGED <<app, reserved, pins, journal, collector, database, files, bounds>>

-----------------------------------------------------------------------------
(* claim(), the re-verification and the import's transaction.              *)

Claim(s) ==
  /\ app = "ready"
  /\ pc[s] = "live"
  /\ pc' = [pc EXCEPT ![s] = "claimed"]
  /\ UNCHANGED <<app, reserved, pins, journal, requests, collector, database, files, bounds>>

VerifyClaim(s) ==
  /\ pc[s] = "claimed"
  /\ ShaOf[s] \in files
  /\ pc' = [pc EXCEPT ![s] = "ingesting"]
  /\ UNCHANGED <<app, reserved, pins, journal, requests, collector, database, files, bounds>>

ReleaseClaim(s) ==
  /\ pc[s] = "claimed"
  /\ IF ShaOf[s] \in files THEN Fail ELSE UNCHANGED failures
  /\ pc' = [pc EXCEPT ![s] = "live"]
  /\ UNCHANGED <<app, reserved, pins, journal, requests, collector, database, files, crashes>>

\* Mutant: consume() asks for no collection.
ConsumeOnly(s) ==
  /\ pc[s] = "committed"
  /\ pc' = [pc EXCEPT ![s] = "idle"]
  /\ pins' = [pins EXCEPT ![ShaOf[s]] = @ - 1]
  /\ Request(CommitOp(s))
  /\ UNCHANGED <<app, reserved, journal, collector, database, files, bounds>>

\* consume(): the journal's markCommitted is not awaited.
Consume(s) ==
  /\ pc[s] = "committed"
  /\ pc' = [pc EXCEPT ![s] = "idle"]
  /\ pins' = [pins EXCEPT ![ShaOf[s]] = @ - 1]
  /\ Request(CommitOp(s))
  /\ due' = due \cup candidates
  /\ UNCHANGED <<app, reserved, journal, candidates, recovered, gc, database, files, bounds>>

-----------------------------------------------------------------------------
(* The journal: one operation at a time, each an atomic file replacement.  *)

NextRequest == Head(requests)
Doing(op) == requests # <<>> /\ NextRequest.op = op /\ requests' = Tail(requests)

Decrement(s) ==
  /\ staged[ShaOf[s]] > 0
  /\ staged' = [staged EXCEPT ![ShaOf[s]] = @ - 1]

\* Mutant: the pin of a retired receipt is kept.
OrphanedPinned(s) ==
  /\ pc' = [pc EXCEPT ![s] = "idle"]
  /\ candidates' = candidates \cup {ShaOf[s]}
  /\ due' = due \cup candidates'
  /\ UNCHANGED pins

\* The continuation of a call whose receipt is gone and whose hash is now a candidate.
Orphaned(s) ==
  /\ pc' = [pc EXCEPT ![s] = "idle"]
  /\ pins' = [pins EXCEPT ![ShaOf[s]] = @ - 1]
  /\ candidates' = candidates \cup {ShaOf[s]}
  /\ due' = due \cup candidates'

JournalRecord ==
  /\ Doing("record")
  /\ LET s == NextRequest.stage
     IN  /\ staged[ShaOf[s]] < MaxStagedCount
         /\ staged' = [staged EXCEPT ![ShaOf[s]] = @ + 1]
         /\ pc' = [pc EXCEPT ![s] = "writing"]
  /\ UNCHANGED <<app, reserved, pins, orphaned, collector, database, files, bounds>>

\* Nothing was journalled: the pin goes, and no collection is asked for.
JournalRecordFails ==
  /\ Doing("record")
  /\ LET s == NextRequest.stage
     IN  /\ IF staged[ShaOf[s]] < MaxStagedCount THEN Fail ELSE UNCHANGED failures
         /\ pc' = [pc EXCEPT ![s] = "idle"]
         /\ reserved' = reserved - 1
         /\ pins' = [pins EXCEPT ![ShaOf[s]] = @ - 1]
  /\ UNCHANGED <<app, journal, collector, database, files, crashes>>

\* Mutant: the stage is settled in the journal, the orphan only remembered.
JournalOrphanInMemory ==
  /\ Doing("orphan")
  /\ LET s == NextRequest.stage
     IN  Decrement(s) /\ Orphaned(s)
  /\ UNCHANGED <<app, reserved, orphaned, recovered, gc, database, files, bounds>>

JournalOrphan ==
  /\ Doing("orphan")
  /\ LET s == NextRequest.stage
     IN  /\ Decrement(s)
         /\ orphaned' = orphaned \cup {ShaOf[s]}
         /\ Orphaned(s)
  /\ UNCHANGED <<app, reserved, recovered, gc, database, files, bounds>>

\* A receipt that could not be journalled as an orphan is kept; a failed stage
\* has no receipt to keep and only gives up its pin.
JournalOrphanFails ==
  /\ Doing("orphan")
  /\ LET s == NextRequest.stage
     IN  /\ IF staged[ShaOf[s]] > 0 THEN Fail ELSE UNCHANGED failures
         /\ \/ /\ pc[s] = "retiring"
               /\ pc' = [pc EXCEPT ![s] = "live"]
               /\ UNCHANGED pins
            \/ /\ pc[s] = "failing"
               /\ pc' = [pc EXCEPT ![s] = "idle"]
               /\ pins' = [pins EXCEPT ![ShaOf[s]] = @ - 1]
  /\ UNCHANGED <<app, reserved, journal, collector, database, files, crashes>>

JournalCommit ==
  /\ Doing("commit")
  /\ Decrement(NextRequest.stage)
  /\ UNCHANGED <<app, registry, orphaned, collector, database, files, bounds>>

\* consume() swallows the error.
JournalCommitFails ==
  /\ Doing("commit")
  /\ IF staged[ShaOf[NextRequest.stage]] > 0 THEN Fail ELSE UNCHANGED failures
  /\ UNCHANGED <<app, registry, journal, collector, database, files, crashes>>

\* clearRecoveredCandidate also drops the stages a crash left behind.
JournalClear ==
  /\ Doing("clear")
  /\ LET h == NextRequest.sha
     IN  /\ orphaned' = orphaned \ {h}
         /\ staged' = [staged EXCEPT ![h] = IF h \in recovered THEN 0 ELSE @]
         /\ recovered' = recovered \ {h}
         /\ candidates' = candidates \ {h}
         /\ gc' = [gc EXCEPT ![h] = "idle"]
  /\ UNCHANGED <<app, registry, due, database, files, bounds>>

JournalClearFails ==
  /\ Doing("clear")
  /\ Fail
  /\ gc' = [gc EXCEPT ![NextRequest.sha] = "idle"]
  /\ UNCHANGED <<app, registry, journal, candidates, recovered, due, database, files, crashes>>

-----------------------------------------------------------------------------
(* Blob collection.                                                        *)

\* purgeExpired() with nothing to expire: any call of the store does this.
CollectOrphanedBlobs ==
  /\ app = "ready"
  /\ due' = due \cup candidates
  /\ UNCHANGED <<app, registry, journal, requests, candidates, recovered, gc, database, files, bounds>>

\* Mutant: a pinned hash is collected.
CollectablePinned(h) == h \in candidates

Collectable(h) == h \in candidates /\ pins[h] = 0

StartCollection(h) ==
  /\ h \in due
  /\ gc[h] = "idle"
  /\ Collectable(h)
  /\ due' = due \ {h}
  /\ gc' = [gc EXCEPT ![h] = "collecting"]
  /\ UNCHANGED <<app, registry, journal, requests, candidates, recovered, database, files, bounds>>

SkipCollection(h) ==
  /\ h \in due
  /\ gc[h] = "idle"
  /\ ~Collectable(h)
  /\ due' = due \ {h}
  /\ UNCHANGED <<app, registry, journal, requests, candidates, recovered, gc, database, files, bounds>>

\* Mutant: the transaction does not look for rows.
ReferencedUnchecked(h) == FALSE

Referenced(h) == h \in refs

CollectCheck(h) ==
  /\ tx = CollectTx(h, "open")
  /\ tx' = CollectTx(h, IF Referenced(h) THEN "done" ELSE "unlinking")
  /\ UNCHANGED <<app, registry, journal, requests, collector, poisoned, refs, erased, files, bounds>>

CollectUnlink(h) ==
  /\ tx = CollectTx(h, "unlinking")
  /\ files' = files \ {h}
  /\ tx' = CollectTx(h, "done")
  /\ UNCHANGED <<app, registry, journal, requests, collector, poisoned, refs, erased, bounds>>

-----------------------------------------------------------------------------
(* The database coordinator: one operation at a time.                      *)

Begin(t) == ~poisoned /\ tx = NoTx /\ tx' = t

BeginIngest(s) ==
  /\ pc[s] = "ingesting"
  /\ Begin(IngestTx(s))
  /\ UNCHANGED <<app, registry, journal, requests, collector, poisoned, refs, erased, files, bounds>>

BeginCollect(h) ==
  /\ gc[h] = "collecting"
  /\ Begin(CollectTx(h, "open"))
  /\ UNCHANGED <<app, registry, journal, requests, collector, poisoned, refs, erased, files, bounds>>

\* Other writers: synchronization pulls an attachment row whose bytes are not
\* here, a purge deletes the rows that refer to a hash.
BeginPull(h) ==
  /\ app = "ready"
  /\ h \notin refs
  /\ Begin(RowTx("pull", h))
  /\ UNCHANGED <<app, registry, journal, requests, collector, poisoned, refs, erased, files, bounds>>

BeginPurge(h) ==
  /\ app = "ready"
  /\ h \in refs
  /\ Begin(RowTx("purge", h))
  /\ UNCHANGED <<app, registry, journal, requests, collector, poisoned, refs, erased, files, bounds>>

CommitIngest(s) ==
  /\ tx = IngestTx(s)
  /\ refs' = refs \cup {ShaOf[s]}
  /\ erased' = erased \ {ShaOf[s]}
  /\ tx' = NoTx
  /\ pc' = [pc EXCEPT ![s] = "committed"]
  /\ UNCHANGED <<app, reserved, pins, journal, requests, collector, poisoned, files, bounds>>

CommitCollect(h) ==
  /\ tx = CollectTx(h, "done")
  /\ tx' = NoTx
  /\ gc' = [gc EXCEPT ![h] = "settling"]
  /\ Request(ClearOp(h))
  /\ UNCHANGED <<app, registry, journal, candidates, recovered, due, poisoned, refs, erased, files, bounds>>

CommitPull(h) ==
  /\ tx = RowTx("pull", h)
  /\ refs' = refs \cup {h}
  /\ erased' = erased \ {h}
  /\ tx' = NoTx
  /\ UNCHANGED <<app, registry, journal, requests, collector, poisoned, files, bounds>>

CommitPurge(h) ==
  /\ tx = RowTx("purge", h)
  /\ refs' = refs \ {h}
  /\ erased' = erased \cup {h}
  /\ tx' = NoTx
  /\ UNCHANGED <<app, registry, journal, requests, collector, poisoned, files, bounds>>

\* What the owner of a failed transaction does: the import releases its claim,
\* the collection keeps its candidate for a later call.
Abandoned(t) ==
  /\ pc' = [s \in Stages |-> IF t = IngestTx(s) THEN "live" ELSE pc[s]]
  /\ gc' = [h \in Shas |-> IF t.kind = "collect" /\ t.sha = h THEN "idle" ELSE gc[h]]

Rollback ==
  /\ tx # NoTx
  /\ Fail
  /\ tx' = NoTx
  /\ poisoned' \in BOOLEAN     \* TRUE: the rollback failed as well
  /\ Abandoned(tx)
  /\ UNCHANGED <<app, reserved, pins, journal, requests, candidates, recovered, due, refs, erased, files, crashes>>

\* A poisoned connection answers every later operation with its error.
RejectIngest(s) ==
  /\ poisoned
  /\ pc[s] = "ingesting"
  /\ pc' = [pc EXCEPT ![s] = "live"]
  /\ UNCHANGED <<app, reserved, pins, journal, requests, collector, database, files, bounds>>

RejectCollect(h) ==
  /\ poisoned
  /\ gc[h] = "collecting"
  /\ gc' = [gc EXCEPT ![h] = "idle"]
  /\ UNCHANGED <<app, registry, journal, requests, candidates, recovered, due, database, files, bounds>>

-----------------------------------------------------------------------------
(* Crash and restart.                                                      *)

Crash ==
  /\ app # "down"
  /\ crashes < MaxCrashes
  /\ crashes' = crashes + 1
  /\ app' = "down"
  /\ pc' = [s \in Stages |-> "idle"]
  /\ reserved' = 0
  /\ pins' = [h \in Shas |-> 0]
  /\ requests' = <<>>
  /\ candidates' = {}
  /\ recovered' = {}
  /\ due' = {}
  /\ gc' = [h \in Shas |-> "idle"]
  /\ tx' = NoTx
  /\ poisoned' = FALSE
  /\ UNCHANGED <<journal, files, refs, erased, failures>>

\* recover(): every journalled hash is a candidate, never a receipt.
Recover ==
  /\ app = "down"
  /\ app' = "recovering"
  /\ \E found \in SUBSET Shas :
       /\ \/ found = {h \in Shas : Journalled(h)} /\ UNCHANGED failures
          \/ found = {} /\ Fail     \* the journal cannot be read
       /\ candidates' = found
       /\ recovered' = found
       /\ due' = found
  /\ UNCHANGED <<registry, journal, requests, gc, database, files, crashes>>

RecoveryDone ==
  /\ app = "recovering"
  /\ due = {}
  /\ \A h \in Shas : gc[h] = "idle"
  /\ app' = "ready"
  /\ UNCHANGED <<registry, journal, requests, collector, database, files, bounds>>

-----------------------------------------------------------------------------
StageStep(s) ==
  \/ Stage(s) \/ RecordStage(s) \/ WriteBlob(s) \/ WriteFails(s) \/ Retire(s)
  \/ Claim(s) \/ VerifyClaim(s) \/ ReleaseClaim(s) \/ Consume(s)
  \/ BeginIngest(s) \/ CommitIngest(s) \/ RejectIngest(s)

JournalStep ==
  \/ JournalRecord \/ JournalRecordFails \/ JournalOrphan \/ JournalOrphanFails
  \/ JournalCommit \/ JournalCommitFails \/ JournalClear \/ JournalClearFails

CollectStep(h) ==
  \/ StartCollection(h) \/ SkipCollection(h) \/ CollectCheck(h) \/ CollectUnlink(h)
  \/ BeginCollect(h) \/ CommitCollect(h) \/ RejectCollect(h)

RowStep(h) == BeginPull(h) \/ CommitPull(h) \/ BeginPurge(h) \/ CommitPurge(h)

Next ==
  \/ \E s \in Stages : StageStep(s)
  \/ JournalStep
  \/ CollectOrphanedBlobs
  \/ \E h \in Shas : CollectStep(h) \/ RowStep(h)
  \/ Rollback
  \/ Crash
  \/ Recover
  \/ RecoveryDone

Spec == Init /\ [][Next]_vars

\* What the runtime guarantees: a pending promise settles, the expiry timer
\* fires, and the coordinator's queue is first in first out, so a waiting
\* transaction is not overtaken for ever.  Nobody has to stage or claim.
Fairness ==
  /\ WF_vars(JournalStep)
  /\ WF_vars(Recover)
  /\ WF_vars(RecoveryDone)
  /\ \A s \in Stages :
       /\ WF_vars(RecordStage(s))
       /\ WF_vars(WriteBlob(s))
       /\ WF_vars(Retire(s))
       /\ WF_vars(VerifyClaim(s))
       /\ WF_vars(Consume(s))
       /\ SF_vars(BeginIngest(s))
       /\ WF_vars(CommitIngest(s))
  /\ \A h \in Shas :
       /\ WF_vars(StartCollection(h))
       /\ WF_vars(SkipCollection(h))
       /\ WF_vars(CollectCheck(h))
       /\ WF_vars(CollectUnlink(h))
       /\ SF_vars(BeginCollect(h))
       /\ WF_vars(CommitCollect(h))
       /\ WF_vars(CommitPull(h))
       /\ WF_vars(CommitPurge(h))

FairSpec == Spec /\ Fairness

-----------------------------------------------------------------------------
(* Properties.                                                             *)

\* Every variable stays in its domain: the reservation and pin counters never
\* go below zero, where unpinSha() would throw.
TypeOK ==
  /\ app \in {"down", "recovering", "ready"}
  /\ pc \in [Stages -> {"idle", "failing"} \cup Reserving \cup Held]
  /\ reserved \in 0 .. Cardinality(Stages)
  /\ pins \in [Shas -> 0 .. Cardinality(Stages)]
  /\ staged \in [Shas -> 0 .. MaxStagedCount]
  /\ orphaned \in SUBSET Shas
  /\ requests \in Seq(Operations)
  /\ candidates \in SUBSET Shas
  /\ recovered \in SUBSET candidates
  /\ due \in SUBSET Shas
  /\ gc \in [Shas -> {"idle", "collecting", "settling"}]
  /\ tx \in Transactions
  /\ poisoned \in BOOLEAN
  /\ files \in SUBSET Shas
  /\ refs \in SUBSET Shas
  /\ erased \in SUBSET Shas
  /\ failures \in 0 .. MaxFailures
  /\ crashes \in 0 .. MaxCrashes

\* A receipt that can still be claimed, or whose import is under way, names a
\* blob that is on disk: no collection removes bytes under a receipt, whatever
\* the order of stage(), expiry, claim() and collection.
ReceiptHasBytes == \A s \in Entries : ShaOf[s] \in files

\* The journal counts every stage that has been recorded and not settled, the
\* un-awaited markCommitted of a consumed receipt included.  Otherwise
\* decrementStage() would throw and the receipt could never be retired, or a
\* crash would leave a blob no recovery knows of.
JournalCoversStages ==
  \A h \in Shas :
    Cardinality({s \in StagesOf(h) : pc[s] \in Held \cup {"writing", "failing"}})
      + Cardinality({i \in DOMAIN requests : requests[i].op = "commit"
                                              /\ ShaOf[requests[i].stage] = h})
      <= staged[h]

\* Every blob on disk is referred to by a row, or is in the durable journal
\* where the next start finds it, or lost its last row to a purge (which
\* nominates nothing for collection).
BlobsAccountedFor ==
  \A h \in files : h \in refs \/ Journalled(h) \/ h \in erased

\* The receipt limit holds with the calls in flight counted, and a call gives
\* its reservation back exactly once whichever way it ends.
ReceiptsBounded ==
  /\ Cardinality(Entries) + reserved <= MaxReceipts
  /\ reserved = Cardinality({s \in Stages : pc[s] \in Reserving})

\* Receipts that are not imported yet, and the hashes a start would recover.
Receipts == {s \in Stages : pc[s] \in Held \ {"committed"}}
Noted == {h \in Shas : Journalled(h)}

Store == INSTANCE BlobStore WITH
  Hashes   <- Shas,
  Names    <- Stages,
  HashOf   <- ShaOf,
  Limit    <- MaxReceipts,
  bytes    <- files,
  receipts <- Receipts,
  noted    <- Noted,
  rows     <- refs

\* The registry, its journal, the collector and the transactions implement a blob
\* store that a crash costs nothing but receipts: in particular no collection,
\* whatever it overlaps with, takes bytes that a receipt or a row needs, and none
\* are stored that no start would find.
ImplementsBlobStore == Store!Spec

\* Without a failure, a journalled hash is settled (its blob is gone or a row
\* refers to it) unless somebody stages the same bytes again; a crash only
\* delays this.
JournalSettles ==
  \A h \in Shas :
    Journalled(h) ~>
      (~Journalled(h) \/ failures > 0 \/ \E s \in StagesOf(h) : pc[s] = "waiting")

=============================================================================
