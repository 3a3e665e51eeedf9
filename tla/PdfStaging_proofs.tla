-------------------------- MODULE PdfStaging_proofs --------------------------
(***************************************************************************)
(* Type correctness and safety of the registry of staged PDFs: the         *)
(* receipts' bytes, the journal's counts and the receipt limit, for any    *)
(* number of stages, hashes, failures and crashes.                         *)
(***************************************************************************)
EXTENDS PdfStaging, FiniteSetTheorems, TLAPS

USE StagingAssumption

-----------------------------------------------------------------------------
(* The inductive invariant.                                                *)

Progress == {"idle", "failing"} \cup Reserving \cup Held

\* TypeOK without the ranges of the two counters, which Counted gives.
Typed ==
  /\ app \in {"down", "recovering", "ready"}
  /\ pc \in [Stages -> Progress]
  /\ reserved \in Int
  /\ pins \in [Shas -> Int]
  /\ staged \in [Shas -> 0 .. MaxStagedCount]
  /\ orphaned \in SUBSET Shas
  /\ requests \in Seq(Operations)
  /\ candidates \in SUBSET Shas
  /\ recovered \in SUBSET candidates
  /\ due \in SUBSET Shas
  /\ gc \in [Shas -> {"idle", "collecting", "settling"}]
  /\ tx \in Transactions
  /\ poisoned \in BOOLEAN
  /\ files \in SUBSET Shas
  /\ refs \in SUBSET Shas
  /\ erased \in SUBSET Shas
  /\ failures \in 0 .. MaxFailures
  /\ crashes \in 0 .. MaxCrashes

\* The stages of T whose progress is in P.
At(T, P) == {s \in T : pc[s] \in P}
Count(T, P) == Cardinality(At(T, P))

\* A call is counted as a reservation or by its receipt, and pins its hash until it ends.
Counted ==
  /\ reserved = Count(Stages, Reserving)
  /\ Count(Stages, Held) + reserved <= MaxReceipts
  /\ \A h \in Shas : pins[h] = Count(StagesOf(h), Progress \ {"idle"})

Kept(h) == h \in refs \cup erased

\* An operation of the journal has a call that awaits it, or settles a receipt
\* whose import committed.
Awaited(r) ==
  /\ r.op = "record" => pc[r.stage] = "recording"
  /\ r.op = "orphan" => pc[r.stage] \in {"failing", "retiring"}
  /\ r.op = "clear" => gc[r.sha] = "settling"
  /\ r.op = "commit" => Kept(ShaOf[r.stage])

RequestsAwaited == \A i \in DOMAIN requests : Awaited(requests[i])

\* Nobody awaits two operations, and those of committed receipts are queued
\* before the one that clears their hash.
RequestsOrdered ==
  \A i, j \in DOMAIN requests :
    /\ requests[i] = requests[j] /\ requests[i].op # "commit" => i = j
    /\ requests[i].op = "clear" /\ requests[j].op = "commit"
         /\ ShaOf[requests[j].stage] = requests[i].sha => j < i

\* The open transaction has an owner that waits for it.
Exclusive ==
  /\ poisoned => tx = NoTx
  /\ tx.kind = "ingest" => pc[tx.stage] = "ingesting"
  /\ tx.kind = "collect" => gc[tx.sha] = "collecting"
  /\ tx.kind = "collect" /\ tx.phase = "unlinking" => tx.sha \notin refs
  /\ tx.kind = "purge" => tx.sha \in refs

\* While a hash is collected no call with its bytes is past its wait.
Quiet == \A s \in Stages : gc[ShaOf[s]] # "idle" => pc[s] \in {"idle", "waiting"}

\* A committed import, or a collection that has been carried out, leaves nothing to account for.
Decided ==
  /\ \A s \in Stages : pc[s] = "committed" => Kept(ShaOf[s])
  /\ \A h \in Shas : gc[h] = "settling" => h \notin files \/ Kept(h)
  /\ tx.kind = "collect" /\ tx.phase = "done" => tx.sha \notin files \/ Kept(tx.sha)

Tables == Typed /\ RequestsAwaited /\ RequestsOrdered /\ Exclusive
Inv ==
  /\ Tables /\ Counted /\ Quiet /\ Decided
  /\ ReceiptHasBytes /\ JournalCoversStages /\ BlobsAccountedFor

-----------------------------------------------------------------------------
(* Requests and transactions.                                              *)

\* A request is one of four kinds.
LEMMA RequestKinds ==
  ASSUME NEW r \in Operations
  PROVE  \/ r.op = "record" /\ r.stage \in Stages /\ r = RecordOp(r.stage)
         \/ r.op = "orphan" /\ r.stage \in Stages /\ r = OrphanOp(r.stage)
         \/ r.op = "commit" /\ r.stage \in Stages /\ r = CommitOp(r.stage)
         \/ r.op = "clear" /\ r.sha \in Shas /\ r = ClearOp(r.sha)
BY DEF Operations, RecordOp, OrphanOp, CommitOp, ClearOp

\* What the constructors make.
LEMMA RequestFields ==
  /\ \A s \in Stages :
       /\ RecordOp(s) \in Operations /\ RecordOp(s).op = "record" /\ RecordOp(s).stage = s
       /\ OrphanOp(s) \in Operations /\ OrphanOp(s).op = "orphan" /\ OrphanOp(s).stage = s
       /\ CommitOp(s) \in Operations /\ CommitOp(s).op = "commit" /\ CommitOp(s).stage = s
  /\ \A h \in Shas :
       ClearOp(h) \in Operations /\ ClearOp(h).op = "clear" /\ ClearOp(h).sha = h
BY DEF Operations, RecordOp, OrphanOp, CommitOp, ClearOp

\* A transaction is of one of five kinds.
LEMMA TransactionKinds ==
  ASSUME NEW t \in Transactions
  PROVE  \/ t.kind = "none" /\ t = NoTx
         \/ t.kind = "ingest" /\ t.stage \in Stages /\ t = IngestTx(t.stage)
         \/ /\ t.kind = "collect" /\ t.sha \in Shas /\ t.phase \in {"open", "unlinking", "done"}
            /\ t = CollectTx(t.sha, t.phase)
         \/ t.kind = "pull" /\ t.sha \in Shas /\ t = RowTx("pull", t.sha)
         \/ t.kind = "purge" /\ t.sha \in Shas /\ t = RowTx("purge", t.sha)
BY DEF Transactions, NoTx, IngestTx, CollectTx, RowTx

\* What the constructors make.
LEMMA TransactionFields ==
  /\ NoTx \in Transactions /\ NoTx.kind = "none"
  /\ \A s \in Stages :
       IngestTx(s) \in Transactions /\ IngestTx(s).kind = "ingest" /\ IngestTx(s).stage = s
  /\ \A h \in Shas, p \in {"open", "unlinking", "done"} :
       /\ CollectTx(h, p) \in Transactions /\ CollectTx(h, p).kind = "collect"
       /\ CollectTx(h, p).sha = h /\ CollectTx(h, p).phase = p
  /\ \A h \in Shas, k \in {"pull", "purge"} :
       RowTx(k, h) \in Transactions /\ RowTx(k, h).kind = k /\ RowTx(k, h).sha = h
<1>1. NoTx \in Transactions /\ NoTx.kind = "none"
  BY DEF Transactions, NoTx
<1>2. ASSUME NEW s \in Stages
      PROVE  IngestTx(s) \in Transactions /\ IngestTx(s).kind = "ingest" /\ IngestTx(s).stage = s
  BY DEF Transactions, IngestTx
<1>3. ASSUME NEW h \in Shas, NEW p \in {"open", "unlinking", "done"}
      PROVE  /\ CollectTx(h, p) \in Transactions /\ CollectTx(h, p).kind = "collect"
             /\ CollectTx(h, p).sha = h /\ CollectTx(h, p).phase = p
  BY DEF Transactions, CollectTx
<1>4. ASSUME NEW h \in Shas, NEW k \in {"pull", "purge"}
      PROVE  RowTx(k, h) \in Transactions /\ RowTx(k, h).kind = k /\ RowTx(k, h).sha = h
  BY DEF Transactions, RowTx
<1> QED
  BY <1>1, <1>2, <1>3, <1>4

\* Appending a request.
LEMMA Appended ==
  ASSUME Typed, NEW r \in Operations, Request(r)
  PROVE  /\ requests' \in Seq(Operations)
         /\ Len(requests') = Len(requests) + 1
         /\ requests'[Len(requests) + 1] = r
         /\ \A i \in DOMAIN requests : requests'[i] = requests[i]
         /\ DOMAIN requests = 1 .. Len(requests) /\ DOMAIN requests' = 1 .. Len(requests) + 1
         /\ \A i \in DOMAIN requests' : i \in DOMAIN requests \/ i = Len(requests) + 1
BY DEF Typed, Request

\* Taking the oldest request.
LEMMA Taken ==
  ASSUME Typed, NEW op, Doing(op)
  PROVE  /\ requests' \in Seq(Operations)
         /\ NextRequest \in Operations /\ NextRequest.op = op
         /\ 1 \in DOMAIN requests /\ requests[1] = NextRequest
         /\ DOMAIN requests = 1 .. Len(requests) /\ DOMAIN requests' = 1 .. Len(requests) - 1
         /\ Len(requests) \in Nat
         /\ \A i \in DOMAIN requests' : i + 1 \in DOMAIN requests /\ requests'[i] = requests[i + 1]
         /\ op \in {"record", "orphan", "commit"} => NextRequest.stage \in Stages
         /\ op = "clear" => NextRequest.sha \in Shas
<1>1. requests \in Seq(Operations) /\ requests # <<>> /\ requests' = Tail(requests)
  BY DEF Typed, Doing
<1>2. NextRequest \in Operations /\ NextRequest.op = op
  BY <1>1 DEF Doing, NextRequest
<1> QED
  BY <1>1, <1>2, RequestKinds DEF NextRequest

\* The call that awaits the oldest request is where it started that request.
LEMMA HeadAwaited ==
  ASSUME Typed, RequestsAwaited, NEW op, Doing(op)
  PROVE  /\ op = "record" => NextRequest = RecordOp(NextRequest.stage)
                              /\ pc[NextRequest.stage] = "recording"
         /\ op = "orphan" => NextRequest = OrphanOp(NextRequest.stage)
                              /\ pc[NextRequest.stage] \in {"failing", "retiring"}
         /\ op = "clear" => NextRequest = ClearOp(NextRequest.sha)
                             /\ gc[NextRequest.sha] = "settling"
         /\ op = "commit" => NextRequest = CommitOp(NextRequest.stage)
                              /\ Kept(ShaOf[NextRequest.stage])
<1>1. NextRequest \in Operations /\ NextRequest.op = op /\ Awaited(NextRequest)
  BY Taken DEF RequestsAwaited
<1> QED
  BY <1>1, RequestKinds DEF Awaited

\* Every step keeps the variables in their domains.
LEMMA TypedNext ==
  ASSUME Typed, Exclusive, [Next]_vars
  PROVE  Typed'
<1> USE DEF Progress, Reserving, Held, registry, journal, collector, database, bounds
<1>1. ASSUME NEW s \in Stages, Stage(s) PROVE Typed'
  BY <1>1 DEF Typed, Stage, HasCapacity
<1>2. ASSUME NEW s \in Stages, RecordStage(s) PROVE Typed'
  BY <1>2, Appended, RequestFields DEF Typed, RecordStage, CollectionSettled
<1>3. ASSUME NEW s \in Stages, WriteBlob(s) PROVE Typed'
  BY <1>3 DEF Typed, WriteBlob
<1>4. ASSUME NEW s \in Stages, WriteFails(s) PROVE Typed'
  BY <1>4, Appended, RequestFields DEF Typed, WriteFails, Fail
<1>5. ASSUME NEW s \in Stages, Retire(s) PROVE Typed'
  BY <1>5, Appended, RequestFields DEF Typed, Retire
<1>6. ASSUME NEW s \in Stages, Claim(s) PROVE Typed'
  BY <1>6 DEF Typed, Claim
<1>7. ASSUME NEW s \in Stages, VerifyClaim(s) PROVE Typed'
  BY <1>7 DEF Typed, VerifyClaim
<1>8. ASSUME NEW s \in Stages, ReleaseClaim(s) PROVE Typed'
  BY <1>8 DEF Typed, ReleaseClaim, Fail
<1>9. ASSUME NEW s \in Stages, Consume(s) PROVE Typed'
  BY <1>9, Appended, RequestFields DEF Typed, Consume
<1>10. ASSUME NEW s \in Stages, BeginIngest(s) PROVE Typed'
  BY <1>10, TransactionFields DEF Typed, BeginIngest, Begin
<1>11. ASSUME NEW s \in Stages, CommitIngest(s) PROVE Typed'
  BY <1>11, TransactionFields DEF Typed, CommitIngest
<1>12. ASSUME NEW s \in Stages, RejectIngest(s) PROVE Typed'
  BY <1>12 DEF Typed, RejectIngest
<1>13. ASSUME JournalRecord PROVE Typed'
  <2>1. requests' \in Seq(Operations) /\ NextRequest.stage \in Stages
    BY <1>13, Taken DEF JournalRecord
  <2> QED
    BY <1>13, <2>1 DEF Typed, JournalRecord
<1>14. ASSUME JournalRecordFails PROVE Typed'
  <2>1. requests' \in Seq(Operations) /\ NextRequest.stage \in Stages
    BY <1>14, Taken DEF JournalRecordFails
  <2>2. failures' \in 0 .. MaxFailures
    BY <1>14 DEF Typed, JournalRecordFails, Fail
  <2>3. pc' \in [Stages -> Progress] /\ reserved' \in Int /\ pins' \in [Shas -> Int]
    BY <1>14, <2>1 DEF Typed, JournalRecordFails, Progress
  <2> QED
    BY <1>14, <2>1, <2>2, <2>3 DEF Typed, JournalRecordFails
<1>15. ASSUME JournalOrphan PROVE Typed'
  <2>1. requests' \in Seq(Operations) /\ NextRequest.stage \in Stages
    BY <1>15, Taken DEF JournalOrphan
  <2> QED
    BY <1>15, <2>1 DEF Typed, JournalOrphan, Decrement, Orphaned
<1>16. ASSUME JournalOrphanFails PROVE Typed'
  <2>1. requests' \in Seq(Operations) /\ NextRequest.stage \in Stages
    BY <1>16, Taken DEF JournalOrphanFails
  <2>2. failures' \in 0 .. MaxFailures
    BY <1>16 DEF Typed, JournalOrphanFails, Fail
  <2>3. CASE pc[NextRequest.stage] = "retiring"
    BY <1>16, <2>1, <2>2, <2>3 DEF Typed, JournalOrphanFails
  <2>4. CASE pc[NextRequest.stage] # "retiring"
    <3>1. /\ pc' = [pc EXCEPT ![NextRequest.stage] = "idle"]
          /\ pins' = [pins EXCEPT ![ShaOf[NextRequest.stage]] = @ - 1]
      BY <1>16, <2>4 DEF JournalOrphanFails
    <3>2. pc' \in [Stages -> Progress]
      BY <2>1, <3>1 DEF Typed
    <3>3. pins' \in [Shas -> Int]
      BY <2>1, <3>1 DEF Typed
    <3> QED
      BY <1>16, <2>1, <2>2, <3>2, <3>3 DEF Typed, JournalOrphanFails
  <2> QED
    BY <2>3, <2>4
<1>17. ASSUME JournalCommit PROVE Typed'
  <2>1. requests' \in Seq(Operations) /\ NextRequest.stage \in Stages
    BY <1>17, Taken DEF JournalCommit
  <2> QED
    BY <1>17, <2>1 DEF Typed, JournalCommit, Decrement
<1>18. ASSUME JournalCommitFails PROVE Typed'
  <2>1. requests' \in Seq(Operations) /\ NextRequest.stage \in Stages
    BY <1>18, Taken DEF JournalCommitFails
  <2> QED
    BY <1>18, <2>1 DEF Typed, JournalCommitFails, Fail
<1>19. ASSUME JournalClear PROVE Typed'
  <2>1. requests' \in Seq(Operations) /\ NextRequest.sha \in Shas
    BY <1>19, Taken DEF JournalClear
  <2> QED
    BY <1>19, <2>1 DEF Typed, JournalClear
<1>20. ASSUME JournalClearFails PROVE Typed'
  <2>1. requests' \in Seq(Operations) /\ NextRequest.sha \in Shas
    BY <1>20, Taken DEF JournalClearFails
  <2> QED
    BY <1>20, <2>1 DEF Typed, JournalClearFails, Fail
<1>21. ASSUME NEW h \in Shas, StartCollection(h) PROVE Typed'
  BY <1>21 DEF Typed, StartCollection, Collectable
<1>22. ASSUME NEW h \in Shas, SkipCollection(h) PROVE Typed'
  BY <1>22 DEF Typed, SkipCollection
<1>23. ASSUME NEW h \in Shas, CollectCheck(h) PROVE Typed'
  BY <1>23, TransactionFields DEF Typed, CollectCheck, Referenced
<1>24. ASSUME NEW h \in Shas, CollectUnlink(h) PROVE Typed'
  BY <1>24, TransactionFields DEF Typed, CollectUnlink
<1>25. ASSUME NEW h \in Shas, BeginCollect(h) PROVE Typed'
  BY <1>25, TransactionFields DEF Typed, BeginCollect, Begin
<1>26. ASSUME NEW h \in Shas, CommitCollect(h) PROVE Typed'
  BY <1>26, Appended, RequestFields, TransactionFields DEF Typed, CommitCollect
<1>27. ASSUME NEW h \in Shas, RejectCollect(h) PROVE Typed'
  BY <1>27 DEF Typed, RejectCollect
<1>28. ASSUME NEW h \in Shas, BeginPull(h) PROVE Typed'
  BY <1>28, TransactionFields DEF Typed, BeginPull, Begin
<1>29. ASSUME NEW h \in Shas, CommitPull(h) PROVE Typed'
  BY <1>29, TransactionFields DEF Typed, CommitPull
<1>30. ASSUME NEW h \in Shas, BeginPurge(h) PROVE Typed'
  BY <1>30, TransactionFields DEF Typed, BeginPurge, Begin
<1>31. ASSUME NEW h \in Shas, CommitPurge(h) PROVE Typed'
  BY <1>31, TransactionFields DEF Typed, CommitPurge
<1>32. ASSUME CollectOrphanedBlobs PROVE Typed'
  BY <1>32 DEF Typed, CollectOrphanedBlobs
<1>33. ASSUME Rollback PROVE Typed'
  BY <1>33, TransactionFields, TransactionKinds DEF Typed, Rollback, Abandoned, Fail
<1>34. ASSUME Crash PROVE Typed'
  <2>1. requests' = <<>> /\ tx' = NoTx
    BY <1>34 DEF Crash
  <2>2. requests' \in Seq(Operations)
    BY <2>1
  <2>3. tx' \in Transactions
    BY <2>1, TransactionFields
  <2>4. poisoned' \in BOOLEAN
    BY <1>34, Zenon DEF Crash
  <2>5. pc' \in [Stages -> Progress] /\ pins' \in [Shas -> Int]
    BY <1>34 DEF Typed, Crash
  <2>6. gc' \in [Shas -> {"idle", "collecting", "settling"}] /\ recovered' \in SUBSET candidates'
    BY <1>34 DEF Typed, Crash
  <2> QED
    BY <1>34, <2>2, <2>3, <2>4, <2>5, <2>6 DEF Typed, Crash
<1>35. ASSUME Recover PROVE Typed'
  BY <1>35 DEF Typed, Recover, Fail
<1>36. ASSUME RecoveryDone PROVE Typed'
  BY <1>36 DEF Typed, RecoveryDone
<1>37. CASE UNCHANGED vars
  BY <1>37 DEF Typed, vars
<1> QED
  BY <1>1, <1>2, <1>3, <1>4, <1>5, <1>6, <1>7, <1>8, <1>9, <1>10, <1>11, <1>12, <1>13, <1>14,
     <1>15, <1>16, <1>17, <1>18, <1>19, <1>20, <1>21, <1>22, <1>23, <1>24, <1>25, <1>26, <1>27,
     <1>28, <1>29, <1>30, <1>31, <1>32, <1>33, <1>34, <1>35, <1>36, <1>37
  DEF Next, StageStep, JournalStep, CollectStep, RowStep

-----------------------------------------------------------------------------
(* What a step does to the calls of stage().                               *)

Moves(s, q) == pc' = [pc EXCEPT ![s] = q]
Pins(s, n) == pins' = [pins EXCEPT ![ShaOf[s]] = @ + n]

\* A call s goes from one place to the next, as far as the counters tell places apart.
Moved(s) ==
  \/ /\ pc[s] = "idle" /\ Moves(s, "waiting") /\ HasCapacity
     /\ reserved' = reserved + 1 /\ Pins(s, 1)
  \/ /\ pc[s] = "waiting" /\ Moves(s, "recording") /\ gc[ShaOf[s]] = "idle"
     /\ UNCHANGED <<reserved, pins>>
  \/ /\ pc[s] = "recording" /\ Moves(s, "writing")
     /\ UNCHANGED <<reserved, pins>>
  \/ /\ pc[s] = "recording" /\ Moves(s, "idle")
     /\ reserved' = reserved - 1 /\ Pins(s, -1)
  \/ /\ pc[s] = "writing"
     /\ \E q \in {"failing", "live"} : Moves(s, q) /\ (q = "live" => ShaOf[s] \in files')
     /\ reserved' = reserved - 1 /\ UNCHANGED pins
  \/ /\ pc[s] \in Held
     /\ \E q \in Held : Moves(s, q) /\ (q = "committed" => ShaOf[s] \in refs')
     /\ UNCHANGED <<reserved, pins>>
  \/ /\ pc[s] \in Held \cup {"failing"} /\ Moves(s, "idle")
     /\ UNCHANGED reserved /\ Pins(s, -1)

StageMoves ==
  \/ UNCHANGED registry
  \/ Crash
  \/ \E s \in Stages : Moved(s) /\ UNCHANGED gc

\* A step moves at most one call, and then no collection, or it is a crash.
LEMMA OneCallMoves ==
  ASSUME Tables, [Next]_vars
  PROVE  StageMoves
<1> USE DEF Tables, StageMoves, Moved, Moves, Pins, Held, Reserving, registry, collector
<1>1. ASSUME NEW s \in Stages, Stage(s) PROVE StageMoves
  BY <1>1 DEF Stage
<1>2. ASSUME NEW s \in Stages, RecordStage(s) PROVE StageMoves
  BY <1>2 DEF RecordStage, CollectionSettled
<1>3. ASSUME NEW s \in Stages, WriteBlob(s) PROVE StageMoves
  BY <1>3 DEF WriteBlob
<1>4. ASSUME NEW s \in Stages, WriteFails(s) PROVE StageMoves
  BY <1>4 DEF WriteFails
<1>5. ASSUME NEW s \in Stages, Retire(s) PROVE StageMoves
  BY <1>5 DEF Retire
<1>6. ASSUME NEW s \in Stages, Claim(s) PROVE StageMoves
  BY <1>6 DEF Claim
<1>7. ASSUME NEW s \in Stages, VerifyClaim(s) PROVE StageMoves
  BY <1>7 DEF VerifyClaim
<1>8. ASSUME NEW s \in Stages, ReleaseClaim(s) PROVE StageMoves
  BY <1>8 DEF ReleaseClaim
<1>9. ASSUME NEW s \in Stages, Consume(s) PROVE StageMoves
  BY <1>9 DEF Consume
<1>10. ASSUME NEW s \in Stages, BeginIngest(s) PROVE StageMoves
  BY <1>10 DEF BeginIngest
<1>11. ASSUME NEW s \in Stages, CommitIngest(s) PROVE StageMoves
  <2>1. pc[s] = "ingesting"
    BY <1>11, TransactionFields DEF CommitIngest, Exclusive
  <2> QED
    BY <1>11, <2>1 DEF CommitIngest
<1>12. ASSUME NEW s \in Stages, RejectIngest(s) PROVE StageMoves
  BY <1>12 DEF RejectIngest
<1>13. ASSUME JournalRecord PROVE StageMoves
  <2>1. NextRequest.stage \in Stages /\ pc[NextRequest.stage] = "recording"
    BY <1>13, Taken, HeadAwaited DEF JournalRecord
  <2> QED
    BY <1>13, <2>1 DEF JournalRecord
<1>14. ASSUME JournalRecordFails PROVE StageMoves
  <2>1. NextRequest.stage \in Stages /\ pc[NextRequest.stage] = "recording"
    BY <1>14, Taken, HeadAwaited DEF JournalRecordFails
  <2> QED
    BY <1>14, <2>1 DEF JournalRecordFails
<1>15. ASSUME JournalOrphan PROVE StageMoves
  <2>1. NextRequest.stage \in Stages /\ pc[NextRequest.stage] \in {"failing", "retiring"}
    BY <1>15, Taken, HeadAwaited DEF JournalOrphan
  <2> QED
    BY <1>15, <2>1 DEF JournalOrphan, Orphaned
<1>16. ASSUME JournalOrphanFails PROVE StageMoves
  <2>1. NextRequest.stage \in Stages /\ pc[NextRequest.stage] \in {"failing", "retiring"}
    BY <1>16, Taken, HeadAwaited DEF JournalOrphanFails
  <2> QED
    BY <1>16, <2>1 DEF JournalOrphanFails
<1>17. ASSUME JournalCommit PROVE StageMoves
  BY <1>17 DEF JournalCommit
<1>18. ASSUME JournalCommitFails PROVE StageMoves
  BY <1>18 DEF JournalCommitFails
<1>19. ASSUME JournalClear PROVE StageMoves
  BY <1>19 DEF JournalClear
<1>20. ASSUME JournalClearFails PROVE StageMoves
  BY <1>20 DEF JournalClearFails
<1>21. ASSUME NEW h \in Shas, StartCollection(h) PROVE StageMoves
  BY <1>21 DEF StartCollection
<1>22. ASSUME NEW h \in Shas, SkipCollection(h) PROVE StageMoves
  BY <1>22 DEF SkipCollection
<1>23. ASSUME NEW h \in Shas, CollectCheck(h) PROVE StageMoves
  BY <1>23 DEF CollectCheck
<1>24. ASSUME NEW h \in Shas, CollectUnlink(h) PROVE StageMoves
  BY <1>24 DEF CollectUnlink
<1>25. ASSUME NEW h \in Shas, BeginCollect(h) PROVE StageMoves
  BY <1>25 DEF BeginCollect
<1>26. ASSUME NEW h \in Shas, CommitCollect(h) PROVE StageMoves
  BY <1>26 DEF CommitCollect
<1>27. ASSUME NEW h \in Shas, RejectCollect(h) PROVE StageMoves
  BY <1>27 DEF RejectCollect
<1>28. ASSUME NEW h \in Shas, BeginPull(h) PROVE StageMoves
  BY <1>28 DEF BeginPull
<1>29. ASSUME NEW h \in Shas, CommitPull(h) PROVE StageMoves
  BY <1>29 DEF CommitPull
<1>30. ASSUME NEW h \in Shas, BeginPurge(h) PROVE StageMoves
  BY <1>30 DEF BeginPurge
<1>31. ASSUME NEW h \in Shas, CommitPurge(h) PROVE StageMoves
  BY <1>31 DEF CommitPurge
<1>32. ASSUME CollectOrphanedBlobs PROVE StageMoves
  BY <1>32 DEF CollectOrphanedBlobs
<1>33. ASSUME Rollback PROVE StageMoves
  <2>1. CASE tx.kind = "ingest"
    <3>1. tx.stage \in Stages /\ pc[tx.stage] = "ingesting" /\ tx = IngestTx(tx.stage)
      BY <2>1, TransactionKinds DEF Exclusive, Typed
    <3>2. \A s \in Stages : tx = IngestTx(s) <=> s = tx.stage
      BY <3>1, TransactionFields
    <3>3. pc' = [s \in Stages |-> IF tx = IngestTx(s) THEN "live" ELSE pc[s]]
      BY <1>33 DEF Rollback, Abandoned
    <3>4. pc' = [s \in Stages |-> IF s = tx.stage THEN "live" ELSE pc[s]]
      <4>1. \A s \in Stages : pc'[s] = IF s = tx.stage THEN "live" ELSE pc[s]
        BY <3>2, <3>3
      <4> QED
        BY <3>3, <4>1
    <3>5. pc' = [pc EXCEPT ![tx.stage] = "live"]
      BY <3>1, <3>4 DEF Typed
    <3>6. gc' = gc
      BY <1>33, <2>1 DEF Rollback, Abandoned, Typed
    <3> QED
      BY <1>33, <3>1, <3>5, <3>6 DEF Rollback
  <2>2. CASE tx.kind # "ingest"
    <3>1. \A s \in Stages : tx # IngestTx(s)
      BY <2>2, TransactionFields
    <3>2. pc' = pc
      BY <1>33, <3>1 DEF Rollback, Abandoned, Typed
    <3> QED
      BY <1>33, <3>2 DEF Rollback
  <2> QED
    BY <2>1, <2>2
<1>34. ASSUME Crash PROVE StageMoves
  BY <1>34
<1>35. ASSUME Recover PROVE StageMoves
  BY <1>35 DEF Recover
<1>36. ASSUME RecoveryDone PROVE StageMoves
  BY <1>36 DEF RecoveryDone
<1>37. CASE UNCHANGED vars
  BY <1>37 DEF vars
<1> QED
  BY <1>1, <1>2, <1>3, <1>4, <1>5, <1>6, <1>7, <1>8, <1>9, <1>10, <1>11, <1>12, <1>13, <1>14,
     <1>15, <1>16, <1>17, <1>18, <1>19, <1>20, <1>21, <1>22, <1>23, <1>24, <1>25, <1>26, <1>27,
     <1>28, <1>29, <1>30, <1>31, <1>32, <1>33, <1>34, <1>35, <1>36, <1>37
  DEF Next, StageStep, JournalStep, CollectStep, RowStep

-----------------------------------------------------------------------------
(* What a step does to the collections.                                    *)

CollectionMoves ==
  \/ UNCHANGED gc
  \/ Crash
  \/ /\ UNCHANGED registry
     /\ \E h \in Shas :
          \/ gc[h] = "idle" /\ gc' = [gc EXCEPT ![h] = "collecting"] /\ Collectable(h)
          \/ /\ gc[h] = "collecting" /\ gc' = [gc EXCEPT ![h] = "settling"]
             /\ tx = CollectTx(h, "done")
          \/ gc' = [gc EXCEPT ![h] = "idle"]

\* A step moves at most one collection, and then no call, or it is a crash.
LEMMA OneCollectionMoves ==
  ASSUME Tables, [Next]_vars
  PROVE  CollectionMoves
<1> USE DEF Tables, CollectionMoves, registry, collector
<1>1. ASSUME NEW s \in Stages, Stage(s) PROVE CollectionMoves
  BY <1>1 DEF Stage
<1>2. ASSUME NEW s \in Stages, RecordStage(s) PROVE CollectionMoves
  BY <1>2 DEF RecordStage
<1>3. ASSUME NEW s \in Stages, WriteBlob(s) PROVE CollectionMoves
  BY <1>3 DEF WriteBlob
<1>4. ASSUME NEW s \in Stages, WriteFails(s) PROVE CollectionMoves
  BY <1>4 DEF WriteFails
<1>5. ASSUME NEW s \in Stages, Retire(s) PROVE CollectionMoves
  BY <1>5 DEF Retire
<1>6. ASSUME NEW s \in Stages, Claim(s) PROVE CollectionMoves
  BY <1>6 DEF Claim
<1>7. ASSUME NEW s \in Stages, VerifyClaim(s) PROVE CollectionMoves
  BY <1>7 DEF VerifyClaim
<1>8. ASSUME NEW s \in Stages, ReleaseClaim(s) PROVE CollectionMoves
  BY <1>8 DEF ReleaseClaim
<1>9. ASSUME NEW s \in Stages, Consume(s) PROVE CollectionMoves
  BY <1>9 DEF Consume
<1>10. ASSUME NEW s \in Stages, BeginIngest(s) PROVE CollectionMoves
  BY <1>10 DEF BeginIngest
<1>11. ASSUME NEW s \in Stages, CommitIngest(s) PROVE CollectionMoves
  BY <1>11 DEF CommitIngest
<1>12. ASSUME NEW s \in Stages, RejectIngest(s) PROVE CollectionMoves
  BY <1>12 DEF RejectIngest
<1>13. ASSUME JournalRecord PROVE CollectionMoves
  BY <1>13 DEF JournalRecord
<1>14. ASSUME JournalRecordFails PROVE CollectionMoves
  BY <1>14 DEF JournalRecordFails
<1>15. ASSUME JournalOrphan PROVE CollectionMoves
  BY <1>15 DEF JournalOrphan
<1>16. ASSUME JournalOrphanFails PROVE CollectionMoves
  BY <1>16 DEF JournalOrphanFails
<1>17. ASSUME JournalCommit PROVE CollectionMoves
  BY <1>17 DEF JournalCommit
<1>18. ASSUME JournalCommitFails PROVE CollectionMoves
  BY <1>18 DEF JournalCommitFails
<1>19. ASSUME JournalClear PROVE CollectionMoves
  <2>1. NextRequest.sha \in Shas
    BY <1>19, Taken DEF JournalClear
  <2> QED
    BY <1>19, <2>1 DEF JournalClear
<1>20. ASSUME JournalClearFails PROVE CollectionMoves
  <2>1. NextRequest.sha \in Shas
    BY <1>20, Taken DEF JournalClearFails
  <2> QED
    BY <1>20, <2>1 DEF JournalClearFails
<1>21. ASSUME NEW h \in Shas, StartCollection(h) PROVE CollectionMoves
  BY <1>21 DEF StartCollection
<1>22. ASSUME NEW h \in Shas, SkipCollection(h) PROVE CollectionMoves
  BY <1>22 DEF SkipCollection
<1>23. ASSUME NEW h \in Shas, CollectCheck(h) PROVE CollectionMoves
  BY <1>23 DEF CollectCheck
<1>24. ASSUME NEW h \in Shas, CollectUnlink(h) PROVE CollectionMoves
  BY <1>24 DEF CollectUnlink
<1>25. ASSUME NEW h \in Shas, BeginCollect(h) PROVE CollectionMoves
  BY <1>25 DEF BeginCollect
<1>26. ASSUME NEW h \in Shas, CommitCollect(h) PROVE CollectionMoves
  <2>1. gc[h] = "collecting"
    BY <1>26, TransactionFields DEF CommitCollect, Exclusive
  <2> QED
    BY <1>26, <2>1 DEF CommitCollect
<1>27. ASSUME NEW h \in Shas, RejectCollect(h) PROVE CollectionMoves
  BY <1>27 DEF RejectCollect
<1>28. ASSUME NEW h \in Shas, BeginPull(h) PROVE CollectionMoves
  BY <1>28 DEF BeginPull
<1>29. ASSUME NEW h \in Shas, CommitPull(h) PROVE CollectionMoves
  BY <1>29 DEF CommitPull
<1>30. ASSUME NEW h \in Shas, BeginPurge(h) PROVE CollectionMoves
  BY <1>30 DEF BeginPurge
<1>31. ASSUME NEW h \in Shas, CommitPurge(h) PROVE CollectionMoves
  BY <1>31 DEF CommitPurge
<1>32. ASSUME CollectOrphanedBlobs PROVE CollectionMoves
  BY <1>32 DEF CollectOrphanedBlobs
<1>33. ASSUME Rollback PROVE CollectionMoves
  <2>1. gc' = [h \in Shas |-> IF tx.kind = "collect" /\ tx.sha = h THEN "idle" ELSE gc[h]]
    BY <1>33 DEF Rollback, Abandoned
  <2>2. CASE tx.kind = "collect"
    <3>1. \A s \in Stages : tx # IngestTx(s)
      BY <2>2, TransactionFields
    <3>2. pc' = pc
      BY <1>33, <3>1 DEF Rollback, Abandoned, Typed
    <3>3. tx.sha \in Shas
      BY <2>2, TransactionKinds DEF Typed
    <3>4. gc' = [gc EXCEPT ![tx.sha] = "idle"]
      BY <2>1, <2>2, <3>3 DEF Typed
    <3> QED
      BY <1>33, <3>2, <3>3, <3>4 DEF Rollback
  <2>3. CASE tx.kind # "collect"
    BY <2>1, <2>3 DEF Typed
  <2> QED
    BY <2>2, <2>3
<1>34. ASSUME Crash PROVE CollectionMoves
  BY <1>34
<1>35. ASSUME Recover PROVE CollectionMoves
  BY <1>35 DEF Recover
<1>36. ASSUME RecoveryDone PROVE CollectionMoves
  BY <1>36 DEF RecoveryDone
<1>37. CASE UNCHANGED vars
  BY <1>37 DEF vars
<1> QED
  BY <1>1, <1>2, <1>3, <1>4, <1>5, <1>6, <1>7, <1>8, <1>9, <1>10, <1>11, <1>12, <1>13, <1>14,
     <1>15, <1>16, <1>17, <1>18, <1>19, <1>20, <1>21, <1>22, <1>23, <1>24, <1>25, <1>26, <1>27,
     <1>28, <1>29, <1>30, <1>31, <1>32, <1>33, <1>34, <1>35, <1>36, <1>37
  DEF Next, StageStep, JournalStep, CollectStep, RowStep

-----------------------------------------------------------------------------
(* The two counters.                                                       *)

\* Moving one call changes a count by at most one.
LEMMA CountMoves ==
  ASSUME pc \in [Stages -> Progress], NEW s \in Stages, NEW q \in Progress, Moves(s, q),
         NEW T \in SUBSET Stages, NEW P
  PROVE  /\ Count(T, P) \in Nat
         /\ Count(T, P)' = IF s \notin T \/ (pc[s] \in P <=> q \in P) THEN Count(T, P)
                           ELSE IF q \in P THEN Count(T, P) + 1 ELSE Count(T, P) - 1
<1>1. IsFiniteSet(T) /\ IsFiniteSet(At(T, P))
  BY FS_Subset DEF At
<1>2. Count(T, P) \in Nat
  BY <1>1, FS_CardinalityType DEF Count
<1>3. CASE s \notin T \/ (pc[s] \in P <=> q \in P)
  <2>1. At(T, P)' = At(T, P)
    BY <1>3 DEF At, Moves
  <2> QED
    BY <1>2, <1>3, <2>1 DEF Count
<1>4. CASE s \in T /\ pc[s] \notin P /\ q \in P
  <2>1. At(T, P)' = At(T, P) \cup {s} /\ s \notin At(T, P)
    BY <1>4 DEF At, Moves
  <2> QED
    BY <1>1, <1>2, <1>4, <2>1, FS_AddElement DEF Count
<1>5. CASE s \in T /\ pc[s] \in P /\ q \notin P
  <2>1. At(T, P)' = At(T, P) \ {s} /\ s \in At(T, P)
    BY <1>5 DEF At, Moves
  <2>2. Cardinality(At(T, P) \ {s}) = Cardinality(At(T, P)) - 1
    BY <1>1, <2>1, FS_RemoveElement
  <2> QED
    BY <1>2, <1>5, <2>1, <2>2 DEF Count
<1> QED
  BY <1>3, <1>4, <1>5

\* The reservations, receipts and pins follow the calls.
LEMMA CountedNext ==
  ASSUME Tables, Counted, [Next]_vars
  PROVE  Counted'
<1>1. pc \in [Stages -> Progress] /\ reserved \in Int /\ pins \in [Shas -> Int]
  BY DEF Tables, Typed
<1>2. CASE UNCHANGED registry
  BY <1>2 DEF Counted, Count, At, registry
<1>3. CASE Crash
  <2>1. \A s \in Stages : pc'[s] = "idle"
    BY <1>3 DEF Crash
  <2>2. /\ At(Stages, Reserving)' = {} /\ At(Stages, Held)' = {}
        /\ \A h \in Shas : At(StagesOf(h), Progress \ {"idle"})' = {}
    BY <2>1 DEF At, Reserving, Held, StagesOf
  <2>3. /\ Count(Stages, Reserving)' = 0 /\ Count(Stages, Held)' = 0
        /\ \A h \in Shas : Count(StagesOf(h), Progress \ {"idle"})' = 0
    BY <2>2, FS_EmptySet DEF Count
  <2>4. reserved' = 0 /\ pins' = [h \in Shas |-> 0]
    BY <1>3 DEF Crash
  <2> QED
    BY <2>3, <2>4 DEF Counted
<1>4. ASSUME NEW s \in Stages, Moved(s) PROVE Counted'
  <2> DEFINE q == pc'[s]
  <2>1. q \in Progress /\ Moves(s, q)
    BY <1>1, <1>4 DEF Moved, Moves, Progress, Reserving, Held
  <2>2. /\ Count(Stages, Reserving) \in Nat
        /\ Count(Stages, Reserving)' =
             IF pc[s] \in Reserving <=> q \in Reserving THEN Count(Stages, Reserving)
             ELSE IF q \in Reserving THEN Count(Stages, Reserving) + 1
             ELSE Count(Stages, Reserving) - 1
    BY <1>1, <2>1, CountMoves
  <2>3. /\ Count(Stages, Held) \in Nat
        /\ Count(Stages, Held)' =
             IF pc[s] \in Held <=> q \in Held THEN Count(Stages, Held)
             ELSE IF q \in Held THEN Count(Stages, Held) + 1 ELSE Count(Stages, Held) - 1
    BY <1>1, <2>1, CountMoves
  <2>4. HasCapacity => Count(Stages, Held) + reserved < MaxReceipts
    BY DEF HasCapacity, Entries, Count, At
  <2>5. /\ reserved' = Count(Stages, Reserving)'
        /\ Count(Stages, Held)' + reserved' <= MaxReceipts
    BY <1>1, <1>4, <2>1, <2>2, <2>3, <2>4 DEF Counted, Moved, Moves, Reserving, Held
  <2>6. ASSUME NEW h \in Shas
        PROVE  pins'[h] = Count(StagesOf(h), Progress \ {"idle"})'
    <3> DEFINE n == Count(StagesOf(h), Progress \ {"idle"})
    <3>1. s \in StagesOf(h) <=> ShaOf[s] = h
      BY DEF StagesOf
    <3>2. n' = IF ShaOf[s] # h \/ (pc[s] # "idle" <=> q # "idle") THEN n
               ELSE IF q # "idle" THEN n + 1 ELSE n - 1
      BY <1>1, <2>1, <3>1, CountMoves DEF StagesOf
    <3>3. pins[h] = n
      BY DEF Counted
    <3> HIDE DEF n
    <3>4. pins'[h] = n'
      BY <1>1, <1>4, <2>1, <3>2, <3>3 DEF Moved, Moves, Pins, Reserving, Held
    <3> QED
      BY <3>4 DEF n
  <2> QED
    BY <2>5, <2>6 DEF Counted
<1> QED
  BY <1>2, <1>3, <1>4, OneCallMoves DEF StageMoves

-----------------------------------------------------------------------------
(* Collection and staging exclude each other.                              *)

\* A hash that is not pinned has no call in progress.
LEMMA Unpinned ==
  ASSUME Tables, Counted, NEW h \in Shas, pins[h] = 0, NEW s \in StagesOf(h)
  PROVE  pc[s] = "idle"
<1> DEFINE A == At(StagesOf(h), Progress \ {"idle"})
<1>1. A \in SUBSET Stages /\ IsFiniteSet(A)
  BY FS_Subset DEF At, StagesOf
<1>2. Cardinality(A) = 0
  BY DEF Counted, Count
<1>3. A = {}
  BY <1>1, <1>2, FS_EmptySet
<1> QED
  BY <1>3 DEF At, Tables, Typed, StagesOf

\* While a hash is collected its calls wait.
LEMMA QuietNext ==
  ASSUME Tables, Counted, Quiet, [Next]_vars
  PROVE  Quiet'
<1>1. pc \in [Stages -> Progress] /\ gc \in [Shas -> {"idle", "collecting", "settling"}]
  BY DEF Tables, Typed
<1>2. CASE Crash
  BY <1>2 DEF Quiet, Crash
<1>3. CASE UNCHANGED <<pc, gc>>
  BY <1>3 DEF Quiet
<1>4. ASSUME NEW s \in Stages, Moved(s), UNCHANGED gc PROVE Quiet'
  BY <1>1, <1>4 DEF Quiet, Moved, Moves, Held
<1>5. ASSUME UNCHANGED pc, NEW h \in Shas,
             \/ gc[h] = "idle" /\ gc' = [gc EXCEPT ![h] = "collecting"] /\ Collectable(h)
             \/ gc[h] = "collecting" /\ gc' = [gc EXCEPT ![h] = "settling"]
             \/ gc' = [gc EXCEPT ![h] = "idle"]
      PROVE  Quiet'
  <2>1. Collectable(h) => \A s \in Stages : ShaOf[s] = h => pc[s] = "idle"
    BY Unpinned DEF Collectable, StagesOf
  <2> QED
    BY <1>1, <1>5, <2>1 DEF Quiet
<1> QED
  BY <1>2, <1>3, <1>4, <1>5, OneCallMoves, OneCollectionMoves
  DEF StageMoves, CollectionMoves, registry

-----------------------------------------------------------------------------
(* The open transaction.                                                   *)

\* The open transaction keeps its owner until it ends.
LEMMA ExclusiveNext ==
  ASSUME Tables, [Next]_vars
  PROVE  Exclusive'
<1> USE DEF Exclusive, registry, collector, database
<1>0. /\ Typed /\ RequestsAwaited /\ Exclusive /\ pc \in [Stages -> Progress]
      /\ gc \in [Shas -> {"idle", "collecting", "settling"}]
  BY DEF Tables, Typed
<1>1. ASSUME NEW s \in Stages, Stage(s) PROVE Exclusive'
  BY <1>0, <1>1 DEF Stage
<1>2. ASSUME NEW s \in Stages, RecordStage(s) PROVE Exclusive'
  BY <1>0, <1>2 DEF RecordStage
<1>3. ASSUME NEW s \in Stages, WriteBlob(s) PROVE Exclusive'
  BY <1>0, <1>3 DEF WriteBlob
<1>4. ASSUME NEW s \in Stages, WriteFails(s) PROVE Exclusive'
  BY <1>0, <1>4 DEF WriteFails
<1>5. ASSUME NEW s \in Stages, Retire(s) PROVE Exclusive'
  BY <1>0, <1>5 DEF Retire
<1>6. ASSUME NEW s \in Stages, Claim(s) PROVE Exclusive'
  BY <1>0, <1>6 DEF Claim
<1>7. ASSUME NEW s \in Stages, VerifyClaim(s) PROVE Exclusive'
  BY <1>0, <1>7 DEF VerifyClaim
<1>8. ASSUME NEW s \in Stages, ReleaseClaim(s) PROVE Exclusive'
  BY <1>0, <1>8 DEF ReleaseClaim
<1>9. ASSUME NEW s \in Stages, Consume(s) PROVE Exclusive'
  BY <1>0, <1>9 DEF Consume
<1>10. ASSUME NEW s \in Stages, BeginIngest(s) PROVE Exclusive'
  BY <1>0, <1>10, TransactionFields DEF BeginIngest, Begin
<1>11. ASSUME NEW s \in Stages, CommitIngest(s) PROVE Exclusive'
  <2>1. tx' = NoTx
    BY <1>0, <1>11 DEF CommitIngest
  <2> QED
    BY <2>1, TransactionFields
<1>12. ASSUME NEW s \in Stages, RejectIngest(s) PROVE Exclusive'
  BY <1>0, <1>12, TransactionFields DEF RejectIngest
<1>13. ASSUME JournalRecord PROVE Exclusive'
  <2>1. pc[NextRequest.stage] = "recording"
    BY <1>0, <1>13, Taken, HeadAwaited DEF JournalRecord
  <2> QED
    BY <1>0, <1>13, <2>1 DEF JournalRecord
<1>14. ASSUME JournalRecordFails PROVE Exclusive'
  <2>1. pc[NextRequest.stage] = "recording"
    BY <1>0, <1>14, Taken, HeadAwaited DEF JournalRecordFails
  <2> QED
    BY <1>0, <1>14, <2>1 DEF JournalRecordFails
<1>15. ASSUME JournalOrphan PROVE Exclusive'
  <2>1. pc[NextRequest.stage] \in {"failing", "retiring"}
    BY <1>0, <1>15, Taken, HeadAwaited DEF JournalOrphan
  <2> QED
    BY <1>0, <1>15, <2>1 DEF JournalOrphan, Orphaned
<1>16. ASSUME JournalOrphanFails PROVE Exclusive'
  <2>1. pc[NextRequest.stage] \in {"failing", "retiring"}
    BY <1>0, <1>16, Taken, HeadAwaited DEF JournalOrphanFails
  <2> QED
    <3>1. /\ pc[NextRequest.stage] # "ingesting"
          /\ \E q : pc' = [pc EXCEPT ![NextRequest.stage] = q]
      BY <1>16, <2>1 DEF JournalOrphanFails
    <3>2. UNCHANGED <<gc, tx, poisoned, refs>>
      BY <1>16 DEF JournalOrphanFails
    <3> QED
      BY <1>0, <3>1, <3>2
<1>17. ASSUME JournalCommit PROVE Exclusive'
  BY <1>0, <1>17 DEF JournalCommit
<1>18. ASSUME JournalCommitFails PROVE Exclusive'
  BY <1>0, <1>18 DEF JournalCommitFails
<1>19. ASSUME JournalClear PROVE Exclusive'
  <2>1. gc[NextRequest.sha] = "settling"
    BY <1>0, <1>19, Taken, HeadAwaited DEF JournalClear
  <2> QED
    BY <1>0, <1>19, <2>1 DEF JournalClear
<1>20. ASSUME JournalClearFails PROVE Exclusive'
  <2>1. gc[NextRequest.sha] = "settling"
    BY <1>0, <1>20, Taken, HeadAwaited DEF JournalClearFails
  <2> QED
    BY <1>0, <1>20, <2>1 DEF JournalClearFails
<1>21. ASSUME NEW h \in Shas, StartCollection(h) PROVE Exclusive'
  BY <1>0, <1>21 DEF StartCollection
<1>22. ASSUME NEW h \in Shas, SkipCollection(h) PROVE Exclusive'
  BY <1>0, <1>22 DEF SkipCollection
<1>23. ASSUME NEW h \in Shas, CollectCheck(h) PROVE Exclusive'
  BY <1>0, <1>23, TransactionFields DEF CollectCheck, Referenced
<1>24. ASSUME NEW h \in Shas, CollectUnlink(h) PROVE Exclusive'
  BY <1>0, <1>24, TransactionFields DEF CollectUnlink
<1>25. ASSUME NEW h \in Shas, BeginCollect(h) PROVE Exclusive'
  BY <1>0, <1>25, TransactionFields DEF BeginCollect, Begin
<1>26. ASSUME NEW h \in Shas, CommitCollect(h) PROVE Exclusive'
  <2>1. tx' = NoTx
    BY <1>0, <1>26 DEF CommitCollect
  <2> QED
    BY <2>1, TransactionFields
<1>27. ASSUME NEW h \in Shas, RejectCollect(h) PROVE Exclusive'
  BY <1>0, <1>27, TransactionFields DEF RejectCollect
<1>28. ASSUME NEW h \in Shas, BeginPull(h) PROVE Exclusive'
  BY <1>0, <1>28, TransactionFields DEF BeginPull, Begin
<1>29. ASSUME NEW h \in Shas, CommitPull(h) PROVE Exclusive'
  <2>1. tx' = NoTx
    BY <1>0, <1>29 DEF CommitPull
  <2> QED
    BY <2>1, TransactionFields
<1>30. ASSUME NEW h \in Shas, BeginPurge(h) PROVE Exclusive'
  BY <1>0, <1>30, TransactionFields DEF BeginPurge, Begin
<1>31. ASSUME NEW h \in Shas, CommitPurge(h) PROVE Exclusive'
  <2>1. tx' = NoTx
    BY <1>0, <1>31 DEF CommitPurge
  <2> QED
    BY <2>1, TransactionFields
<1>32. ASSUME CollectOrphanedBlobs PROVE Exclusive'
  BY <1>0, <1>32 DEF CollectOrphanedBlobs
<1>33. ASSUME Rollback PROVE Exclusive'
  <2>1. tx' = NoTx
    BY <1>0, <1>33 DEF Rollback
  <2> QED
    BY <2>1, TransactionFields
<1>34. ASSUME Crash PROVE Exclusive'
  <2>1. tx' = NoTx
    BY <1>34 DEF Crash
  <2> QED
    BY <2>1, TransactionFields
<1>35. ASSUME Recover PROVE Exclusive'
  BY <1>0, <1>35 DEF Recover
<1>36. ASSUME RecoveryDone PROVE Exclusive'
  BY <1>0, <1>36 DEF RecoveryDone
<1>37. CASE UNCHANGED vars
  BY <1>0, <1>37 DEF vars
<1> QED
  BY <1>1, <1>2, <1>3, <1>4, <1>5, <1>6, <1>7, <1>8, <1>9, <1>10, <1>11, <1>12, <1>13, <1>14,
     <1>15, <1>16, <1>17, <1>18, <1>19, <1>20, <1>21, <1>22, <1>23, <1>24, <1>25, <1>26, <1>27,
     <1>28, <1>29, <1>30, <1>31, <1>32, <1>33, <1>34, <1>35, <1>36, <1>37
  DEF Next, StageStep, JournalStep, CollectStep, RowStep

-----------------------------------------------------------------------------
(* The journal's queue.                                                    *)

\* A hash with a row, or whose last row was purged, stays one of the two.
LEMMA KeptStays ==
  ASSUME [Next]_vars, NEW h, Kept(h)
  PROVE  Kept(h)'
<1>1. CASE UNCHANGED <<refs, erased>>
  BY <1>1 DEF Kept
<1>2. ASSUME NEW s \in Stages, CommitIngest(s) PROVE Kept(h)'
  BY <1>2 DEF Kept, CommitIngest
<1>3. ASSUME NEW g \in Shas, CommitPull(g) PROVE Kept(h)'
  BY <1>3 DEF Kept, CommitPull
<1>4. ASSUME NEW g \in Shas, CommitPurge(g) PROVE Kept(h)'
  BY <1>4 DEF Kept, CommitPurge
<1> QED
  BY <1>1, <1>2, <1>3, <1>4
  DEF Next, StageStep, JournalStep, CollectStep, RowStep, vars, database, Stage, RecordStage,
       WriteBlob, WriteFails, Retire, Claim, VerifyClaim, ReleaseClaim, Consume, BeginIngest,
       RejectIngest, JournalRecord, JournalRecordFails, JournalOrphan, JournalOrphanFails,
       JournalCommit, JournalCommitFails, JournalClear, JournalClearFails, StartCollection,
       SkipCollection, CollectCheck, CollectUnlink, BeginCollect, CommitCollect, RejectCollect,
       BeginPull, BeginPurge, CollectOrphanedBlobs, Rollback, Crash, Recover, RecoveryDone

\* A request that is queued: somebody awaits it from now on, and it settles no
\* stage of a hash that is being cleared.
Queued(r) ==
  /\ Request(r)
  /\ Awaited(r)'
  /\ r.op # "commit" => ~Awaited(r)
  /\ r.op = "commit" => gc[ShaOf[r.stage]] = "idle"

\* The calls that queue a request.
LEMMA QueuedByCalls ==
  ASSUME Tables, Quiet, Decided, NEW s \in Stages,
         RecordStage(s) \/ WriteFails(s) \/ Retire(s) \/ Consume(s)
  PROVE  \E r \in Operations : Queued(r)
<1>0. pc \in [Stages -> Progress]
  BY DEF Tables, Typed
<1>1. CASE RecordStage(s)
  <2>1. pc[s] = "waiting" /\ pc'[s] = "recording" /\ Request(RecordOp(s))
    BY <1>0, <1>1 DEF RecordStage
  <2> QED
    BY <2>1, RequestFields DEF Queued, Awaited
<1>2. CASE WriteFails(s) \/ Retire(s)
  <2>1. pc[s] \in {"writing", "live"} /\ pc'[s] \in {"failing", "retiring"} /\ Request(OrphanOp(s))
    BY <1>0, <1>2 DEF WriteFails, Retire
  <2> QED
    BY <2>1, RequestFields DEF Queued, Awaited
<1>3. CASE Consume(s)
  <2>1. pc[s] = "committed" /\ Request(CommitOp(s)) /\ UNCHANGED <<refs, erased>>
    BY <1>3 DEF Consume, database
  <2>2. Kept(ShaOf[s])'
    BY <2>1 DEF Decided, Kept
  <2>3. gc[ShaOf[s]] = "idle"
    BY <2>1 DEF Quiet
  <2> QED
    BY <2>1, <2>2, <2>3, RequestFields DEF Queued, Awaited
<1> QED
  BY <1>1, <1>2, <1>3

\* The collection that queues a request.
LEMMA QueuedByCollection ==
  ASSUME Tables, NEW h \in Shas, CommitCollect(h)
  PROVE  \E r \in Operations : Queued(r)
<1>1. gc[h] = "collecting"
  BY TransactionFields DEF CommitCollect, Tables, Exclusive
<1>2. gc'[h] = "settling" /\ Request(ClearOp(h))
  BY DEF CommitCollect, Tables, Typed
<1> QED
  BY <1>1, <1>2, RequestFields DEF Queued, Awaited

\* What a step does to the journal's queue.
LEMMA QueueMoves ==
  ASSUME Tables, Quiet, Decided, [Next]_vars
  PROVE  \/ UNCHANGED requests
         \/ Crash
         \/ \E op : Doing(op)
         \/ \E r \in Operations : Queued(r)
<1>1. CASE JournalStep
  BY <1>1 DEF JournalStep, JournalRecord, JournalRecordFails, JournalOrphan, JournalOrphanFails,
     JournalCommit, JournalCommitFails, JournalClear, JournalClearFails
<1> QED
  BY <1>1, QueuedByCalls, QueuedByCollection
  DEF Next, StageStep, CollectStep, RowStep, vars, Stage, WriteBlob, Claim, VerifyClaim,
       ReleaseClaim, BeginIngest, CommitIngest, RejectIngest, StartCollection, SkipCollection,
       CollectCheck, CollectUnlink, BeginCollect, RejectCollect, BeginPull, CommitPull,
       BeginPurge, CommitPurge, CollectOrphanedBlobs, Rollback, Recover, RecoveryDone

\* What r waits for is untouched by a step that does not end it.
Undisturbed(r) ==
  /\ r.op \in {"record", "orphan"} => pc'[r.stage] = pc[r.stage]
  /\ r.op = "clear" => gc'[r.sha] = gc[r.sha]

\* Only the journal changes a call or a collection that awaits it.
LEMMA AwaitedStays ==
  ASSUME Tables, [Next]_vars, ~Crash, NEW r \in Operations, Awaited(r),
         ~ (\E op : Doing(op) /\ r = NextRequest /\ op # "commit")
  PROVE  Undisturbed(r)
<1> USE DEF Undisturbed, collector
<1>0. /\ Typed /\ pc \in [Stages -> Progress]
      /\ gc \in [Shas -> {"idle", "collecting", "settling"}]
      /\ r.op \in {"record", "orphan"} =>
           r.stage \in Stages /\ pc[r.stage] \in {"recording", "failing", "retiring"}
      /\ r.op = "clear" => r.sha \in Shas /\ gc[r.sha] = "settling"
  BY RequestKinds DEF Tables, Typed, Awaited
<1>1. CASE UNCHANGED <<pc, gc>>
  BY <1>1
<1>2. ASSUME NEW s \in Stages, pc[s] \notin {"recording", "failing", "retiring"},
             NEW q, pc' = [pc EXCEPT ![s] = q], UNCHANGED gc
      PROVE  Undisturbed(r)
  BY <1>0, <1>2
<1>3. ASSUME NEW h \in Shas, gc[h] # "settling",
             NEW q, gc' = [gc EXCEPT ![h] = q], UNCHANGED pc
      PROVE  Undisturbed(r)
  BY <1>0, <1>3
<1>4. ASSUME NEW s \in Stages, StageStep(s) PROVE Undisturbed(r)
  <2>1. CASE CommitIngest(s)
    <3>1. pc[s] = "ingesting"
      BY <2>1, TransactionFields DEF CommitIngest, Tables, Exclusive
    <3> QED
      BY <1>2, <2>1, <3>1 DEF CommitIngest
  <2>2. CASE BeginIngest(s)
    BY <1>1, <2>2 DEF BeginIngest, registry
  <2>3. CASE Stage(s) \/ RecordStage(s) \/ WriteBlob(s) \/ WriteFails(s) \/ Retire(s)
    BY <1>2, <2>3 DEF Stage, RecordStage, WriteBlob, WriteFails, Retire
  <2>4. CASE Claim(s) \/ VerifyClaim(s) \/ ReleaseClaim(s) \/ Consume(s) \/ RejectIngest(s)
    BY <1>2, <2>4 DEF Claim, VerifyClaim, ReleaseClaim, Consume, RejectIngest
  <2> QED
    BY <1>4, <2>1, <2>2, <2>3, <2>4 DEF StageStep
<1>5. ASSUME NEW h \in Shas, CollectStep(h) PROVE Undisturbed(r)
  <2>1. CASE CommitCollect(h)
    <3>1. gc[h] = "collecting"
      BY <2>1, TransactionFields DEF CommitCollect, Tables, Exclusive
    <3> QED
      BY <1>3, <2>1, <3>1 DEF CommitCollect, registry
  <2>2. CASE StartCollection(h) \/ RejectCollect(h)
    BY <1>3, <2>2 DEF StartCollection, RejectCollect, registry
  <2>3. CASE SkipCollection(h) \/ CollectCheck(h) \/ CollectUnlink(h) \/ BeginCollect(h)
    BY <1>1, <2>3 DEF SkipCollection, CollectCheck, CollectUnlink, BeginCollect, registry
  <2> QED
    BY <1>5, <2>1, <2>2, <2>3 DEF CollectStep
<1>6. ASSUME NEW op \in {"record", "orphan"}, Doing(op), UNCHANGED gc,
             NEW q, pc' = [pc EXCEPT ![NextRequest.stage] = q]
      PROVE  Undisturbed(r)
  <2>1. /\ NextRequest.stage \in Stages /\ r # NextRequest
        /\ op = "record" => NextRequest = RecordOp(NextRequest.stage)
                             /\ pc[NextRequest.stage] = "recording"
        /\ op = "orphan" => NextRequest = OrphanOp(NextRequest.stage)
                             /\ pc[NextRequest.stage] \in {"failing", "retiring"}
    BY <1>0, <1>6, Taken, HeadAwaited DEF Tables
  <2>2. r.op \in {"record", "orphan"} => r.stage # NextRequest.stage
    BY <2>1, RequestKinds DEF Awaited
  <2> QED
    BY <1>0, <1>6, <2>1, <2>2
<1>7. ASSUME Doing("clear"), UNCHANGED pc, NEW q, gc' = [gc EXCEPT ![NextRequest.sha] = q]
      PROVE  Undisturbed(r)
  <2>1. NextRequest.sha \in Shas /\ r # NextRequest /\ NextRequest = ClearOp(NextRequest.sha)
    BY <1>0, <1>7, Taken, HeadAwaited DEF Tables
  <2> QED
    BY <1>0, <1>7, <2>1, RequestKinds
<1>8. CASE JournalStep
  <2>1. CASE JournalRecord \/ JournalRecordFails \/ JournalOrphan
    BY <1>6, <2>1 DEF JournalRecord, JournalRecordFails, JournalOrphan, Orphaned
  <2>2. CASE JournalOrphanFails
    BY <1>6, <2>2 DEF JournalOrphanFails
  <2>3. CASE JournalClear \/ JournalClearFails
    BY <1>7, <2>3 DEF JournalClear, JournalClearFails, registry
  <2>4. CASE JournalCommit \/ JournalCommitFails
    BY <1>1, <2>4 DEF JournalCommit, JournalCommitFails, registry
  <2> QED
    BY <1>8, <2>1, <2>2, <2>3, <2>4 DEF JournalStep
<1>9. CASE Rollback
  <2>1. /\ tx.kind = "ingest" => pc[tx.stage] = "ingesting"
        /\ tx.kind = "collect" => gc[tx.sha] = "collecting"
    BY DEF Tables, Exclusive
  <2>2. /\ \A s \in Stages : pc'[s] = IF tx = IngestTx(s) THEN "live" ELSE pc[s]
        /\ \A h \in Shas : gc'[h] = IF tx.kind = "collect" /\ tx.sha = h THEN "idle" ELSE gc[h]
    BY <1>9 DEF Rollback, Abandoned
  <2> QED
    BY <1>0, <2>1, <2>2, TransactionFields
<1> QED
  BY <1>1, <1>4, <1>5, <1>8, <1>9
     DEF Next, RowStep, BeginPull, CommitPull, BeginPurge, CommitPurge, CollectOrphanedBlobs, Recover,
         RecoveryDone, vars, registry

\* Every request is still awaited, and still in order.
LEMMA RequestsNext ==
  ASSUME Tables, Quiet, Decided, [Next]_vars
  PROVE  RequestsAwaited' /\ RequestsOrdered'
<1>0. /\ Typed /\ RequestsAwaited /\ RequestsOrdered /\ requests \in Seq(Operations)
      /\ DOMAIN requests = 1 .. Len(requests) /\ Len(requests) \in Nat
      /\ \A i \in DOMAIN requests : requests[i] \in Operations
  BY DEF Tables, Typed
<1>1. ASSUME NEW r \in Operations, Awaited(r), ~Crash,
             ~ (\E op : Doing(op) /\ r = NextRequest /\ op # "commit")
      PROVE  Awaited(r)'
  BY <1>1, AwaitedStays, KeptStays DEF Undisturbed, Awaited
<1>2. CASE Crash
  BY <1>2 DEF Crash, RequestsAwaited, RequestsOrdered
<1>3. CASE UNCHANGED requests /\ ~Crash
  <2>1. ~ (\E op : Doing(op))
    <3> SUFFICES ASSUME NEW op, Doing(op) PROVE FALSE
      OBVIOUS
    <3>1. 1 \in DOMAIN requests /\ DOMAIN requests' = 1 .. Len(requests) - 1
      BY <1>0, Taken
    <3>2. Len(requests) \in DOMAIN requests'
      BY <1>0, <1>3, <3>1
    <3> QED
      BY <1>0, <3>1, <3>2
  <2>2. RequestsOrdered'
    BY <1>0, <1>3 DEF RequestsOrdered
  <2>3. ASSUME NEW i \in DOMAIN requests PROVE Awaited(requests[i])'
    <3>1. PICK r \in Operations : r = requests[i]
      BY <1>0, <2>3
    <3>2. Awaited(r)'
      BY <1>0, <1>1, <1>3, <2>1, <2>3, <3>1 DEF RequestsAwaited
    <3> QED
      BY <1>3, <3>1, <3>2 DEF Awaited
  <2> QED
    BY <1>3, <2>2, <2>3 DEF RequestsAwaited
<1>4. ASSUME NEW op, Doing(op), ~Crash PROVE RequestsAwaited' /\ RequestsOrdered'
  <2>1. /\ NextRequest = requests[1] /\ NextRequest.op = op /\ 1 \in DOMAIN requests
        /\ DOMAIN requests' = 1 .. Len(requests) - 1
        /\ \A i \in DOMAIN requests' : i + 1 \in DOMAIN requests /\ requests'[i] = requests[i + 1]
    BY <1>0, <1>4, Taken
  <2>2. ASSUME NEW i \in DOMAIN requests' PROVE Awaited(requests[i])'
    <3>1. requests'[i] \in Operations /\ Awaited(requests'[i])
      BY <1>0, <2>1, <2>2 DEF RequestsAwaited
    <3>2. ASSUME NEW o, Doing(o), requests'[i] = NextRequest, o # "commit" PROVE FALSE
      <4>1. NextRequest.op = o
        BY <3>2 DEF Doing
      <4>2. requests[i + 1] = requests[1] /\ requests[i + 1].op # "commit" /\ i \in Nat
        BY <2>1, <2>2, <3>2, <4>1
      <4>3. i + 1 = 1
        BY <1>0, <2>1, <2>2, <4>2 DEF RequestsOrdered
      <4> QED
        BY <2>1, <2>2, <4>3
    <3>3. PICK r \in Operations : r = requests'[i]
      BY <3>1
    <3>4. Awaited(r)'
      BY <1>1, <1>4, <3>1, <3>2, <3>3
    <3> QED
      BY <3>3, <3>4 DEF Awaited
  <2>3. RequestsOrdered'
    <3> SUFFICES ASSUME NEW i \in DOMAIN requests', NEW j \in DOMAIN requests'
                 PROVE  /\ requests'[i] = requests'[j] /\ requests'[i].op # "commit" => i = j
                        /\ requests'[i].op = "clear" /\ requests'[j].op = "commit"
                             /\ ShaOf[requests'[j].stage] = requests'[i].sha => j < i
      BY DEF RequestsOrdered
    <3>1. i \in Int /\ j \in Int /\ i + 1 \in DOMAIN requests /\ j + 1 \in DOMAIN requests
          /\ requests'[i] = requests[i + 1] /\ requests'[j] = requests[j + 1]
      BY <1>0, <2>1
    <3> QED
      BY <1>0, <3>1 DEF RequestsOrdered
  <2> QED
    BY <2>2, <2>3 DEF RequestsAwaited
<1>5. ASSUME NEW r \in Operations, Queued(r), ~Crash PROVE RequestsAwaited' /\ RequestsOrdered'
  <2>1. /\ requests'[Len(requests) + 1] = r
        /\ \A i \in DOMAIN requests : requests'[i] = requests[i]
        /\ DOMAIN requests' = 1 .. Len(requests) + 1
        /\ \A i \in DOMAIN requests' : i \in DOMAIN requests \/ i = Len(requests) + 1
    BY <1>0, <1>5, Appended DEF Queued
  <2>2. ~ (\E op : Doing(op))
    <3> SUFFICES ASSUME NEW op, Doing(op) PROVE FALSE
      OBVIOUS
    <3>1. 1 \in DOMAIN requests /\ DOMAIN requests' = 1 .. Len(requests) - 1
      BY <1>0, Taken
    <3>2. Len(requests) \in DOMAIN requests'
      BY <1>0, <2>1, <3>1
    <3> QED
      BY <1>0, <3>1, <3>2
  <2>3. RequestsAwaited'
    <3>1. ASSUME NEW i \in DOMAIN requests PROVE Awaited(requests[i])'
      <4>1. PICK q \in Operations : q = requests[i]
        BY <1>0, <3>1
      <4>2. Awaited(q)'
        BY <1>0, <1>1, <1>5, <2>2, <3>1, <4>1 DEF RequestsAwaited
      <4> QED
        BY <2>1, <3>1, <4>1, <4>2 DEF Awaited
    <3>2. ASSUME NEW i \in DOMAIN requests', i = Len(requests) + 1 PROVE Awaited(requests[i])'
      BY <1>5, <2>1, <3>2 DEF Queued, Awaited
    <3> QED
      BY <2>1, <3>1, <3>2 DEF RequestsAwaited
  <2>4. \A i \in DOMAIN requests : requests[i] = r => r.op = "commit"
    BY <1>0, <1>5 DEF Queued, RequestsAwaited
  <2>5. ASSUME r.op = "commit", NEW i \in DOMAIN requests, requests[i].op = "clear"
        PROVE  ShaOf[r.stage] # requests[i].sha
    BY <1>0, <1>5, <2>5 DEF Queued, RequestsAwaited, Awaited
  <2>6. RequestsOrdered'
    BY <1>0, <2>1, <2>4, <2>5 DEF RequestsOrdered
  <2> QED
    BY <2>3, <2>6
<1> QED
  BY <1>2, <1>3, <1>4, <1>5, QueueMoves

-----------------------------------------------------------------------------
(* Blobs.                                                                  *)

\* Only a call that writes adds a blob, only a collection removes one.
LEMMA FilesMove ==
  ASSUME [Next]_vars
  PROVE  \/ UNCHANGED files
         \/ \E s \in Stages :
              pc[s] = "writing" /\ files' \subseteq files \cup {ShaOf[s]} /\ files \subseteq files'
         \/ \E h \in Shas : CollectUnlink(h)
<1>1. ASSUME NEW s \in Stages, WriteBlob(s) \/ WriteFails(s)
      PROVE  pc[s] = "writing" /\ files' \subseteq files \cup {ShaOf[s]} /\ files \subseteq files'
  BY <1>1 DEF WriteBlob, WriteFails
<1> QED
  BY <1>1
  DEF Next, StageStep, JournalStep, CollectStep, RowStep, vars, Stage, RecordStage, Retire, Claim,
       VerifyClaim, ReleaseClaim, Consume, BeginIngest, CommitIngest, RejectIngest, JournalRecord,
       JournalRecordFails, JournalOrphan, JournalOrphanFails, JournalCommit, JournalCommitFails,
       JournalClear, JournalClearFails, StartCollection, SkipCollection, CollectCheck,
       BeginCollect, CommitCollect, RejectCollect, BeginPull, CommitPull, BeginPurge, CommitPurge,
       CollectOrphanedBlobs, Rollback, Crash, Recover, RecoveryDone

\* A hash that is being collected gets no blob.
LEMMA CollectedGetsNoBlob ==
  ASSUME Tables, Quiet, [Next]_vars, NEW h \in Shas, gc[h] # "idle", h \in files'
  PROVE  h \in files
<1>1. \A s \in Stages : pc[s] = "writing" => ShaOf[s] # h
  BY DEF Quiet
<1>2. ASSUME NEW g \in Shas, CollectUnlink(g) PROVE h \in files
  BY <1>2 DEF CollectUnlink
<1> QED
  BY <1>1, <1>2, FilesMove

\* A collection is carried out by finding a row or by removing the blob.
LEMMA CollectionEnds ==
  ASSUME Tables, [Next]_vars, NEW h \in Shas, tx' = CollectTx(h, "done"), tx # tx'
  PROVE  h \in refs \/ h \notin files'
<1>1. ASSUME NEW g \in Shas, CollectCheck(g) \/ CollectUnlink(g) PROVE h \in refs \/ h \notin files'
  BY <1>1, TransactionFields DEF CollectCheck, CollectUnlink, Referenced
<1>2. tx' # NoTx /\ \A s \in Stages : tx' # IngestTx(s)
  BY TransactionFields
<1>3. \A g \in Shas : tx' # CollectTx(g, "open") /\ tx' # RowTx("pull", g) /\ tx' # RowTx("purge", g)
  BY TransactionFields
<1> QED
  BY <1>1, <1>2, <1>3
  DEF Next, StageStep, JournalStep, CollectStep, RowStep, vars, database, Begin, Stage,
       RecordStage, WriteBlob, WriteFails, Retire, Claim, VerifyClaim, ReleaseClaim, Consume,
       BeginIngest, CommitIngest, RejectIngest, JournalRecord, JournalRecordFails, JournalOrphan,
       JournalOrphanFails, JournalCommit, JournalCommitFails, JournalClear, JournalClearFails,
       StartCollection, SkipCollection, BeginCollect, CommitCollect, RejectCollect, BeginPull,
       CommitPull, BeginPurge, CommitPurge, CollectOrphanedBlobs, Rollback, Crash, Recover,
       RecoveryDone

\* A receipt's blob stays, and nothing is decided that leaves a blob unaccounted for.
LEMMA DecidedNext ==
  ASSUME Tables, Quiet, Decided, [Next]_vars
  PROVE  Decided'
<1>0. pc \in [Stages -> Progress] /\ gc \in [Shas -> {"idle", "collecting", "settling"}]
  BY DEF Tables, Typed
<1>1. ASSUME NEW s \in Stages, pc'[s] = "committed" PROVE Kept(ShaOf[s])'
  <2>1. CASE pc[s] = "committed"
    BY <2>1, KeptStays DEF Decided
  <2>2. CASE pc[s] # "committed"
    <3>1. ~Crash /\ ~UNCHANGED registry
      BY <1>1, <2>2 DEF Crash, registry
    <3>2. Moved(s)
      BY <1>0, <1>1, <2>2, <3>1, OneCallMoves DEF StageMoves, Moved, Moves
    <3>3. ShaOf[s] \in refs'
      BY <1>0, <1>1, <2>2, <3>2 DEF Moved, Moves, Held
    <3> QED
      BY <3>3 DEF Kept
  <2> QED
    BY <2>1, <2>2
<1>2. ASSUME NEW h \in Shas, gc'[h] = "settling" PROVE h \notin files' \/ Kept(h)'
  <2>1. ~Crash
    BY <1>2 DEF Crash
  <2>2. gc[h] = "settling" \/ (gc[h] = "collecting" /\ tx = CollectTx(h, "done"))
    BY <1>0, <1>2, <2>1, OneCollectionMoves DEF CollectionMoves
  <2>3. h \notin files \/ Kept(h)
    BY <2>2, TransactionFields DEF Decided
  <2> QED
    BY <2>2, <2>3, KeptStays, CollectedGetsNoBlob
<1>3. ASSUME tx'.kind = "collect", tx'.phase = "done" PROVE tx'.sha \notin files' \/ Kept(tx.sha)'
  <2>1. Typed'
    BY TypedNext DEF Tables
  <2>2. PICK h \in Shas : tx' = CollectTx(h, "done") /\ tx'.sha = h
    BY <1>3, <2>1, TransactionKinds DEF Typed
  <2>3. CASE tx = tx'
    <3>1. gc[h] = "collecting" /\ (h \notin files \/ Kept(h))
      BY <1>3, <2>2, <2>3 DEF Decided, Tables, Exclusive
    <3>2. h \notin files' \/ Kept(h)'
      BY <3>1, KeptStays, CollectedGetsNoBlob
    <3> QED
      BY <2>2, <3>2 DEF Kept
  <2>4. CASE tx # tx'
    <3>1. h \in refs \/ h \notin files'
      BY <2>2, <2>4, CollectionEnds
    <3>2. h \notin files' \/ Kept(h)'
      BY <3>1, KeptStays DEF Kept
    <3> QED
      BY <2>2, <3>2 DEF Kept
  <2> QED
    BY <2>3, <2>4
<1> QED
  BY <1>1, <1>2, <1>3 DEF Decided

\* No collection removes the bytes under a receipt.
LEMMA ReceiptsNext ==
  ASSUME Tables, Quiet, ReceiptHasBytes, [Next]_vars
  PROVE  ReceiptHasBytes'
<1> SUFFICES ASSUME NEW s \in Stages, pc'[s] \in Held
             PROVE  ShaOf[s] \in files'
  BY DEF ReceiptHasBytes, Entries
<1>0. pc \in [Stages -> Progress]
  BY DEF Tables, Typed
<1>1. CASE pc[s] \in Held
  <2>1. ShaOf[s] \in files /\ gc[ShaOf[s]] = "idle"
    BY <1>1 DEF ReceiptHasBytes, Entries, Quiet, Held
  <2>2. ASSUME NEW h \in Shas, CollectUnlink(h) PROVE ShaOf[s] # h
    BY <2>1, <2>2, TransactionFields DEF CollectUnlink, Tables, Exclusive
  <2>3. ASSUME NEW h \in Shas, CollectUnlink(h) PROVE ShaOf[s] \in files'
    BY <2>1, <2>2, <2>3 DEF CollectUnlink
  <2> QED
    BY <2>1, <2>3, FilesMove
<1>2. CASE pc[s] \notin Held
  <2>1. ~Crash /\ ~UNCHANGED registry
    BY <1>2 DEF Crash, registry, Held
  <2>2. Moved(s)
    BY <1>0, <1>2, <2>1, OneCallMoves DEF StageMoves, Moved, Moves
  <2> QED
    BY <1>0, <1>2, <2>2 DEF Moved, Moves, Held
<1> QED
  BY <1>1, <1>2

-----------------------------------------------------------------------------
(* The journal's counts.                                                   *)

\* The stages of T that the journal counts, and the queued operations that settle
\* a consumed receipt of h.
Recorded == Held \cup {"writing", "failing"}
Settling(h) ==
  {i \in DOMAIN requests : requests[i].op = "commit" /\ ShaOf[requests[i].stage] = h}

Covered(h) == Count(StagesOf(h), Recorded) + Cardinality(Settling(h)) <= staged[h]

\* JournalCoversStages in terms of these counts.
LEMMA CoversAsCounts == JournalCoversStages <=> \A h \in Shas : Covered(h)
BY DEF JournalCoversStages, Covered, Count, At, Settling, Recorded

\* The number of queued operations that settle a receipt is a number.
LEMMA SettlingFinite ==
  ASSUME Typed, NEW h
  PROVE  IsFiniteSet(Settling(h)) /\ Cardinality(Settling(h)) \in Nat
<1>1. Len(requests) \in Nat /\ Settling(h) \in SUBSET (1 .. Len(requests))
  BY DEF Typed, Settling
<1>2. IsFiniteSet(1 .. Len(requests))
  BY <1>1, FS_Interval
<1> QED
  BY <1>1, <1>2, FS_Subset, FS_CardinalityType

\* Taking the oldest request shortens the count only if that request was counted.
LEMMA SettlingTaken ==
  ASSUME Typed, NEW op, Doing(op), NEW h
  PROVE  Cardinality(Settling(h))' =
           IF op = "commit" /\ ShaOf[NextRequest.stage] = h
           THEN Cardinality(Settling(h)) - 1 ELSE Cardinality(Settling(h))
<1> DEFINE S == Settling(h) \ {1}
           T == Settling(h)'
           f == [i \in S |-> i - 1]
<1>1. /\ NextRequest.op = op /\ requests[1] = NextRequest /\ 1 \in DOMAIN requests
      /\ DOMAIN requests = 1 .. Len(requests) /\ DOMAIN requests' = 1 .. Len(requests) - 1
      /\ Len(requests) \in Nat
      /\ \A i \in DOMAIN requests' : i + 1 \in DOMAIN requests /\ requests'[i] = requests[i + 1]
  BY Taken
<1>2. \A i \in S : i \in Nat /\ i - 1 \in T
  BY <1>1 DEF Settling
<1>3. \A j \in T : j \in Nat /\ j + 1 \in S
  BY <1>1 DEF Settling
<1>4. f \in Bijection(S, T)
  <2>1. f \in [S -> T]
    BY <1>2
  <2>2. \A i, j \in S : f[i] = f[j] => i = j
    BY <1>2
  <2>3. \A j \in T : \E i \in S : f[i] = j
    BY <1>3
  <2> QED
    BY <2>1, <2>2, <2>3 DEF Bijection, Injection, Surjection, IsInjective
<1>5. IsFiniteSet(Settling(h)) /\ Cardinality(Settling(h)) \in Nat
  BY SettlingFinite
<1>6. /\ IsFiniteSet(S)
      /\ Cardinality(S) = IF 1 \in Settling(h) THEN Cardinality(Settling(h)) - 1
                          ELSE Cardinality(Settling(h))
  BY <1>5, FS_RemoveElement
<1>7. Cardinality(T) = Cardinality(S)
  BY <1>4, <1>6, FS_Bijection DEF ExistsBijection
<1>8. 1 \in Settling(h) <=> op = "commit" /\ ShaOf[NextRequest.stage] = h
  BY <1>1 DEF Settling
<1> QED
  BY <1>6, <1>7, <1>8

\* Queueing a request lengthens it only if that request is counted.
LEMMA SettlingQueued ==
  ASSUME Typed, NEW r \in Operations, Request(r), NEW h
  PROVE  Cardinality(Settling(h))' =
           IF r.op = "commit" /\ ShaOf[r.stage] = h
           THEN Cardinality(Settling(h)) + 1 ELSE Cardinality(Settling(h))
<1>1. /\ requests'[Len(requests) + 1] = r /\ Len(requests) \in Nat
      /\ \A i \in DOMAIN requests : requests'[i] = requests[i]
      /\ DOMAIN requests = 1 .. Len(requests) /\ DOMAIN requests' = 1 .. Len(requests) + 1
      /\ \A i \in DOMAIN requests' : i \in DOMAIN requests \/ i = Len(requests) + 1
  BY Appended DEF Typed
<1>2. IsFiniteSet(Settling(h)) /\ Len(requests) + 1 \notin Settling(h)
  <2>1. Len(requests) + 1 \notin Settling(h)
    BY <1>1 DEF Settling
  <2> QED
    BY <2>1, SettlingFinite
<1>3. CASE r.op = "commit" /\ ShaOf[r.stage] = h
  <2>1. Settling(h)' = Settling(h) \cup {Len(requests) + 1}
    BY <1>1, <1>3 DEF Settling
  <2> QED
    BY <1>2, <1>3, <2>1, FS_AddElement
<1>4. CASE ~(r.op = "commit" /\ ShaOf[r.stage] = h)
  <2>1. Settling(h)' = Settling(h)
    BY <1>1, <1>4 DEF Settling
  <2> QED
    BY <1>4, <2>1
<1> QED
  BY <1>3, <1>4

\* The stages counted for a hash grow only when one is recorded, and shrink when one ends.
LEMMA RecordedMoves ==
  ASSUME Tables, [Next]_vars, ~Crash, NEW h \in Shas
  PROVE  /\ Count(StagesOf(h), Recorded) \in Nat /\ Count(StagesOf(h), Recorded)' \in Nat
         /\ Count(StagesOf(h), Recorded)' <= Count(StagesOf(h), Recorded) + 1
         /\ (\A s \in StagesOf(h) : ~(pc[s] = "recording" /\ pc'[s] = "writing")) =>
              Count(StagesOf(h), Recorded)' <= Count(StagesOf(h), Recorded)
         /\ (\E s \in StagesOf(h) : pc[s] \in Recorded /\ pc'[s] = "idle") =>
              Count(StagesOf(h), Recorded)' = Count(StagesOf(h), Recorded) - 1
<1> DEFINE n == Count(StagesOf(h), Recorded)
<1>0. pc \in [Stages -> Progress] /\ StagesOf(h) \in SUBSET Stages
  BY DEF Tables, Typed, StagesOf
<1>1. CASE UNCHANGED registry
  <2>1. n' = n /\ UNCHANGED pc
    BY <1>1 DEF Count, At, registry
  <2>2. IsFiniteSet(At(StagesOf(h), Recorded))
    BY <1>0, FS_Subset DEF At
  <2>3. n \in Nat
    BY <2>2, FS_CardinalityType DEF Count
  <2> QED
    BY <1>0, <2>1, <2>3 DEF Recorded, Held
<1>2. ASSUME NEW s \in Stages, Moved(s)
      PROVE  /\ n \in Nat /\ n' \in Nat /\ n' <= n + 1
             /\ (\A t \in StagesOf(h) : ~(pc[t] = "recording" /\ pc'[t] = "writing")) => n' <= n
             /\ (\E t \in StagesOf(h) : pc[t] \in Recorded /\ pc'[t] = "idle") => n' = n - 1
  <2> DEFINE q == pc'[s]
  <2>1. q \in Progress /\ Moves(s, q)
    BY <1>0, <1>2 DEF Moved, Moves, Progress, Reserving, Held
  <2>2. n \in Nat /\ n' = IF s \notin StagesOf(h) \/ (pc[s] \in Recorded <=> q \in Recorded) THEN n
                          ELSE IF q \in Recorded THEN n + 1 ELSE n - 1
    BY <1>0, <2>1, CountMoves
  <2>3. n' \in Nat
    <3>1. IsFiniteSet(At(StagesOf(h), Recorded)')
      BY <1>0, FS_Subset DEF At, StagesOf
    <3> QED
      BY <3>1, FS_CardinalityType DEF Count
  <2>4. /\ q \in Recorded /\ pc[s] \notin Recorded => pc[s] = "recording" /\ q = "writing"
        /\ q = "idle" => q \notin Recorded
        /\ \A t \in Stages : t # s => pc'[t] = pc[t]
    BY <1>0, <1>2, <2>1 DEF Moved, Moves, Recorded, Held
  <2>5. \A t \in StagesOf(h) : pc[t] \in Recorded /\ pc'[t] = "idle" => t = s
    BY <1>0, <2>4 DEF Recorded, Held
  <2> HIDE DEF n
  <2> QED
    BY <2>2, <2>3, <2>4, <2>5
<1> QED
  BY <1>1, <1>2, OneCallMoves DEF StageMoves

\* The journal counts every stage that is recorded and not settled.
LEMMA CoversNext ==
  ASSUME Tables, Quiet, Decided, JournalCoversStages, [Next]_vars
  PROVE  JournalCoversStages'
<1>0. /\ Typed /\ pc \in [Stages -> Progress] /\ staged \in [Shas -> 0 .. MaxStagedCount]
      /\ \A h \in Shas : Covered(h)
  BY CoversAsCounts DEF Tables, Typed
<1> SUFFICES ASSUME NEW h \in Shas PROVE Covered(h)'
  BY DEF JournalCoversStages, Covered, Count, At, Settling, Recorded
<1> DEFINE n == Count(StagesOf(h), Recorded)
           m == Cardinality(Settling(h))
<1>1. n + m <= staged[h] /\ m \in Nat /\ staged[h] \in Int
  BY <1>0, SettlingFinite DEF Covered
<1>2. n' + m' <= staged'[h] => Covered(h)'
  BY DEF Covered
<1> HIDE DEF n, m
<1>3. ~Crash => /\ n \in Nat /\ n' \in Nat /\ n' <= n + 1
                /\ (\A s \in StagesOf(h) : ~(pc[s] = "recording" /\ pc'[s] = "writing")) => n' <= n
                /\ (\E s \in StagesOf(h) : pc[s] \in Recorded /\ pc'[s] = "idle") => n' = n - 1
  BY RecordedMoves DEF n
<1>4. \A op : Doing(op) =>
        m' = IF op = "commit" /\ ShaOf[NextRequest.stage] = h THEN m - 1 ELSE m
  BY <1>0, SettlingTaken DEF m
<1>5. \A r \in Operations : Request(r) =>
        m' = IF r.op = "commit" /\ ShaOf[r.stage] = h THEN m + 1 ELSE m
  BY <1>0, SettlingQueued DEF m
<1>6. UNCHANGED requests => m' = m
  BY DEF m, Settling
<1>7. CASE Crash
  <2>1. requests' = <<>> /\ staged' = staged /\ \A s \in Stages : pc'[s] = "idle"
    BY <1>7 DEF Crash, journal
  <2>2. At(StagesOf(h), Recorded)' = {} /\ Settling(h)' = {}
    BY <2>1 DEF At, Recorded, Held, StagesOf, Settling
  <2>3. n' = 0 /\ m' = 0
    BY <2>2, FS_EmptySet DEF n, m, Count
  <2> QED
    BY <1>0, <1>2, <2>1, <2>3
<1>8. ASSUME ~Crash, staged' = staged, m' = m,
             \A s \in StagesOf(h) : ~(pc[s] = "recording" /\ pc'[s] = "writing")
      PROVE  Covered(h)'
  BY <1>1, <1>2, <1>3, <1>8
<1>9. CASE ~Crash /\ ~JournalStep /\ \A s \in Stages : ~Consume(s)
  <2>1. UNCHANGED requests \/ \E r \in Operations : Request(r) /\ r.op # "commit"
    <3>1. ASSUME NEW s \in Stages, RecordStage(s) \/ WriteFails(s) \/ Retire(s)
          PROVE  \E r \in Operations : Request(r) /\ r.op # "commit"
      BY <3>1, RequestFields DEF RecordStage, WriteFails, Retire
    <3>2. ASSUME NEW g \in Shas, CommitCollect(g)
          PROVE  \E r \in Operations : Request(r) /\ r.op # "commit"
      BY <3>2, RequestFields DEF CommitCollect
    <3> QED
      BY <1>9, <3>1, <3>2
      DEF Next, StageStep, CollectStep, RowStep, vars, Stage, WriteBlob, Claim, VerifyClaim,
         ReleaseClaim, BeginIngest, CommitIngest, RejectIngest, StartCollection, SkipCollection,
         CollectCheck, CollectUnlink, BeginCollect, RejectCollect, BeginPull, CommitPull,
         BeginPurge, CommitPurge, CollectOrphanedBlobs, Rollback, Recover, RecoveryDone
  <2>2. m' = m
    BY <1>5, <1>6, <2>1
  <2>3. staged' = staged
    BY <1>9 DEF Next, StageStep, CollectStep, RowStep, vars, journal, Stage, RecordStage,
         WriteBlob, WriteFails, Retire, Claim, VerifyClaim, ReleaseClaim, BeginIngest,
         CommitIngest, RejectIngest, StartCollection, SkipCollection, CollectCheck, CollectUnlink,
         BeginCollect, CommitCollect, RejectCollect, BeginPull, CommitPull, BeginPurge,
         CommitPurge, CollectOrphanedBlobs, Rollback, Recover, RecoveryDone
  <2>4. \A s \in Stages : ~(pc[s] = "recording" /\ pc'[s] = "writing")
    <3> SUFFICES ASSUME NEW s \in Stages, pc[s] = "recording" PROVE pc'[s] = "recording"
      OBVIOUS
    <3>1. /\ RecordOp(s) \in Operations /\ Awaited(RecordOp(s))
          /\ RecordOp(s).op = "record" /\ RecordOp(s).stage = s
      BY RequestFields DEF Awaited
    <3>2. ~ (\E op : Doing(op))
      <4> SUFFICES ASSUME NEW op, Doing(op) PROVE FALSE
        OBVIOUS
      <4> QED
        BY <1>0, <2>1, Taken, Appended
    <3> QED
      BY <1>9, <3>1, <3>2, AwaitedStays DEF Undisturbed
  <2> QED
    BY <1>8, <1>9, <2>2, <2>3, <2>4 DEF StagesOf
<1>10. ASSUME NEW s \in Stages, Consume(s), ~Crash PROVE Covered(h)'
  <2>1. /\ pc[s] = "committed" /\ pc' = [pc EXCEPT ![s] = "idle"] /\ staged' = staged
        /\ Request(CommitOp(s))
    BY <1>10 DEF Consume, journal
  <2>2. m' = IF ShaOf[s] = h THEN m + 1 ELSE m
    BY <1>5, <2>1, RequestFields
  <2>3. n' <= n /\ (ShaOf[s] = h => n' = n - 1)
    BY <1>0, <1>3, <1>10, <2>1 DEF StagesOf, Recorded, Held
  <2> QED
    BY <1>1, <1>2, <1>3, <1>10, <2>1, <2>2, <2>3
<1>11. CASE JournalRecord
  <2>1. /\ NextRequest.stage \in Stages /\ staged' = [staged EXCEPT ![ShaOf[NextRequest.stage]] = @ + 1]
        /\ pc' = [pc EXCEPT ![NextRequest.stage] = "writing"] /\ Doing("record") /\ app' = app
    BY <1>0, <1>11, Taken DEF JournalRecord
  <2>2. m' = m /\ ~Crash
    BY <1>4, <2>1 DEF Crash
  <2>3. h # ShaOf[NextRequest.stage] =>
          \A s \in StagesOf(h) : ~(pc[s] = "recording" /\ pc'[s] = "writing")
    BY <1>0, <2>1 DEF StagesOf
  <2>4. staged'[h] = IF h = ShaOf[NextRequest.stage] THEN staged[h] + 1 ELSE staged[h]
    BY <1>0, <2>1
  <2> QED
    BY <1>1, <1>2, <1>3, <2>2, <2>3, <2>4
<1>12. CASE JournalOrphan
  <2>1. /\ NextRequest.stage \in Stages /\ staged' = [staged EXCEPT ![ShaOf[NextRequest.stage]] = @ - 1]
        /\ pc[NextRequest.stage] \in {"failing", "retiring"} /\ Doing("orphan") /\ app' = app
        /\ pc' = [pc EXCEPT ![NextRequest.stage] = "idle"]
    BY <1>0, <1>12, Taken, HeadAwaited DEF JournalOrphan, Decrement, Orphaned, Tables
  <2>2. m' = m /\ ~Crash
    BY <1>4, <2>1 DEF Crash
  <2>3. n' <= n /\ (h = ShaOf[NextRequest.stage] => n' = n - 1)
    BY <1>0, <1>3, <2>1, <2>2 DEF StagesOf, Recorded, Held
  <2>4. staged'[h] = IF h = ShaOf[NextRequest.stage] THEN staged[h] - 1 ELSE staged[h]
    BY <1>0, <2>1
  <2> QED
    BY <1>1, <1>2, <1>3, <2>2, <2>3, <2>4
<1>13. CASE JournalCommit
  <2>1. /\ NextRequest.stage \in Stages /\ staged' = [staged EXCEPT ![ShaOf[NextRequest.stage]] = @ - 1]
        /\ Doing("commit") /\ app' = app /\ pc' = pc
    BY <1>0, <1>13, Taken DEF JournalCommit, Decrement, registry
  <2>2. m' = IF ShaOf[NextRequest.stage] = h THEN m - 1 ELSE m
    BY <1>4, <2>1
  <2>3. ~Crash /\ n' <= n
    BY <1>3, <2>1 DEF Crash
  <2>4. staged'[h] = IF h = ShaOf[NextRequest.stage] THEN staged[h] - 1 ELSE staged[h]
    BY <1>0, <2>1
  <2> QED
    BY <1>1, <1>2, <1>3, <2>2, <2>3, <2>4
<1>14. CASE JournalClear
  <2> DEFINE g == NextRequest.sha
  <2>1. /\ g \in Shas /\ gc[g] = "settling" /\ NextRequest = ClearOp(g) /\ Doing("clear")
        /\ app' = app /\ pc' = pc
    BY <1>0, <1>14, Taken, HeadAwaited DEF JournalClear, registry, Tables
  <2>2. \A k \in Shas : staged'[k] = IF k = g /\ g \in recovered THEN 0 ELSE staged[k]
    BY <1>0, <1>14, <2>1 DEF JournalClear
  <2> HIDE DEF g
  <2>3. m' = m /\ ~Crash /\ n' <= n
    BY <1>3, <1>4, <2>1 DEF Crash
  <2>4. CASE h # g
    BY <1>1, <1>2, <1>3, <2>2, <2>3, <2>4
  <2>5. CASE h = g
    <3>1. At(StagesOf(h), Recorded) = {}
      BY <2>1, <2>5 DEF At, StagesOf, Quiet, Recorded, Held
    <3>2. Settling(h) = {}
      <4> SUFFICES ASSUME NEW j \in Settling(h) PROVE FALSE
        OBVIOUS
      <4>1. 1 \in DOMAIN requests /\ requests[1] = ClearOp(g) /\ j \in Nat /\ j >= 1
        BY <1>0, <2>1, Taken DEF Settling, Typed
      <4>2. j < 1
        BY <2>1, <2>5, <4>1, RequestFields DEF Settling, Tables, RequestsOrdered
      <4> QED
        BY <4>1, <4>2
    <3>3. n = 0 /\ m = 0
      BY <3>1, <3>2, FS_EmptySet DEF n, m, Count
    <3> QED
      BY <1>1, <1>2, <1>3, <2>1, <2>2, <2>3, <2>5, <3>3
  <2> QED
    BY <2>4, <2>5
<1>15. CASE JournalRecordFails \/ JournalOrphanFails \/ JournalCommitFails \/ JournalClearFails
  <2>1. staged' = staged /\ app' = app
    BY <1>15 DEF JournalRecordFails, JournalOrphanFails, JournalCommitFails, JournalClearFails, journal
  <2>2. \A s \in Stages : ~(pc[s] = "recording" /\ pc'[s] = "writing")
    BY <1>0, <1>15 DEF JournalRecordFails, JournalOrphanFails, JournalCommitFails, JournalClearFails, registry
  <2>3. \E op : Doing(op)
    BY <1>15 DEF JournalRecordFails, JournalOrphanFails, JournalCommitFails, JournalClearFails
  <2>4. m' \in Int /\ m' <= m
    BY <1>1, <1>4, <2>3
  <2> QED
    BY <1>1, <1>2, <1>3, <2>1, <2>2, <2>4 DEF StagesOf, Crash
<1> QED
  BY <1>7, <1>9, <1>10, <1>11, <1>12, <1>13, <1>14, <1>15 DEF JournalStep

\* A blob that nobody refers to is in the journal.
LEMMA BlobsNext ==
  ASSUME Tables, Quiet, Decided, JournalCoversStages, BlobsAccountedFor, [Next]_vars
  PROVE  BlobsAccountedFor'
<1> SUFFICES ASSUME NEW h \in Shas, h \in files', ~Kept(h)'
             PROVE  Journalled(h)'
  BY TypedNext DEF BlobsAccountedFor, Kept, Tables, Typed
<1>0. /\ Typed /\ staged \in [Shas -> 0 .. MaxStagedCount] /\ orphaned \in SUBSET Shas
      /\ pc \in [Stages -> Progress] /\ ~Kept(h)
  BY KeptStays DEF Tables, Typed
<1>1. Journalled(h)
  <2>1. CASE h \in files
    BY <1>0, <2>1 DEF BlobsAccountedFor, Kept
  <2>2. CASE h \notin files
    <3>1. PICK s \in Stages : pc[s] = "writing" /\ ShaOf[s] = h
      BY <2>2, FilesMove DEF CollectUnlink
    <3>2. s \in At(StagesOf(h), Recorded) /\ IsFiniteSet(At(StagesOf(h), Recorded))
      BY <3>1, FS_Subset DEF At, StagesOf, Recorded
    <3>3. Count(StagesOf(h), Recorded) \in Nat /\ Count(StagesOf(h), Recorded) # 0
      BY <3>2, FS_EmptySet, FS_CardinalityType DEF Count
    <3>4. Covered(h) /\ Cardinality(Settling(h)) \in Nat
      BY <1>0, CoversAsCounts, SettlingFinite
    <3> QED
      BY <1>0, <3>3, <3>4 DEF Covered, Journalled
  <2> QED
    BY <2>1, <2>2
<1>2. CASE UNCHANGED journal
  BY <1>1, <1>2 DEF Journalled, journal
<1>3. CASE JournalRecord
  <2>1. NextRequest.stage \in Stages
    BY <1>0, <1>3, Taken DEF JournalRecord
  <2> QED
    BY <1>0, <1>1, <1>3, <2>1 DEF JournalRecord, Journalled
<1>4. CASE JournalOrphan
  <2>1. NextRequest.stage \in Stages
    BY <1>0, <1>4, Taken DEF JournalOrphan
  <2> QED
    BY <1>0, <1>1, <1>4, <2>1 DEF JournalOrphan, Decrement, Journalled
<1>5. CASE JournalCommit
  <2>1. NextRequest.stage \in Stages /\ ShaOf[NextRequest.stage] # h
    BY <1>0, <1>5, Taken, HeadAwaited DEF JournalCommit, Tables
  <2> QED
    BY <1>0, <1>1, <1>5, <2>1 DEF JournalCommit, Decrement, Journalled
<1>6. CASE JournalClear
  <2>1. NextRequest.sha \in Shas /\ gc[NextRequest.sha] = "settling" /\ UNCHANGED files
    BY <1>0, <1>6, Taken, HeadAwaited DEF JournalClear, Tables
  <2>2. NextRequest.sha # h
    BY <1>0, <2>1 DEF Decided
  <2> QED
    BY <1>0, <1>1, <1>6, <2>1, <2>2 DEF JournalClear, Journalled
<1> QED
  BY <1>2, <1>3, <1>4, <1>5, <1>6
  DEF Next, StageStep, JournalStep, CollectStep, RowStep, vars, Stage, RecordStage, WriteBlob,
      WriteFails, Retire, Claim, VerifyClaim, ReleaseClaim, Consume, BeginIngest, CommitIngest,
      RejectIngest, JournalRecordFails, JournalOrphanFails, JournalCommitFails, JournalClearFails,
      StartCollection, SkipCollection, CollectCheck, CollectUnlink, BeginCollect, CommitCollect,
      RejectCollect, BeginPull, CommitPull, BeginPurge, CommitPurge, CollectOrphanedBlobs,
      Rollback, Crash, Recover, RecoveryDone

-----------------------------------------------------------------------------
(* Theorems.                                                               *)

\* Nothing is staged, queued or collected at first.
LEMMA InvInit ==
  ASSUME Init
  PROVE  Inv
<1>1. Typed
  <2>1. requests \in Seq(Operations) /\ tx \in Transactions
    BY TransactionFields DEF Init
  <2>2. poisoned \in BOOLEAN
    BY Zenon DEF Init
  <2> QED
    BY <2>1, <2>2 DEF Init, Typed, Progress
<1>2. RequestsAwaited /\ RequestsOrdered
  BY DEF Init, RequestsAwaited, RequestsOrdered
<1>3. Exclusive
  BY TransactionFields DEF Init, Exclusive
<1>4. \A T \in SUBSET Stages : \A P : "idle" \notin P => Count(T, P) = 0
  <2> SUFFICES ASSUME NEW T \in SUBSET Stages, NEW P, "idle" \notin P PROVE Count(T, P) = 0
    OBVIOUS
  <2>1. At(T, P) = {}
    BY DEF Init, At
  <2> QED
    BY <2>1, FS_EmptySet DEF Count
<1>5. Counted
  <2>1. "idle" \notin Reserving /\ "idle" \notin Held
    BY DEF Reserving, Held
  <2>2. Count(Stages, Reserving) = 0 /\ Count(Stages, Held) = 0
    BY <1>4, <2>1
  <2>3. \A h \in Shas : Count(StagesOf(h), Progress \ {"idle"}) = 0
    BY <1>4 DEF StagesOf
  <2>4. reserved = 0 /\ pins = [h \in Shas |-> 0]
    BY DEF Init
  <2> QED
    BY <2>2, <2>3, <2>4 DEF Counted
<1>6. Quiet /\ Decided
  BY TransactionFields DEF Init, Quiet, Decided
<1>7. ReceiptHasBytes /\ BlobsAccountedFor
  BY DEF Init, ReceiptHasBytes, Entries, Held, BlobsAccountedFor
<1>8. JournalCoversStages
  <2> SUFFICES ASSUME NEW h \in Shas PROVE Covered(h)
    BY CoversAsCounts
  <2>1. Settling(h) = {} /\ "idle" \notin Recorded
    BY DEF Init, Settling, Recorded, Held
  <2>2. Count(StagesOf(h), Recorded) = 0
    BY <1>4, <2>1 DEF StagesOf
  <2> QED
    BY <2>1, <2>2, FS_EmptySet DEF Init, Covered
<1> QED
  BY <1>1, <1>2, <1>3, <1>5, <1>6, <1>7, <1>8 DEF Inv, Tables

\* The invariant is inductive.
LEMMA InvNext ==
  ASSUME Inv, [Next]_vars
  PROVE  Inv'
<1>1. Typed' /\ Exclusive' /\ RequestsAwaited' /\ RequestsOrdered'
  BY TypedNext, ExclusiveNext, RequestsNext DEF Inv, Tables
<1>2. Counted' /\ Quiet' /\ Decided'
  BY CountedNext, QuietNext, DecidedNext DEF Inv
<1>3. ReceiptHasBytes' /\ JournalCoversStages' /\ BlobsAccountedFor'
  BY ReceiptsNext, CoversNext, BlobsNext DEF Inv
<1> QED
  BY <1>1, <1>2, <1>3 DEF Inv, Tables

\* Every reachable state satisfies the invariant.
THEOREM RegistryHolds == Spec => []Inv
<1> QED
  BY InvInit, InvNext, PTL DEF Spec

\* The two counters are counts, so they stay between zero and the number of calls.
LEMMA TypeFollows ==
  ASSUME Inv
  PROVE  TypeOK
<1>1. ASSUME NEW T \in SUBSET Stages, NEW P PROVE Count(T, P) \in 0 .. Cardinality(Stages)
  <2>1. At(T, P) \in SUBSET Stages
    BY DEF At
  <2>2. Cardinality(At(T, P)) \in Nat /\ Cardinality(Stages) \in Nat
        /\ Cardinality(At(T, P)) <= Cardinality(Stages)
    BY <2>1, FS_Subset, FS_CardinalityType
  <2> QED
    BY <2>2 DEF Count
<1>2. reserved \in 0 .. Cardinality(Stages)
  BY <1>1 DEF Inv, Counted
<1>3. pins \in [Shas -> 0 .. Cardinality(Stages)]
  <2>1. ASSUME NEW h \in Shas PROVE pins[h] \in 0 .. Cardinality(Stages)
    <3>1. StagesOf(h) \in SUBSET Stages
      BY DEF StagesOf
    <3> QED
      BY <1>1, <3>1 DEF Inv, Counted
  <2> QED
    BY <2>1 DEF Inv, Tables, Typed
<1> QED
  BY <1>2, <1>3 DEF Inv, Tables, Typed, TypeOK, Progress

\* Type correctness: no reservation and no pin is given back twice.
THEOREM TypeCorrect == Spec => []TypeOK
<1> QED
  BY RegistryHolds, TypeFollows, PTL

\* A receipt that can be claimed or imported names a blob on disk, whatever the
\* order of stage(), expiry, claim(), collection, failures and crashes.
THEOREM ReceiptsHaveBytes == Spec => []ReceiptHasBytes
<1>1. Inv => ReceiptHasBytes
  BY DEF Inv
<1> QED
  BY <1>1, RegistryHolds, PTL

\* The receipt limit is never exceeded, the calls in flight included.
THEOREM ReceiptLimitHolds == Spec => []ReceiptsBounded
<1>1. Inv => ReceiptsBounded
  BY DEF Inv, Counted, ReceiptsBounded, Count, At, Entries
<1> QED
  BY <1>1, RegistryHolds, PTL

\* The durable journal counts every stage that is recorded and not settled.
THEOREM JournalCounts == Spec => []JournalCoversStages
<1>1. Inv => JournalCoversStages
  BY DEF Inv
<1> QED
  BY <1>1, RegistryHolds, PTL

\* A blob that no row refers to is in the journal, where recovery finds it,
\* unless its last row was purged.
THEOREM NoBlobIsForgotten == Spec => []BlobsAccountedFor
<1>1. Inv => BlobsAccountedFor
  BY DEF Inv
<1> QED
  BY <1>1, RegistryHolds, PTL

-----------------------------------------------------------------------------
(* The refinement of BlobStore.                                            *)

Claimable == Held \ {"committed"}

\* Nothing of the store changes.
LEMMA StoreStutter ==
  ASSUME UNCHANGED <<files, Receipts, Noted, refs, erased>>
  PROVE  UNCHANGED Store!vars
BY DEF Store!vars

\* The store counts its receipts as the registry does.
LEMMA SameCount == \A S : Store!Cardinality(S) = Cardinality(S)
BY DEF Store!Cardinality, Cardinality

\* What moving one call does to the receipts.
LEMMA ReceiptsMove ==
  ASSUME Typed, NEW s \in Stages, NEW q \in Progress, Moves(s, q)
  PROVE  /\ Receipts' = IF q \in Claimable THEN Receipts \cup {s} ELSE Receipts \ {s}
         /\ s \in Receipts <=> pc[s] \in Claimable
         /\ (pc[s] \in Claimable <=> q \in Claimable) => Receipts' = Receipts
BY DEF Typed, Moves, Receipts, Claimable

\* A call that was recorded and has not settled is noted.
LEMMA RecordedIsNoted ==
  ASSUME Inv, NEW s \in Stages, pc[s] \in Recorded
  PROVE  staged[ShaOf[s]] > 0 /\ ShaOf[s] \in Noted
<1> DEFINE h == ShaOf[s]
<1>1. h \in Shas /\ Typed
  BY DEF Inv, Tables
<1>2. s \in At(StagesOf(h), Recorded) /\ IsFiniteSet(At(StagesOf(h), Recorded))
  BY FS_Subset DEF At, StagesOf, Recorded
<1>3. Count(StagesOf(h), Recorded) \in Nat /\ Count(StagesOf(h), Recorded) # 0
  BY <1>2, FS_EmptySet, FS_CardinalityType DEF Count
<1>4. Covered(h) /\ Cardinality(Settling(h)) \in Nat
  BY <1>1, CoversAsCounts, SettlingFinite DEF Inv
<1>5. staged[h] > 0
  BY <1>1, <1>3, <1>4 DEF Covered, Typed
<1> QED
  BY <1>1, <1>5 DEF Noted, Journalled

\* A call that still reserves leaves room for its receipt.
LEMMA RoomForReceipt ==
  ASSUME Inv, NEW s \in Stages, pc[s] \in Reserving
  PROVE  Cardinality(Receipts) < MaxReceipts
<1>1. /\ IsFiniteSet(Stages) /\ At(Stages, Held) \in SUBSET Stages
      /\ At(Stages, Reserving) \in SUBSET Stages /\ Receipts \subseteq At(Stages, Held)
      /\ s \in At(Stages, Reserving)
  BY DEF At, Receipts
<1>2. /\ IsFiniteSet(At(Stages, Held)) /\ IsFiniteSet(At(Stages, Reserving))
  BY <1>1, FS_Subset
<1>3. /\ Cardinality(Receipts) \in Nat
      /\ Cardinality(Receipts) <= Count(Stages, Held)
      /\ Count(Stages, Held) \in Nat
  BY <1>1, <1>2, FS_Subset, FS_CardinalityType DEF Count
<1>4. Count(Stages, Reserving) \in Nat /\ Count(Stages, Reserving) # 0
  BY <1>1, <1>2, FS_EmptySet, FS_CardinalityType DEF Count
<1>5. Count(Stages, Held) + Count(Stages, Reserving) <= MaxReceipts
  BY DEF Inv, Counted
<1> QED
  BY <1>3, <1>4, <1>5

\* A call of stage() writes, or its receipt moves.
LEMMA StoreStage ==
  ASSUME Inv, NEW s \in Stages, StageStep(s)
  PROVE  Store!Next \/ UNCHANGED Store!vars
<1> DEFINE Goal == Store!Next \/ UNCHANGED Store!vars
<1>0. Typed /\ ShaOf[s] \in Shas
  BY DEF Inv, Tables
<1>1. CASE \/ Stage(s) \/ RecordStage(s) \/ Retire(s) \/ Claim(s) \/ VerifyClaim(s)
           \/ ReleaseClaim(s) \/ Consume(s) \/ RejectIngest(s)
  <2>1. \E q \in Progress : Moves(s, q) /\ (pc[s] \in Claimable <=> q \in Claimable)
    BY <1>1
    DEF Stage, RecordStage, Retire, Claim, VerifyClaim, ReleaseClaim, Consume, RejectIngest,
        Moves, Progress, Reserving, Held, Claimable
  <2>2. UNCHANGED Receipts
    BY <1>0, <2>1, ReceiptsMove
  <2>3. UNCHANGED <<files, staged, orphaned, refs, erased>>
    BY <1>1
    DEF Stage, RecordStage, Retire, Claim, VerifyClaim, ReleaseClaim, Consume, RejectIngest,
        journal, database
  <2>4. UNCHANGED Noted
    BY <2>3 DEF Noted, Journalled
  <2> QED
    BY <2>2, <2>3, <2>4, StoreStutter
<1>2. CASE BeginIngest(s)
  BY <1>2, StoreStutter DEF BeginIngest, registry, journal, Receipts, Noted, Journalled
<1>3. CASE WriteBlob(s)
  <2>1. pc[s] = "writing" /\ Moves(s, "live") /\ UNCHANGED <<staged, orphaned, refs, erased>>
    BY <1>3 DEF WriteBlob, Moves, journal, database
  <2>2. ShaOf[s] \in Noted /\ Cardinality(Receipts) < MaxReceipts
    BY <2>1, RecordedIsNoted, RoomForReceipt DEF Recorded, Reserving
  <2>3. s \notin Receipts /\ Receipts' = Receipts \cup {s}
    BY <1>0, <2>1, ReceiptsMove DEF Progress, Held, Claimable
  <2>4. UNCHANGED Noted
    BY <2>1 DEF Noted, Journalled
  <2>5. Store!Issue(s)
    BY <1>3, <2>1, <2>2, <2>3, <2>4, SameCount DEF Store!Issue, WriteBlob
  <2> QED
    BY <2>5 DEF Store!Next
<1>4. CASE WriteFails(s)
  <2>1. pc[s] = "writing" /\ Moves(s, "failing") /\ UNCHANGED <<staged, orphaned, refs, erased>>
    BY <1>4 DEF WriteFails, Moves, journal, database
  <2>2. ShaOf[s] \in Noted
    BY <2>1, RecordedIsNoted DEF Recorded
  <2>3. UNCHANGED Receipts
    BY <1>0, <2>1, ReceiptsMove DEF Progress, Held, Claimable
  <2>4. UNCHANGED Noted
    BY <2>1 DEF Noted, Journalled
  <2>5. CASE UNCHANGED files
    BY <2>1, <2>3, <2>4, <2>5, StoreStutter
  <2>6. CASE files' = files \cup {ShaOf[s]}
    BY <1>0, <2>1, <2>2, <2>3, <2>4, <2>6 DEF Store!Next, Store!Leave
  <2> QED
    BY <1>4, <2>5, <2>6 DEF WriteFails
<1>5. CASE CommitIngest(s)
  <2>1. pc[s] = "ingesting"
    BY <1>5, TransactionFields DEF CommitIngest, Inv, Tables, Exclusive
  <2>2. Moves(s, "committed") /\ UNCHANGED <<files, staged, orphaned>>
    BY <1>5 DEF CommitIngest, Moves, journal
  <2>3. s \in Receipts /\ Receipts' = Receipts \ {s}
    BY <1>0, <2>1, <2>2, ReceiptsMove DEF Progress, Held, Claimable
  <2>4. UNCHANGED Noted
    BY <2>2 DEF Noted, Journalled
  <2>5. Store!Import(s)
    BY <1>5, <2>2, <2>3, <2>4 DEF Store!Import, CommitIngest
  <2> QED
    BY <2>5 DEF Store!Next
<1> QED
  BY <1>1, <1>2, <1>3, <1>4, <1>5 DEF StageStep

\* The journal notes a hash, or gives up a note that nothing depends on.
LEMMA StoreNotes ==
  ASSUME Inv, Inv', NEW h \in Shas, UNCHANGED <<files, Receipts, refs, erased>>,
         \A g \in Shas \ {h} : Journalled(g)' <=> Journalled(g)
  PROVE  Store!Next \/ UNCHANGED Store!vars
<1>1. Noted' = IF Journalled(h)' THEN Noted \cup {h} ELSE Noted \ {h}
  BY DEF Noted
<1>2. CASE Journalled(h)'
  BY <1>1, <1>2 DEF Store!Next, Store!Note
<1>3. CASE ~Journalled(h)'
  <2>1. h \in files => h \in refs \cup erased
    BY <1>3 DEF Inv, BlobsAccountedFor
  <2> QED
    BY <1>1, <1>3, <2>1 DEF Store!Next, Store!Forget
<1> QED
  BY <1>2, <1>3

LEMMA StoreJournal ==
  ASSUME Inv, Inv', JournalStep
  PROVE  Store!Next \/ UNCHANGED Store!vars
<1>0. /\ Typed /\ RequestsAwaited /\ UNCHANGED <<files, refs, erased>>
      /\ staged \in [Shas -> 0 .. MaxStagedCount]
  BY DEF Inv, Tables, Typed, JournalStep, JournalRecord, JournalRecordFails, JournalOrphan,
         JournalOrphanFails, JournalCommit, JournalCommitFails, JournalClear, JournalClearFails,
         database
<1>1. CASE JournalRecord
  <2> DEFINE s == NextRequest.stage
  <2>1. s \in Stages /\ pc[s] = "recording"
    BY <1>0, <1>1, Taken, HeadAwaited DEF JournalRecord, Inv, Tables
  <2>2. Moves(s, "writing")
    BY <1>1 DEF JournalRecord, Moves
  <2>3. UNCHANGED Receipts
    BY <1>0, <2>1, <2>2, ReceiptsMove DEF Progress, Reserving, Held, Claimable
  <2>4. \A g \in Shas \ {ShaOf[s]} : Journalled(g)' <=> Journalled(g)
    BY <1>0, <1>1 DEF JournalRecord, Journalled
  <2> QED
    BY <1>0, <2>1, <2>3, <2>4, StoreNotes
<1>2. CASE JournalRecordFails
  <2> DEFINE s == NextRequest.stage
  <2>1. s \in Stages /\ pc[s] = "recording"
    BY <1>0, <1>2, Taken, HeadAwaited DEF JournalRecordFails, Inv, Tables
  <2>2. Moves(s, "idle") /\ UNCHANGED <<staged, orphaned>>
    BY <1>2 DEF JournalRecordFails, Moves, journal
  <2>3. UNCHANGED Receipts
    BY <1>0, <2>1, <2>2, ReceiptsMove DEF Progress, Reserving, Held, Claimable
  <2> QED
    BY <1>0, <2>2, <2>3, StoreStutter DEF Noted, Journalled
<1>3. CASE JournalOrphan
  <2> DEFINE s == NextRequest.stage
  <2>1. s \in Stages /\ pc[s] \in {"failing", "retiring"}
    BY <1>0, <1>3, Taken, HeadAwaited DEF JournalOrphan, Inv, Tables
  <2>2. Moves(s, "idle")
    BY <1>3 DEF JournalOrphan, Orphaned, Moves
  <2>3. Receipts' = Receipts \ {s} /\ (s \in Receipts <=> pc[s] = "retiring")
    BY <1>0, <2>1, <2>2, ReceiptsMove DEF Progress, Held, Reserving, Claimable
  <2>4. staged[ShaOf[s]] > 0 /\ ShaOf[s] \in Shas
    BY <1>3, <2>1 DEF JournalOrphan, Decrement
  <2>5. \A g \in Shas : Journalled(g)' <=> Journalled(g)
    BY <1>0, <1>3, <2>4 DEF JournalOrphan, Decrement, Journalled
  <2>6. UNCHANGED Noted /\ ShaOf[s] \in Noted
    BY <2>4, <2>5 DEF Noted, Journalled
  <2>7. CASE s \in Receipts
    <3>1. Store!Drop(s)
      BY <1>0, <2>3, <2>6, <2>7 DEF Store!Drop
    <3> QED
      BY <2>1, <3>1 DEF Store!Next
  <2>8. CASE s \notin Receipts
    BY <1>0, <2>3, <2>6, <2>8, StoreStutter
  <2> QED
    BY <2>7, <2>8
<1>4. CASE JournalOrphanFails
  <2> DEFINE s == NextRequest.stage
  <2>1. s \in Stages
    BY <1>0, <1>4, Taken DEF JournalOrphanFails
  <2>2. /\ UNCHANGED <<staged, orphaned>>
        /\ \/ pc[s] = "retiring" /\ Moves(s, "live")
           \/ pc[s] = "failing" /\ Moves(s, "idle")
    BY <1>4 DEF JournalOrphanFails, Moves, journal
  <2>3. UNCHANGED Receipts
    BY <1>0, <2>1, <2>2, ReceiptsMove DEF Progress, Reserving, Held, Claimable
  <2> QED
    BY <1>0, <2>2, <2>3, StoreStutter DEF Noted, Journalled
<1>5. CASE JournalCommit
  <2> DEFINE s == NextRequest.stage
  <2>1. s \in Stages /\ UNCHANGED Receipts
    BY <1>0, <1>5, Taken DEF JournalCommit, registry, Receipts
  <2>2. \A g \in Shas \ {ShaOf[s]} : Journalled(g)' <=> Journalled(g)
    BY <1>0, <1>5 DEF JournalCommit, Decrement, Journalled
  <2> QED
    BY <1>0, <2>1, <2>2, StoreNotes
<1>6. CASE JournalClear
  <2> DEFINE h == NextRequest.sha
  <2>1. h \in Shas /\ UNCHANGED Receipts
    BY <1>0, <1>6, Taken DEF JournalClear, registry, Receipts
  <2>2. \A g \in Shas \ {h} : Journalled(g)' <=> Journalled(g)
    BY <1>0, <1>6 DEF JournalClear, Journalled
  <2> QED
    BY <1>0, <2>1, <2>2, StoreNotes
<1>7. CASE JournalCommitFails \/ JournalClearFails
  BY <1>0, <1>7, StoreStutter
  DEF JournalCommitFails, JournalClearFails, registry, journal, Receipts, Noted, Journalled
<1> QED
  BY <1>1, <1>2, <1>3, <1>4, <1>5, <1>6, <1>7 DEF JournalStep

\* A collection takes bytes that no row and no receipt needs.
LEMMA StoreCollect ==
  ASSUME Inv, NEW h \in Shas, CollectStep(h)
  PROVE  Store!Next \/ UNCHANGED Store!vars
<1>1. CASE CollectUnlink(h)
  <2>1. h \notin refs /\ gc[h] = "collecting"
    BY <1>1, TransactionFields DEF CollectUnlink, Inv, Tables, Exclusive
  <2>2. \A n \in Receipts : ShaOf[n] # h
    BY <2>1 DEF Inv, Quiet, Receipts, Held
  <2>3. UNCHANGED <<Receipts, Noted, refs, erased>>
    BY <1>1 DEF CollectUnlink, registry, journal, Receipts, Noted, Journalled
  <2>4. Store!Collect(h)
    BY <1>1, <2>1, <2>2, <2>3 DEF Store!Collect, CollectUnlink
  <2> QED
    BY <2>4 DEF Store!Next
<1>2. CASE ~CollectUnlink(h)
  BY <1>2, StoreStutter
  DEF CollectStep, StartCollection, SkipCollection, CollectCheck, BeginCollect, CommitCollect,
      RejectCollect, registry, journal, database, Receipts, Noted, Journalled
<1> QED
  BY <1>1, <1>2

LEMMA StoreRows ==
  ASSUME Inv, NEW h \in Shas, RowStep(h)
  PROVE  Store!Next \/ UNCHANGED Store!vars
<1>1. UNCHANGED <<files, Receipts, Noted>>
  BY DEF RowStep, BeginPull, BeginPurge, CommitPull, CommitPurge, registry, journal, Receipts,
         Noted, Journalled
<1>2. CASE BeginPull(h) \/ BeginPurge(h)
  BY <1>1, <1>2, StoreStutter DEF BeginPull, BeginPurge
<1>3. CASE CommitPull(h)
  <2>1. Store!Pull(h)
    BY <1>1, <1>3 DEF CommitPull, Store!Pull
  <2> QED
    BY <2>1 DEF Store!Next
<1>4. CASE CommitPurge(h)
  <2>1. h \in refs
    BY <1>4, TransactionFields DEF CommitPurge, Inv, Tables, Exclusive
  <2>2. Store!Purge(h)
    BY <1>1, <1>4, <2>1 DEF CommitPurge, Store!Purge
  <2> QED
    BY <2>2 DEF Store!Next
<1> QED
  BY <1>2, <1>3, <1>4 DEF RowStep

\* A failed transaction and a restart change nothing of the store, and a crash
\* costs the receipts.
LEMMA StoreFaults ==
  ASSUME Inv, CollectOrphanedBlobs \/ Rollback \/ Crash \/ Recover \/ RecoveryDone
  PROVE  Store!Next \/ UNCHANGED Store!vars
<1>0. Typed
  BY DEF Inv, Tables
<1>1. CASE CollectOrphanedBlobs \/ Recover \/ RecoveryDone
  BY <1>1, StoreStutter
  DEF CollectOrphanedBlobs, Recover, RecoveryDone, registry, journal, database, Receipts, Noted,
      Journalled
<1>2. CASE Rollback
  <2>1. \A s \in Stages : tx = IngestTx(s) => pc[s] = "ingesting"
    BY TransactionFields DEF Inv, Tables, Exclusive
  <2>2. UNCHANGED Receipts
    BY <1>2, <2>1 DEF Rollback, Abandoned, Receipts, Held
  <2> QED
    BY <1>2, <2>2, StoreStutter DEF Rollback, journal, Noted, Journalled
<1>3. CASE Crash
  <2>1. Receipts' = {}
    BY <1>3 DEF Crash, Receipts, Held
  <2>2. UNCHANGED <<files, Noted, refs, erased>>
    BY <1>3 DEF Crash, journal, Noted, Journalled
  <2>3. Store!Crash
    BY <2>1, <2>2 DEF Store!Crash
  <2> QED
    BY <2>3 DEF Store!Next
<1> QED
  BY <1>1, <1>2, <1>3

LEMMA StoreNext == Inv /\ Inv' /\ [Next]_vars => [Store!Next]_(Store!vars)
<1>1. CASE UNCHANGED vars
  BY <1>1, StoreStutter DEF vars, registry, journal, database, Receipts, Noted, Journalled
<1>2. CASE Inv /\ Inv' /\ Next
  BY <1>2, StoreStage, StoreJournal, StoreCollect, StoreRows, StoreFaults DEF Next
<1> QED
  BY <1>1, <1>2

LEMMA StoreInit == Init => Store!Init
BY DEF Init, Store!Init, Receipts, Noted, Journalled, Held

\* Staging, the journal, the collector and the import implement a blob store:
\* whatever overlaps, fails or crashes, no bytes are taken that a receipt or a row
\* needs, and every hash is noted before its bytes and until they are answered for.
THEOREM StagingIsBlobStore == Spec => ImplementsBlobStore
<1>1. Inv /\ Inv' /\ [Next]_vars => [Store!Next]_(Store!vars)
  BY StoreNext
<1> QED
  BY <1>1, StoreInit, RegistryHolds, PTL DEF Spec, ImplementsBlobStore, Store!Spec

=============================================================================
