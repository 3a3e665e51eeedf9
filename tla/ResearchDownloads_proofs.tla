----------------------- MODULE ResearchDownloads_proofs -----------------------
(***************************************************************************)
(* The accounts of the research browser's downloads balance, nobody touches *)
(* a path under its consumer, every file has an owner, and a receipt whose *)
(* window is closed is swept: for every number of downloads, every size and *)
(* every limit.                                                            *)
(***************************************************************************)
EXTENDS ResearchDownloads, FiniteSetTheorems, TLAPS

-----------------------------------------------------------------------------
(* Totals.  Total is a fold, which the provers cannot unfold for a set they *)
(* do not know.  It is proved equal to a cardinality: of all pairs of a     *)
(* download and the number of one of its bytes.                             *)

Units(f, S) == UNION {{d} \X (1 .. f[d]) : d \in S}
Count(f, S) == Cardinality(Units(f, S))
Counts(f, S) == IsFiniteSet(S) /\ \A d \in S : f[d] \in Nat

\* A row of n units holds n of them.
LEMMA OneRow ==
  ASSUME NEW n \in Nat, NEW d
  PROVE  IsFiniteSet({d} \X (1 .. n)) /\ Cardinality({d} \X (1 .. n)) = n
<1>1. IsFiniteSet({d}) /\ Cardinality({d}) = 1
  BY FS_Singleton
<1>2. IsFiniteSet(1 .. n) /\ Cardinality(1 .. n) = n
  BY FS_Interval
<1>3. /\ IsFiniteSet({d} \X (1 .. n))
      /\ Cardinality({d} \X (1 .. n)) = Cardinality({d}) * Cardinality(1 .. n)
  BY ONLY <1>1, <1>2, FS_Product
<1> QED
  BY <1>1, <1>2, <1>3

\* Counted units are finitely many.
LEMMA UnitsFinite ==
  ASSUME NEW S, NEW f, Counts(f, S)
  PROVE  IsFiniteSet(Units(f, S))
<1> DEFINE rows == {{d} \X (1 .. f[d]) : d \in S}
           row == [d \in S |-> {d} \X (1 .. f[d])]
<1>1. row \in Surjection(S, rows)
  <2>1. row \in [S -> rows]
    OBVIOUS
  <2>2. \A r \in rows : \E d \in S : row[d] = r
    OBVIOUS
  <2> QED
    BY <2>1, <2>2 DEF Surjection
<1>2. IsFiniteSet(rows)
  <2> HIDE DEF rows, row
  <2> QED
    BY <1>1, FS_Surjection DEF Counts
<1>3. \A r \in rows : IsFiniteSet(r)
  BY OneRow DEF Counts
<1>4. IsFiniteSet(UNION rows)
  <2> HIDE DEF rows
  <2> QED
    BY <1>2, <1>3, FS_UNION
<1> QED
  BY <1>4 DEF Units

\* Nothing is counted over the empty set.
LEMMA CountEmpty == \A f : Count(f, {}) = 0
<1> SUFFICES ASSUME NEW f PROVE Count(f, {}) = 0
  OBVIOUS
<1>1. Units(f, {}) = {}
  BY DEF Units
<1> QED
  BY <1>1, FS_EmptySet DEF Count

\* Taking one element out takes its units out.
LEMMA CountTakeOut ==
  ASSUME NEW S, NEW f, Counts(f, S), NEW d \in S
  PROVE  Count(f, S) = f[d] + Count(f, S \ {d}) /\ Count(f, S) \in Nat
<1> DEFINE row == {d} \X (1 .. f[d])
           rest == Units(f, S \ {d})
<1>1. Counts(f, S \ {d})
  BY FS_RemoveElement DEF Counts
<1>2. Units(f, S) = row \cup rest
  BY DEF Units
<1>3. row \cap rest = {}
  BY DEF Units
<1>4. IsFiniteSet(row) /\ Cardinality(row) = f[d] /\ f[d] \in Nat
  BY OneRow DEF Counts
<1>5. IsFiniteSet(rest)
  BY <1>1, UnitsFinite
<1> HIDE DEF row, rest
<1>6. Cardinality(row \cup rest) = Cardinality(row) + Cardinality(rest) - Cardinality({})
  BY <1>3, <1>4, <1>5, FS_Union
<1>7. Cardinality({}) = 0 /\ Cardinality(rest) \in Nat
  BY <1>5, FS_EmptySet, FS_CardinalityType
<1> QED
  BY <1>2, <1>4, <1>6, <1>7 DEF Count, rest

\* The fold of the community module is that count: the count satisfies the fold's
\* recursive equation, so the equation has a solution, and a smallest set on which
\* another solution differed would contradict it.
LEMMA TotalIsCount ==
  ASSUME NEW S, NEW f, Counts(f, S)
  PROVE  Total(f, S) = Count(f, S)
<1> DEFINE pick(s) == CHOOSE x \in s : TRUE
           fold(g, s) == IF s = {} THEN 0 ELSE f[pick(s)] + g[s \ {pick(s)}]
           sum == CHOOSE g : g = [s \in SUBSET S |-> fold(g, s)]
           count == [s \in SUBSET S |-> Count(f, s)]
<1>1. Total(f, S) = sum[S]
  BY DEF Total, MapThenSumSet, MapThenFoldSet
<1>2. \A s \in SUBSET S : Counts(f, s)
  BY FS_Subset DEF Counts
<1>3. \A s \in SUBSET S : s # {} => pick(s) \in s /\ s \ {pick(s)} \in SUBSET S
  OBVIOUS
<1>4. \A s \in SUBSET S : count[s] = fold(count, s)
  <2> SUFFICES ASSUME NEW s \in SUBSET S PROVE count[s] = fold(count, s)
    OBVIOUS
  <2>1. CASE s = {}
    BY <2>1, CountEmpty
  <2>2. CASE s # {}
    <3>1. Counts(f, s) /\ pick(s) \in s
      BY <1>2, <1>3, <2>2
    <3>2. Count(f, s) = f[pick(s)] + Count(f, s \ {pick(s)})
      BY ONLY <3>1, CountTakeOut
    <3> QED
      BY <1>3, <2>2, <3>2
  <2> QED
    BY <2>1, <2>2
<1>5. count = [s \in SUBSET S |-> fold(count, s)]
  BY <1>4
<1>6. sum = [s \in SUBSET S |-> fold(sum, s)]
  <2> HIDE DEF fold, count
  <2> QED
    BY <1>5
<1>7. \A s \in SUBSET S : sum[s] = fold(sum, s)
  <2> HIDE DEF fold, sum
  <2> QED
    BY <1>6
<1> HIDE DEF sum
<1> DEFINE bad == {s \in SUBSET S : sum[s] # Count(f, s)}
<1>8. bad = {}
  <2> SUFFICES ASSUME bad # {} PROVE FALSE
    OBVIOUS
  <2>1. bad \subseteq FiniteSubsetsOf(S)
    BY FS_Subset DEF FiniteSubsetsOf, Counts
  <2>2. PICK s \in bad : \A t \in bad : <<t, s>> \notin StrictSubsetOrdering(S)
    <3> HIDE DEF bad
    <3> QED
      BY <2>1, FS_StrictSubsetOrderingWellFounded, WFMin
  <2>3. s # {}
    BY <1>7, CountEmpty
  <2>4. <<s \ {pick(s)}, s>> \in StrictSubsetOrdering(S)
    BY <1>3, <2>3 DEF StrictSubsetOrdering
  <2>5. sum[s \ {pick(s)}] = Count(f, s \ {pick(s)})
    BY <1>3, <2>2, <2>3, <2>4
  <2>6. Count(f, s) = f[pick(s)] + Count(f, s \ {pick(s)})
    <3>1. Counts(f, s) /\ pick(s) \in s
      BY <1>2, <1>3, <2>3
    <3> HIDE DEF pick
    <3> QED
      BY ONLY <3>1, CountTakeOut
  <2> QED
    BY <1>7, <2>3, <2>5, <2>6
<1> QED
  BY <1>1, <1>8

\* The laws of a total.
LEMMA TotalEmpty == \A f : Total(f, {}) = 0
<1> SUFFICES ASSUME NEW f PROVE Total(f, {}) = 0
  OBVIOUS
<1>1. Counts(f, {})
  BY FS_EmptySet DEF Counts
<1> QED
  BY <1>1, TotalIsCount, CountEmpty

\* One summand taken out.
LEMMA TotalTakeOut ==
  ASSUME NEW S, NEW f, Counts(f, S), NEW d \in S
  PROVE  /\ Total(f, S) = f[d] + Total(f, S \ {d})
         /\ Total(f, S) \in Nat
         /\ Total(f, S \ {d}) \in Nat
<1>1. Counts(f, S \ {d})
  BY FS_RemoveElement DEF Counts
<1>2. Total(f, S) = Count(f, S) /\ Total(f, S \ {d}) = Count(f, S \ {d})
  BY <1>1, TotalIsCount
<1>3. Count(f, S \ {d}) \in Nat
  BY <1>1, UnitsFinite, FS_CardinalityType DEF Count
<1> QED
  BY <1>2, <1>3, CountTakeOut

\* A total depends on the summands only.
LEMMA TotalSame ==
  ASSUME NEW S, NEW f, NEW g, Counts(f, S), \A d \in S : g[d] = f[d]
  PROVE  Total(g, S) = Total(f, S)
<1>1. Counts(g, S)
  BY DEF Counts
<1>2. Units(g, S) = Units(f, S)
  BY DEF Units
<1> QED
  BY <1>1, <1>2, TotalIsCount DEF Count

\* A total of zeros.
LEMMA TotalZero ==
  ASSUME NEW S, NEW f, IsFiniteSet(S), \A d \in S : f[d] = 0
  PROVE  Total(f, S) = 0
<1>1. Counts(f, S)
  BY DEF Counts
<1>2. Units(f, S) = {}
  BY DEF Units
<1> QED
  BY <1>1, <1>2, TotalIsCount, FS_EmptySet DEF Count

\* One summand replaced: what Reserve does to the in-flight bytes.
LEMMA TotalUpdate ==
  ASSUME NEW S, NEW f, NEW g, Counts(f, S), NEW d \in S, g[d] \in Nat,
         \A e \in S \ {d} : g[e] = f[e]
  PROVE  /\ Total(g, S) = Total(f, S) - f[d] + g[d]
         /\ Total(f, S) - f[d] \in Nat
<1>1. Counts(g, S)
  BY DEF Counts
<1>2. Counts(f, S \ {d})
  BY FS_RemoveElement DEF Counts
<1>3. Total(g, S \ {d}) = Total(f, S \ {d})
  BY <1>2, TotalSame
<1>4. f[d] \in Nat
  BY DEF Counts
<1>5. /\ Total(f, S) = f[d] + Total(f, S \ {d}) /\ Total(f, S \ {d}) \in Nat
      /\ Total(g, S) = g[d] + Total(g, S \ {d})
  BY <1>1, TotalTakeOut
<1> QED
  BY <1>3, <1>4, <1>5

-----------------------------------------------------------------------------
(* The inductive invariant: for every path, who holds it and what is there. *)

Unregistered == {"transferring", "cancelling", "rejected", "discarding"} \cup Registering
Finished == {"idle", "settled"}

\* Somebody's cleanup of the path is under way.
CleanedNow(d) ==
  \/ xfer[d] \in {"discarding", "dropping"}
  \/ d \in sweeping
  \/ reading[d] = "cleaning"

\* What a transfer that is not over excludes.
TransferAlone(d) ==
  /\ xfer[d] \notin Finished => reading[d] = "none" /\ d \notin inbox \cup failed
  /\ xfer[d] \in Unregistered => entry[d] = "none" /\ d \notin sweeping

\* The receipt is claimed exactly while its consumer has not given it up, and
\* excludes every cleanup and every tombstone of its path.
ReceiptAlone(d) ==
  /\ entry[d] = "claimed" <=> reading[d] \in {"validating", "reading"}
  /\ entry[d] # "none" => d \notin sweeping \cup failed
  /\ entry[d] = "available" \/ d \in sweeping \cup inbox => reading[d] = "none"

\* Every cleanup holds its path, and holds it once.
HeldOnce(d) == active[d] = IF CleanedNow(d) THEN 1 ELSE 0

\* The payload stays until the consumer or a cleanup takes it.
PayloadThere(d) ==
  entry[d] = "available" \/ reading[d] = "validating" \/ xfer[d] \in {"reserving", "checking"} =>
    disk[d] = "payload"

\* What is left of a transfer that is over.
LeftoverOwned(d) ==
  disk[d] # "none" /\ xfer[d] \in Finished \cup {"announcing"} =>
    \/ entry[d] # "none"
    \/ active[d] > 0
    \/ reading[d] # "none"
    \/ d \in leaked
    \/ app = "recovering" /\ d \in sweep

StaleSwept(d) ==
  entry[d] = "available" /\ origin[d] = "windowClosed" =>
    d \in sweep \/ xfer[d] = "announcing"

\* Recovery runs before anything else does.
QuietRecovery(d) ==
  app = "recovering" => xfer[d] = "idle" /\ entry[d] = "none" /\ reading[d] = "none"

PathInv(d) ==
  /\ TransferAlone(d)
  /\ ReceiptAlone(d)
  /\ HeldOnce(d)
  /\ PayloadThere(d)
  /\ LeftoverOwned(d)
  /\ StaleSwept(d)
  /\ QuietRecovery(d)

PathsInv == \A d \in Downloads : PathInv(d)

\* The in-flight gate, the store and the consume gate balance.
PermitAccount ==
  /\ inFlightBytes \in 0 .. MaxInFlightBytes
  /\ inFlightBytes = Total(permit, Downloads)
  /\ Cardinality(Admitted) <= MaxInFlight
  /\ \A d \in Downloads : permit[d] = 0 <=> xfer[d] = "idle"

ReceiptAccount ==
  /\ pendingBytes \in 0 .. MaxPendingBytes
  /\ pendingBytes = Total(Size, Entries)
  /\ Cardinality(Entries) + Cardinality(leased) <= MaxReceipts

Reading == {d \in Downloads : reading[d] # "none"}
ConsumerAccount ==
  /\ consumers \in 0 .. MaxConsumes
  /\ consumers = Cardinality(Reading)

LeaseAccount == leased = {d \in Downloads : xfer[d] \in Registering}

Accounts == PermitAccount /\ ReceiptAccount /\ ConsumerAccount /\ LeaseAccount

DownloadsInv == Domains /\ Accounts /\ PathsInv

\* The parts are TypeOK and AccountsBalance, regrouped.
LEMMA Regrouped == TypeOK /\ AccountsBalance <=> Domains /\ Accounts
BY DEF TypeOK, AccountsBalance, Accounts, PermitAccount, ReceiptAccount, ConsumerAccount,
       LeaseAccount, Reading

-----------------------------------------------------------------------------
(* The steps.                                                              *)

USE DownloadAssumption DEF transfers, store, cleanup, consumption, storage, bounds

\* The steps of one path.
PathStep(d) ==
  \/ \E announced \in 1 .. MaxDownloadBytes : WillDownload(d, announced)
  \/ Observe(d) \/ DoneCompleted(d) \/ DoneFailed(d)
  \/ Progress(d)
  \/ ClaimReceipt(d) \/ ClaimRefused(d)
  \/ Expire(d) \/ SweepNext(d) \/ Swept(d)
  \/ CloseTab(d)
  \/ RecoverPath(d)

\* The steps of Next by whom they concern.
LEMMA NextCases ==
  ASSUME Next
  PROVE  \/ \E d \in Downloads : PathStep(d)
         \/ CloseWindow \/ OpenWindow \/ Crash \/ RecoveryDone
BY DEF Next, PathStep

\* Every step of a path keeps the variables in their domains.  Counting a cleanup
\* off needs the hold it took.
LEMMA StepTyped ==
  ASSUME NEW d \in Downloads, Domains, PathInv(d), PathStep(d)
  PROVE  Domains'
<1>1. ASSUME NEW announced \in 1 .. MaxDownloadBytes, WillDownload(d, announced)
      PROVE  Domains'
  BY <1>1 DEF Domains, WillDownload, Reserve, Free
<1>2. CASE Observe(d)
  BY <1>2 DEF Domains, Observe, Reserve
<1>3. CASE DoneCompleted(d)
  BY <1>3 DEF Domains, DoneCompleted, Discard, Retire, Hold, Registering
<1>4. CASE DoneFailed(d)
  BY <1>4 DEF Domains, DoneFailed, Discard, Retire, Hold, Registering
<1>5. CASE Discarded(d)
  BY <1>5 DEF Domains, Discarded, CleanupEnds, Left, Unlinked, DirectoryKept, UnlinkFailed, Settle,
              Fail, PathInv, HeldOnce, CleanedNow
<1>6. CASE Release(d)
  BY <1>6 DEF Domains, Release, Reserve
<1>7. CASE RegisterPurged(d)
  BY <1>7 DEF Domains, RegisterPurged, Drop, Hold, Registering
<1>8. CASE RegisterEntry(d)
  BY <1>8 DEF Domains, RegisterEntry
<1>9. CASE RegisterRefused(d)
  BY <1>9 DEF Domains, RegisterRefused, Drop, Hold, Fail, Registering
<1>10. CASE Dropped(d)
  BY <1>10 DEF Domains, Dropped, CleanupEnds, Left, Unlinked, DirectoryKept, UnlinkFailed, Settle, Fail,
               PathInv, HeldOnce, CleanedNow
<1>11. CASE Rejected(d)
  BY <1>11 DEF Domains, Rejected, Discard, Retire, Hold, Registering
<1>12. CASE Announce(d)
  BY <1>12 DEF Domains, Announce
<1>13. CASE AnnounceFails(d)
  BY <1>13 DEF Domains, AnnounceFails, Discard, Retire, Hold, Fail, Registering
<1>14. CASE UnlinkOpened(d)
  BY <1>14 DEF Domains, UnlinkOpened
<1>15. CASE ValidateFails(d)
  BY <1>15 DEF Domains, ValidateFails, Hold, Retire, Fail
<1>16. CASE ReadDone(d)
  BY <1>16 DEF Domains, ReadDone, Retire
<1>17. CASE Closed(d)
  BY <1>17 DEF Domains, Closed, Left, Unlinked, DirectoryKept, ConsumeEnds, Fail
<1>18. CASE Cleaned(d)
  BY <1>18 DEF Domains, Cleaned, CleanupEnds, Left, Unlinked, DirectoryKept, UnlinkFailed, Settle,
               ConsumeEnds, Fail, PathInv, HeldOnce, CleanedNow
<1>19. CASE ClaimReceipt(d)
  BY <1>19 DEF Domains, ClaimReceipt
<1>20. CASE ClaimRefused(d)
  BY <1>20 DEF Domains, ClaimRefused
<1>21. CASE Expire(d)
  BY <1>21 DEF Domains, Expire, SweepPath, Retire, Hold
<1>22. CASE SweepNext(d)
  BY <1>22 DEF Domains, SweepNext, SweepPath, Retire, Hold
<1>23. CASE Swept(d)
  BY <1>23 DEF Domains, Swept, CleanupEnds, Left, Unlinked, DirectoryKept, UnlinkFailed, Settle, Fail,
               PathInv, HeldOnce, CleanedNow
<1>24. CASE CloseTab(d)
  BY <1>24 DEF Domains, CloseTab
<1>25. CASE RecoverPath(d)
  BY <1>25 DEF Domains, RecoverPath, Left, Unlinked, DirectoryKept, UnlinkFailed, Fail
<1> QED
  BY <1>1, <1>2, <1>3, <1>4, <1>5, <1>6, <1>7, <1>8, <1>9, <1>10, <1>11, <1>12, <1>13, <1>14,
     <1>15, <1>16, <1>17, <1>18, <1>19, <1>20, <1>21, <1>22, <1>23, <1>24, <1>25
  DEF PathStep, Progress

\* Nothing about another path changes.
Same(e) ==
  /\ app' = app
  /\ xfer'[e] = xfer[e] /\ origin'[e] = origin[e]
  /\ entry'[e] = entry[e] /\ reading'[e] = reading[e]
  /\ active'[e] = active[e] /\ disk'[e] = disk[e]
  /\ e \in failed' <=> e \in failed
  /\ e \in sweeping' <=> e \in sweeping
  /\ e \in inbox' <=> e \in inbox
  /\ e \in sweep' <=> e \in sweep
  /\ e \in leaked' <=> e \in leaked

\* A path nothing happens to keeps its invariant.
LEMMA PathKept ==
  ASSUME NEW e, PathInv(e), Same(e)
  PROVE  PathInv(e)'
BY DEF Same, PathInv, TransferAlone, ReceiptAlone, HeldOnce, CleanedNow, PayloadThere,
       LeftoverOwned, StaleSwept, QuietRecovery

\* A step of one path leaves the others alone.
LEMMA OthersSame ==
  ASSUME NEW d \in Downloads, Domains, PathStep(d), NEW e \in Downloads \ {d}
  PROVE  Same(e)
<1>1. ASSUME NEW announced \in 1 .. MaxDownloadBytes, WillDownload(d, announced)
      PROVE  Same(e)
  BY <1>1 DEF Domains, WillDownload, Reserve, Free, Same
<1>2. CASE Observe(d)
  BY <1>2 DEF Domains, Observe, Reserve, Same
<1>3. CASE DoneCompleted(d)
  BY <1>3 DEF Domains, DoneCompleted, Discard, Retire, Hold, Same
<1>4. CASE DoneFailed(d)
  BY <1>4 DEF Domains, DoneFailed, Discard, Retire, Hold, Same
<1>5. CASE Discarded(d)
  BY <1>5 DEF Domains, Discarded, CleanupEnds, Left, Unlinked, DirectoryKept, UnlinkFailed, Settle,
              Fail, Same
<1>6. CASE Release(d)
  BY <1>6 DEF Domains, Release, Reserve, Same
<1>7. CASE RegisterPurged(d)
  BY <1>7 DEF Domains, RegisterPurged, Drop, Hold, Same
<1>8. CASE RegisterEntry(d)
  BY <1>8 DEF Domains, RegisterEntry, Same
<1>9. CASE RegisterRefused(d)
  BY <1>9 DEF Domains, RegisterRefused, Drop, Hold, Fail, Same
<1>10. CASE Dropped(d)
  BY <1>10 DEF Domains, Dropped, CleanupEnds, Left, Unlinked, DirectoryKept, UnlinkFailed, Settle, Fail,
               Same
<1>11. CASE Rejected(d)
  BY <1>11 DEF Domains, Rejected, Discard, Retire, Hold, Same
<1>12. CASE Announce(d)
  BY <1>12 DEF Domains, Announce, Same
<1>13. CASE AnnounceFails(d)
  BY <1>13 DEF Domains, AnnounceFails, Discard, Retire, Hold, Fail, Same
<1>14. CASE UnlinkOpened(d)
  BY <1>14 DEF Domains, UnlinkOpened, Same
<1>15. CASE ValidateFails(d)
  BY <1>15 DEF Domains, ValidateFails, Hold, Retire, Fail, Same
<1>16. CASE ReadDone(d)
  BY <1>16 DEF Domains, ReadDone, Retire, Same
<1>17. CASE Closed(d)
  BY <1>17 DEF Domains, Closed, Left, Unlinked, DirectoryKept, ConsumeEnds, Fail, Same
<1>18. CASE Cleaned(d)
  BY <1>18 DEF Domains, Cleaned, CleanupEnds, Left, Unlinked, DirectoryKept, UnlinkFailed, Settle,
               ConsumeEnds, Fail, Same
<1>19. CASE ClaimReceipt(d)
  BY <1>19 DEF Domains, ClaimReceipt, Same
<1>20. CASE ClaimRefused(d)
  BY <1>20 DEF Domains, ClaimRefused, Same
<1>21. CASE Expire(d)
  BY <1>21 DEF Domains, Expire, SweepPath, Retire, Hold, Same
<1>22. CASE SweepNext(d)
  BY <1>22 DEF Domains, SweepNext, SweepPath, Retire, Hold, Same
<1>23. CASE Swept(d)
  BY <1>23 DEF Domains, Swept, CleanupEnds, Left, Unlinked, DirectoryKept, UnlinkFailed, Settle, Fail,
               Same
<1>24. CASE CloseTab(d)
  BY <1>24 DEF Domains, CloseTab, Same
<1>25. CASE RecoverPath(d)
  BY <1>25 DEF Domains, RecoverPath, Left, Unlinked, DirectoryKept, UnlinkFailed, Fail, Same
<1> QED
  BY <1>1, <1>2, <1>3, <1>4, <1>5, <1>6, <1>7, <1>8, <1>9, <1>10, <1>11, <1>12, <1>13, <1>14,
     <1>15, <1>16, <1>17, <1>18, <1>19, <1>20, <1>21, <1>22, <1>23, <1>24, <1>25
  DEF PathStep, Progress

\* A step of a path keeps the path's invariant.
LEMMA ActedPath ==
  ASSUME NEW d \in Downloads, Domains, LeaseAccount, PathInv(d), PathStep(d)
  PROVE  PathInv(d)'
<1> USE DEF PathInv, TransferAlone, ReceiptAlone, HeldOnce, CleanedNow, PayloadThere,
            LeftoverOwned, StaleSwept, QuietRecovery, Unregistered, Finished, Registering, Tracked
<1>1. ASSUME NEW announced \in 1 .. MaxDownloadBytes, WillDownload(d, announced)
      PROVE  PathInv(d)'
  BY <1>1 DEF Domains, WillDownload, Reserve, Free, Entries
<1>2. CASE Observe(d)
  BY <1>2 DEF Domains, Observe, Reserve
<1>3. CASE DoneCompleted(d)
  BY <1>3 DEF Domains, DoneCompleted, Discard, Retire, Hold, LeaseAccount, MayRegister
<1>4. CASE DoneFailed(d)
  BY <1>4 DEF Domains, DoneFailed, Discard, Retire, Hold, LeaseAccount
<1>5. CASE Discarded(d)
  BY <1>5 DEF Domains, Discarded, CleanupEnds, Left, Unlinked, DirectoryKept, UnlinkFailed, Settle, Fail
<1>6. CASE Release(d)
  BY <1>6 DEF Domains, Release, Reserve
<1>7. CASE RegisterPurged(d)
  BY <1>7 DEF Domains, RegisterPurged, Drop, Hold
<1>8. CASE RegisterEntry(d)
  BY <1>8 DEF Domains, RegisterEntry
<1>9. CASE RegisterRefused(d)
  BY <1>9 DEF Domains, RegisterRefused, Drop, Hold, Fail
<1>10. CASE Dropped(d)
  BY <1>10 DEF Domains, Dropped, CleanupEnds, Left, Unlinked, DirectoryKept, UnlinkFailed, Settle, Fail
<1>11. CASE Rejected(d)
  BY <1>11 DEF Domains, Rejected, Discard, Retire, Hold, LeaseAccount
<1>12. CASE Announce(d)
  BY <1>12 DEF Domains, Announce, OriginLive
<1>13. CASE AnnounceFails(d)
  BY <1>13 DEF Domains, AnnounceFails, Discard, Retire, Hold, Fail, LeaseAccount, OriginLive
<1>14. CASE UnlinkOpened(d)
  BY <1>14 DEF Domains, UnlinkOpened
<1>15. CASE ValidateFails(d)
  BY <1>15 DEF Domains, ValidateFails, Hold, Retire, Fail
<1>16. CASE ReadDone(d)
  BY <1>16 DEF Domains, ReadDone, Retire
<1>17. CASE Closed(d)
  BY <1>17 DEF Domains, Closed, Left, Unlinked, DirectoryKept, ConsumeEnds, Fail
<1>18. CASE Cleaned(d)
  BY <1>18 DEF Domains, Cleaned, CleanupEnds, Left, Unlinked, DirectoryKept, UnlinkFailed, Settle,
               ConsumeEnds, Fail
<1>19. CASE ClaimReceipt(d)
  BY <1>19 DEF Domains, ClaimReceipt
<1>20. CASE ClaimRefused(d)
  BY <1>20 DEF Domains, ClaimRefused
<1>21. CASE Expire(d)
  BY <1>21 DEF Domains, Expire, SweepPath, Retire, Hold, Sweepable
<1>22. CASE SweepNext(d)
  BY <1>22 DEF Domains, SweepNext, SweepPath, Retire, Hold, Sweepable, LeaseAccount
<1>23. CASE Swept(d)
  BY <1>23 DEF Domains, Swept, CleanupEnds, Left, Unlinked, DirectoryKept, UnlinkFailed, Settle, Fail
<1>24. CASE CloseTab(d)
  BY <1>24 DEF Domains, CloseTab
<1>25. CASE RecoverPath(d)
  BY <1>25 DEF Domains, RecoverPath, Left, Unlinked, DirectoryKept, UnlinkFailed, Fail
<1> QED
  BY <1>1, <1>2, <1>3, <1>4, <1>5, <1>6, <1>7, <1>8, <1>9, <1>10, <1>11, <1>12, <1>13, <1>14,
     <1>15, <1>16, <1>17, <1>18, <1>19, <1>20, <1>21, <1>22, <1>23, <1>24, <1>25
  DEF PathStep, Progress

-----------------------------------------------------------------------------
(* The accounts.                                                           *)

\* Subsets of the downloads are finite, and counted by naturals.
LEMMA Countable ==
  ASSUME NEW S, S \subseteq Downloads
  PROVE  IsFiniteSet(S) /\ Cardinality(S) \in Nat
BY FS_Subset, FS_CardinalityType

\* The gate does not notice a step that leaves permits and idle transfers alone.
LEMMA PermitKept ==
  ASSUME Domains, PermitAccount, permit' = permit, inFlightBytes' = inFlightBytes,
         \A e \in Downloads : xfer'[e] = "idle" <=> xfer[e] = "idle"
  PROVE  PermitAccount'
<1>1. Admitted' = Admitted
  BY DEF Admitted
<1> QED
  BY <1>1 DEF PermitAccount

\* A reservation moves the total by what its permit moves, and never below zero.
\* A new permit needs a free slot, a bigger one room.
LEMMA ReserveBalances ==
  ASSUME Domains, PermitAccount, NEW d \in Downloads, NEW bytes \in 0 .. MaxDownloadBytes,
         Reserve(d, bytes),
         bytes = 0 \/ ReservationFits(d, bytes),
         permit[d] > 0 \/ Cardinality(Admitted) < MaxInFlight,
         \A e \in Downloads \ {d} : xfer'[e] = xfer[e],
         bytes = 0 <=> xfer'[d] = "idle"
  PROVE  PermitAccount'
<1>1. /\ permit \in [Downloads -> Nat] /\ permit' \in [Downloads -> Nat]
      /\ permit'[d] = bytes
      /\ \A e \in Downloads \ {d} : permit'[e] = permit[e]
  BY DEF Domains, Reserve
<1>2. Counts(permit, Downloads)
  BY <1>1 DEF Counts
<1>3. /\ Total(permit', Downloads) = Total(permit, Downloads) - permit[d] + bytes
      /\ Total(permit, Downloads) - permit[d] \in Nat
  BY <1>1, <1>2, TotalUpdate
<1>4. inFlightBytes' = Total(permit', Downloads) /\ inFlightBytes' \in 0 .. MaxInFlightBytes
  BY <1>1, <1>3 DEF PermitAccount, Reserve, ReservationFits
<1>5. Cardinality(Admitted') <= MaxInFlight
  <2>1. IsFiniteSet(Admitted) /\ Cardinality(Admitted) \in Nat
    BY Countable DEF Admitted
  <2>2. CASE permit[d] > 0
    <3>1. Admitted' \subseteq Admitted
      BY <1>1, <2>2 DEF Admitted
    <3>2. Cardinality(Admitted') <= Cardinality(Admitted) /\ Cardinality(Admitted') \in Nat
      BY <2>1, <3>1, FS_Subset, FS_CardinalityType
    <3> QED
      BY <2>1, <3>2 DEF PermitAccount
  <2>3. CASE Cardinality(Admitted) < MaxInFlight
    <3>1. Admitted' \subseteq Admitted \cup {d}
      BY <1>1 DEF Admitted
    <3>2. /\ IsFiniteSet(Admitted \cup {d})
          /\ Cardinality(Admitted \cup {d})
               = IF d \in Admitted THEN Cardinality(Admitted) ELSE Cardinality(Admitted) + 1
      BY ONLY <2>1, FS_AddElement
    <3>3. /\ Cardinality(Admitted') <= Cardinality(Admitted \cup {d})
          /\ Cardinality(Admitted') \in Nat /\ Cardinality(Admitted \cup {d}) \in Nat
      BY <3>1, <3>2, FS_Subset, FS_CardinalityType
    <3> QED
      BY ONLY <2>1, <2>3, <3>2, <3>3, DownloadAssumption
  <2> QED
    BY <2>2, <2>3
<1>6. \A e \in Downloads : permit'[e] = 0 <=> xfer'[e] = "idle"
  BY <1>1 DEF PermitAccount
<1> QED
  BY <1>4, <1>5, <1>6 DEF PermitAccount

\* Every step of a path keeps the account of the in-flight gate.
LEMMA PermitStep ==
  ASSUME NEW d \in Downloads, Domains, PermitAccount, PathStep(d)
  PROVE  PermitAccount'
<1>1. ASSUME NEW announced \in 1 .. MaxDownloadBytes, WillDownload(d, announced)
      PROVE  PermitAccount'
  BY <1>1, ReserveBalances DEF Domains, WillDownload
<1>2. CASE Observe(d)
  <2>1. CASE UNCHANGED <<permit, inFlightBytes>>
    BY <1>2, <2>1, PermitKept DEF Observe, Domains
  <2>2. CASE ReservationFits(d, Size[d]) /\ Reserve(d, Size[d]) /\ UNCHANGED xfer
    <3>1. Size[d] \in 1 .. MaxDownloadBytes /\ permit[d] > 0 /\ xfer[d] # "idle"
      BY <1>2, <2>2 DEF Observe, Domains, PermitAccount
    <3> QED
      BY <2>2, <3>1, ReserveBalances
  <2> QED
    BY <1>2, <2>1, <2>2 DEF Observe
<1>3. CASE DoneCompleted(d)
  BY <1>3, PermitKept DEF DoneCompleted, Discard, Domains
<1>4. CASE DoneFailed(d)
  BY <1>4, PermitKept DEF DoneFailed, Discard, Domains
<1>5. CASE Discarded(d)
  BY <1>5, PermitKept DEF Discarded, Domains
<1>6. CASE Release(d)
  <2>1. xfer'[d] = "idle" /\ \A e \in Downloads \ {d} : xfer'[e] = xfer[e]
    BY <1>6 DEF Release, Domains
  <2>2. permit[d] > 0
    BY <1>6 DEF Release, Domains, PermitAccount
  <2> QED
    BY <1>6, <2>1, <2>2, ReserveBalances DEF Release
<1>7. CASE RegisterPurged(d)
  BY <1>7, PermitKept DEF RegisterPurged, Drop, Domains
<1>8. CASE RegisterEntry(d)
  BY <1>8, PermitKept DEF RegisterEntry, Domains
<1>9. CASE RegisterRefused(d)
  BY <1>9, PermitKept DEF RegisterRefused, Drop, Domains
<1>10. CASE Dropped(d)
  BY <1>10, PermitKept DEF Dropped, Domains
<1>11. CASE Rejected(d)
  BY <1>11, PermitKept DEF Rejected, Discard, Domains
<1>12. CASE Announce(d)
  BY <1>12, PermitKept DEF Announce, Domains
<1>13. CASE AnnounceFails(d)
  BY <1>13, PermitKept DEF AnnounceFails, Discard, Domains
<1>14. CASE UnlinkOpened(d)
  BY <1>14, PermitKept DEF UnlinkOpened, Domains
<1>15. CASE ValidateFails(d)
  BY <1>15, PermitKept DEF ValidateFails, Domains
<1>16. CASE ReadDone(d)
  BY <1>16, PermitKept DEF ReadDone, Domains
<1>17. CASE Closed(d)
  BY <1>17, PermitKept DEF Closed, Domains
<1>18. CASE Cleaned(d)
  BY <1>18, PermitKept DEF Cleaned, Domains
<1>19. CASE ClaimReceipt(d)
  BY <1>19, PermitKept DEF ClaimReceipt, Domains
<1>20. CASE ClaimRefused(d)
  BY <1>20, PermitKept DEF ClaimRefused, Domains
<1>21. CASE Expire(d)
  BY <1>21, PermitKept DEF Expire, Domains
<1>22. CASE SweepNext(d)
  BY <1>22, PermitKept DEF SweepNext, Domains
<1>23. CASE Swept(d)
  BY <1>23, PermitKept DEF Swept, Domains
<1>24. CASE CloseTab(d)
  BY <1>24, PermitKept DEF CloseTab, Domains
<1>25. CASE RecoverPath(d)
  BY <1>25, PermitKept DEF RecoverPath, Domains
<1> QED
  BY <1>1, <1>2, <1>3, <1>4, <1>5, <1>6, <1>7, <1>8, <1>9, <1>10, <1>11, <1>12, <1>13, <1>14,
     <1>15, <1>16, <1>17, <1>18, <1>19, <1>20, <1>21, <1>22, <1>23, <1>24, <1>25
  DEF PathStep, Progress

\* A receipt's bytes leave the account with the receipt.
LEMMA RetireBalances ==
  ASSUME Domains, ReceiptAccount, NEW d \in Downloads, entry[d] # "none", Retire(d),
         leased' \subseteq leased
  PROVE  ReceiptAccount'
<1>1. Entries' = Entries \ {d} /\ d \in Entries
  BY DEF Domains, Retire, Entries
<1>2. IsFiniteSet(Entries) /\ IsFiniteSet(leased) /\ Entries \subseteq Downloads
  BY Countable DEF Entries, Domains
<1>3. Counts(Size, Entries)
  BY <1>2 DEF Counts
<1>4. /\ Total(Size, Entries) = Size[d] + Total(Size, Entries')
      /\ Total(Size, Entries') \in Nat
  BY <1>1, <1>3, TotalTakeOut
<1>5. pendingBytes' = Total(Size, Entries') /\ pendingBytes' \in 0 .. MaxPendingBytes
  BY <1>4 DEF ReceiptAccount, Retire
<1>6. /\ Cardinality(Entries') <= Cardinality(Entries) /\ Cardinality(leased') <= Cardinality(leased)
      /\ Cardinality(Entries') \in Nat /\ Cardinality(leased') \in Nat
      /\ Cardinality(Entries) \in Nat /\ Cardinality(leased) \in Nat
  <2>1. Entries' \subseteq Entries
    BY <1>1
  <2> QED
    BY <1>2, <2>1, FS_Subset, FS_CardinalityType
<1> QED
  BY <1>5, <1>6 DEF ReceiptAccount

\* The store does not notice a step that adds no receipt and no lease.
LEMMA ReceiptKept ==
  ASSUME Domains, ReceiptAccount, pendingBytes' = pendingBytes, Entries' = Entries,
         leased' \subseteq leased
  PROVE  ReceiptAccount'
<1>1. IsFiniteSet(Entries) /\ IsFiniteSet(leased)
  BY Countable DEF Entries, Domains
<1>2. /\ Cardinality(leased') <= Cardinality(leased)
      /\ Cardinality(leased') \in Nat /\ Cardinality(leased) \in Nat /\ Cardinality(Entries) \in Nat
  BY <1>1, FS_Subset, FS_CardinalityType
<1> QED
  BY <1>2 DEF ReceiptAccount

\* A lease that starts takes one of the free places.
LEMMA LeaseTaken ==
  ASSUME Domains, ReceiptAccount, NEW d \in Downloads, MayRegister(d),
         leased' = leased \cup {d}, pendingBytes' = pendingBytes, entry' = entry
  PROVE  ReceiptAccount'
<1>1. IsFiniteSet(leased) /\ Cardinality(leased) \in Nat /\ Cardinality(Entries) \in Nat
  BY Countable DEF Entries, Domains
<1>2. Cardinality(leased') = Cardinality(leased) + 1
  BY <1>1, FS_AddElement DEF MayRegister
<1>3. Entries' = Entries
  BY DEF Entries
<1> QED
  BY <1>1, <1>2, <1>3 DEF ReceiptAccount, MayRegister

\* A registration turns its lease into a receipt within the quota.
LEMMA EntryBalances ==
  ASSUME Domains, ReceiptAccount, LeaseAccount, NEW d \in Downloads, entry[d] = "none", RegisterEntry(d)
  PROVE  ReceiptAccount'
<1>1. Entries' = Entries \cup {d} /\ d \notin Entries /\ Entries' \subseteq Downloads
  BY DEF Domains, RegisterEntry, Entries
<1>2. leased' = leased \ {d} /\ d \in leased
  BY DEF RegisterEntry, LeaseAccount, Registering
<1>3. IsFiniteSet(Entries) /\ IsFiniteSet(Entries') /\ IsFiniteSet(leased)
  BY <1>1, Countable DEF Entries, Domains
<1>4. Counts(Size, Entries')
  BY <1>1, <1>3 DEF Counts
<1>5. Entries' \ {d} = Entries
  BY <1>1
<1>6. /\ Total(Size, Entries') = Size[d] + Total(Size, Entries)
      /\ Total(Size, Entries) \in Nat
  BY <1>1, <1>4, <1>5, TotalTakeOut
<1>7. pendingBytes' = Total(Size, Entries') /\ pendingBytes' \in 0 .. MaxPendingBytes
  BY <1>6 DEF ReceiptAccount, RegisterEntry, FitsQuota
<1>8. /\ Cardinality(Entries') = Cardinality(Entries) + 1
      /\ Cardinality(leased') = Cardinality(leased) - 1
      /\ Cardinality(Entries) \in Nat /\ Cardinality(leased) \in Nat
  BY <1>1, <1>2, <1>3, FS_AddElement, FS_RemoveElement, FS_CardinalityType
<1> QED
  BY <1>7, <1>8 DEF ReceiptAccount

\* Every step of a path keeps the account of the store.
LEMMA ReceiptStep ==
  ASSUME NEW d \in Downloads, Domains, ReceiptAccount, LeaseAccount, PathInv(d), PathStep(d)
  PROVE  ReceiptAccount'
<1>1. ASSUME NEW announced \in 1 .. MaxDownloadBytes, WillDownload(d, announced)
      PROVE  ReceiptAccount'
  BY <1>1, ReceiptKept DEF WillDownload, Entries
<1>2. CASE Observe(d)
  BY <1>2, ReceiptKept DEF Observe, Entries
<1>3. CASE DoneCompleted(d)
  <2>1. CASE MayRegister(d)
    BY <1>3, <2>1, LeaseTaken DEF DoneCompleted
  <2>2. CASE ~MayRegister(d)
    BY <1>3, <2>2, RetireBalances, ReceiptKept DEF DoneCompleted, Discard, Entries
  <2> QED
    BY <2>1, <2>2
<1>4. CASE DoneFailed(d)
  BY <1>4, RetireBalances, ReceiptKept DEF DoneFailed, Discard, Entries
<1>5. CASE Discarded(d)
  BY <1>5, ReceiptKept DEF Discarded, Entries
<1>6. CASE Release(d)
  BY <1>6, ReceiptKept DEF Release, Entries
<1>7. CASE RegisterPurged(d)
  BY <1>7, ReceiptKept DEF RegisterPurged, Entries
<1>8. CASE RegisterEntry(d)
  BY <1>8, EntryBalances DEF RegisterEntry, PathInv, TransferAlone, Unregistered,
     Registering
<1>9. CASE RegisterRefused(d)
  BY <1>9, ReceiptKept DEF RegisterRefused, Entries
<1>10. CASE Dropped(d)
  BY <1>10, ReceiptKept DEF Dropped, Entries
<1>11. CASE Rejected(d)
  BY <1>11, RetireBalances, ReceiptKept DEF Rejected, Discard, Entries
<1>12. CASE Announce(d)
  BY <1>12, ReceiptKept DEF Announce, Entries
<1>13. CASE AnnounceFails(d)
  BY <1>13, RetireBalances, ReceiptKept DEF AnnounceFails, Discard, Entries
<1>14. CASE UnlinkOpened(d)
  BY <1>14, ReceiptKept DEF UnlinkOpened, Entries
<1>15. CASE ValidateFails(d)
  BY <1>15, RetireBalances DEF ValidateFails, PathInv, ReceiptAlone
<1>16. CASE ReadDone(d)
  BY <1>16, RetireBalances DEF ReadDone, PathInv, ReceiptAlone
<1>17. CASE Closed(d)
  BY <1>17, ReceiptKept DEF Closed, Entries
<1>18. CASE Cleaned(d)
  BY <1>18, ReceiptKept DEF Cleaned, Entries
<1>19. CASE ClaimReceipt(d)
  BY <1>19, ReceiptKept DEF ClaimReceipt, Domains, Entries
<1>20. CASE ClaimRefused(d)
  BY <1>20, ReceiptKept DEF ClaimRefused, Entries
<1>21. CASE Expire(d)
  BY <1>21, RetireBalances, ReceiptKept DEF Expire, Sweepable, SweepPath, Entries
<1>22. CASE SweepNext(d)
  BY <1>22, RetireBalances, ReceiptKept DEF SweepNext, Sweepable, SweepPath, Entries
<1>23. CASE Swept(d)
  BY <1>23, ReceiptKept DEF Swept, Entries
<1>24. CASE CloseTab(d)
  BY <1>24, ReceiptKept DEF CloseTab, Entries
<1>25. CASE RecoverPath(d)
  BY <1>25, ReceiptKept DEF RecoverPath, Entries
<1> QED
  BY <1>1, <1>2, <1>3, <1>4, <1>5, <1>6, <1>7, <1>8, <1>9, <1>10, <1>11, <1>12, <1>13, <1>14,
     <1>15, <1>16, <1>17, <1>18, <1>19, <1>20, <1>21, <1>22, <1>23, <1>24, <1>25
  DEF PathStep, Progress

\* Every step of a path keeps the leases those of the registrations under way.
LEMMA LeaseStep ==
  ASSUME NEW d \in Downloads, Domains, LeaseAccount, PathStep(d)
  PROVE  LeaseAccount'
<1>1. ASSUME NEW announced \in 1 .. MaxDownloadBytes, WillDownload(d, announced)
      PROVE  LeaseAccount'
  BY <1>1 DEF WillDownload, Free, Domains, LeaseAccount, Registering
<1>2. CASE Observe(d)
  BY <1>2 DEF Observe, Domains, LeaseAccount, Registering
<1>3. CASE DoneCompleted(d)
  BY <1>3 DEF DoneCompleted, Discard, Domains, LeaseAccount, Registering
<1>4. CASE DoneFailed(d)
  BY <1>4 DEF DoneFailed, Discard, Domains, LeaseAccount, Registering
<1>5. CASE Discarded(d)
  BY <1>5 DEF Discarded, Domains, LeaseAccount, Registering
<1>6. CASE Release(d)
  BY <1>6 DEF Release, Domains, LeaseAccount, Registering
<1>7. CASE RegisterPurged(d)
  BY <1>7 DEF RegisterPurged, Drop, Domains, LeaseAccount, Registering
<1>8. CASE RegisterEntry(d)
  BY <1>8 DEF RegisterEntry, Domains, LeaseAccount, Registering
<1>9. CASE RegisterRefused(d)
  BY <1>9 DEF RegisterRefused, Drop, Domains, LeaseAccount, Registering
<1>10. CASE Dropped(d)
  BY <1>10 DEF Dropped, Domains, LeaseAccount, Registering
<1>11. CASE Rejected(d)
  BY <1>11 DEF Rejected, Discard, Domains, LeaseAccount, Registering
<1>12. CASE Announce(d)
  BY <1>12 DEF Announce, Domains, LeaseAccount, Registering
<1>13. CASE AnnounceFails(d)
  BY <1>13 DEF AnnounceFails, Discard, Domains, LeaseAccount, Registering
<1>14. CASE UnlinkOpened(d)
  BY <1>14 DEF UnlinkOpened, Domains, LeaseAccount, Registering
<1>15. CASE ValidateFails(d)
  BY <1>15 DEF ValidateFails, Domains, LeaseAccount, Registering
<1>16. CASE ReadDone(d)
  BY <1>16 DEF ReadDone, Domains, LeaseAccount, Registering
<1>17. CASE Closed(d)
  BY <1>17 DEF Closed, Domains, LeaseAccount, Registering
<1>18. CASE Cleaned(d)
  BY <1>18 DEF Cleaned, Domains, LeaseAccount, Registering
<1>19. CASE ClaimReceipt(d)
  BY <1>19 DEF ClaimReceipt, Domains, LeaseAccount, Registering
<1>20. CASE ClaimRefused(d)
  BY <1>20 DEF ClaimRefused, Domains, LeaseAccount, Registering
<1>21. CASE Expire(d)
  BY <1>21 DEF Expire, Domains, LeaseAccount, Registering
<1>22. CASE SweepNext(d)
  BY <1>22 DEF SweepNext, Domains, LeaseAccount, Registering
<1>23. CASE Swept(d)
  BY <1>23 DEF Swept, Domains, LeaseAccount, Registering
<1>24. CASE CloseTab(d)
  BY <1>24 DEF CloseTab, Domains, LeaseAccount, Registering
<1>25. CASE RecoverPath(d)
  BY <1>25 DEF RecoverPath, Domains, LeaseAccount, Registering
<1> QED
  BY <1>1, <1>2, <1>3, <1>4, <1>5, <1>6, <1>7, <1>8, <1>9, <1>10, <1>11, <1>12, <1>13, <1>14,
     <1>15, <1>16, <1>17, <1>18, <1>19, <1>20, <1>21, <1>22, <1>23, <1>24, <1>25
  DEF PathStep, Progress

\* The consume gate does not notice a step that starts and ends no consumer.
LEMMA ConsumerKept ==
  ASSUME ConsumerAccount, consumers' = consumers, Reading' = Reading
  PROVE  ConsumerAccount'
BY DEF ConsumerAccount

\* A consumer that ends returns its permit.
LEMMA ConsumerEnds ==
  ASSUME Domains, ConsumerAccount, NEW d \in Downloads, reading[d] # "none", ConsumeEnds(d)
  PROVE  ConsumerAccount'
<1>1. Reading' = Reading \ {d} /\ d \in Reading
  BY DEF Domains, ConsumeEnds, Reading
<1>2. IsFiniteSet(Reading) /\ Cardinality(Reading) \in Nat
  BY Countable DEF Reading
<1>3. Cardinality(Reading') = Cardinality(Reading) - 1 /\ Cardinality(Reading') \in Nat
  BY <1>1, <1>2, FS_RemoveElement, FS_CardinalityType
<1> QED
  BY <1>2, <1>3 DEF ConsumerAccount, ConsumeEnds

\* A claim takes a permit of the gate.
LEMMA ConsumerStarts ==
  ASSUME Domains, ConsumerAccount, NEW d \in Downloads, reading[d] = "none", ClaimReceipt(d)
  PROVE  ConsumerAccount'
<1>1. Reading' = Reading \cup {d} /\ d \notin Reading
  BY DEF Domains, ClaimReceipt, Reading
<1>2. IsFiniteSet(Reading) /\ Cardinality(Reading) \in Nat
  BY Countable DEF Reading
<1>3. Cardinality(Reading') = Cardinality(Reading) + 1
  BY <1>1, <1>2, FS_AddElement
<1> QED
  BY <1>2, <1>3 DEF ConsumerAccount, ClaimReceipt, GateOpen

\* Every step of a path keeps the account of the consume gate.
LEMMA ConsumerStep ==
  ASSUME NEW d \in Downloads, Domains, ConsumerAccount, PathInv(d), PathStep(d)
  PROVE  ConsumerAccount'
<1>1. ASSUME NEW announced \in 1 .. MaxDownloadBytes, WillDownload(d, announced)
      PROVE  ConsumerAccount'
  BY <1>1, ConsumerKept DEF WillDownload, Reading
<1>2. CASE Observe(d)
  BY <1>2, ConsumerKept DEF Observe, Reading
<1>3. CASE DoneCompleted(d)
  BY <1>3, ConsumerKept DEF DoneCompleted, Reading
<1>4. CASE DoneFailed(d)
  BY <1>4, ConsumerKept DEF DoneFailed, Reading
<1>5. CASE Discarded(d)
  BY <1>5, ConsumerKept DEF Discarded, Reading
<1>6. CASE Release(d)
  BY <1>6, ConsumerKept DEF Release, Reading
<1>7. CASE RegisterPurged(d)
  BY <1>7, ConsumerKept DEF RegisterPurged, Reading
<1>8. CASE RegisterEntry(d)
  BY <1>8, ConsumerKept DEF RegisterEntry, Reading
<1>9. CASE RegisterRefused(d)
  BY <1>9, ConsumerKept DEF RegisterRefused, Reading
<1>10. CASE Dropped(d)
  BY <1>10, ConsumerKept DEF Dropped, Reading
<1>11. CASE Rejected(d)
  BY <1>11, ConsumerKept DEF Rejected, Reading
<1>12. CASE Announce(d)
  BY <1>12, ConsumerKept DEF Announce, Reading
<1>13. CASE AnnounceFails(d)
  BY <1>13, ConsumerKept DEF AnnounceFails, Reading
<1>14. CASE UnlinkOpened(d)
  BY <1>14, ConsumerKept DEF UnlinkOpened, Domains, Reading
<1>15. CASE ValidateFails(d)
  BY <1>15, ConsumerKept DEF ValidateFails, Domains, Reading
<1>16. CASE ReadDone(d)
  BY <1>16, ConsumerKept DEF ReadDone, Domains, Reading
<1>17. CASE Closed(d)
  BY <1>17, ConsumerEnds DEF Closed
<1>18. CASE Cleaned(d)
  BY <1>18, ConsumerEnds DEF Cleaned
<1>19. CASE ClaimReceipt(d)
  BY <1>19, ConsumerStarts DEF ClaimReceipt, PathInv, ReceiptAlone
<1>20. CASE ClaimRefused(d)
  BY <1>20, ConsumerKept DEF ClaimRefused, Reading
<1>21. CASE Expire(d)
  BY <1>21, ConsumerKept DEF Expire, Reading
<1>22. CASE SweepNext(d)
  BY <1>22, ConsumerKept DEF SweepNext, Reading
<1>23. CASE Swept(d)
  BY <1>23, ConsumerKept DEF Swept, Reading
<1>24. CASE CloseTab(d)
  BY <1>24, ConsumerKept DEF CloseTab, Reading
<1>25. CASE RecoverPath(d)
  BY <1>25, ConsumerKept DEF RecoverPath, Reading
<1> QED
  BY <1>1, <1>2, <1>3, <1>4, <1>5, <1>6, <1>7, <1>8, <1>9, <1>10, <1>11, <1>12, <1>13, <1>14,
     <1>15, <1>16, <1>17, <1>18, <1>19, <1>20, <1>21, <1>22, <1>23, <1>24, <1>25
  DEF PathStep, Progress

-----------------------------------------------------------------------------
(* Windows, crashes and recovery.                                          *)

\* The window goes: nothing is registered or announced to it any more, and its
\* receipts are to be swept.
LEMMA CloseKeeps ==
  ASSUME DownloadsInv, CloseWindow
  PROVE  DownloadsInv'
<1>1. Domains'
  BY DEF DownloadsInv, Domains, CloseWindow, Entries
<1>2. Accounts'
  <2>1. Admitted' = Admitted /\ Entries' = Entries /\ Reading' = Reading
    BY DEF CloseWindow, Admitted, Entries, Reading
  <2> QED
    BY <2>1 DEF DownloadsInv, CloseWindow, Accounts, PermitAccount, ReceiptAccount, ConsumerAccount,
                LeaseAccount
<1>3. PathsInv'
  BY DEF DownloadsInv, CloseWindow, Domains, PathsInv, Entries, Finished, Unregistered,
         PathInv, TransferAlone, ReceiptAlone, HeldOnce, CleanedNow, PayloadThere,
         LeftoverOwned, StaleSwept, QuietRecovery
<1> QED
  BY <1>1, <1>2, <1>3 DEF DownloadsInv

\* A window opens, or recovery is over.
LEMMA OpenKeeps ==
  ASSUME DownloadsInv, OpenWindow \/ RecoveryDone
  PROVE  DownloadsInv'
<1>1. /\ app' = "open" /\ (app = "recovering" => sweep = {})
      /\ UNCHANGED <<transfers, store, cleanup, consumption, sweep, storage, bounds>>
      /\ accepting' \in BOOLEAN
  BY DEF DownloadsInv, Domains, OpenWindow, RecoveryDone
<1>2. Domains'
  BY <1>1 DEF DownloadsInv, Domains
<1>3. Accounts'
  <2>1. Admitted' = Admitted /\ Entries' = Entries /\ Reading' = Reading
    BY <1>1 DEF Admitted, Entries, Reading
  <2> QED
    BY <1>1, <2>1 DEF DownloadsInv, Accounts, PermitAccount, ReceiptAccount, ConsumerAccount,
                      LeaseAccount
<1>4. PathsInv'
  BY <1>1 DEF DownloadsInv, PathsInv, PathInv, TransferAlone, ReceiptAlone, HeldOnce, CleanedNow,
              PayloadThere, LeftoverOwned, StaleSwept, QuietRecovery
<1> QED
  BY <1>2, <1>3, <1>4 DEF DownloadsInv

\* With nothing admitted, registered or read every account is empty.
LEMMA NothingCounted ==
  /\ (\A d \in Downloads : permit[d] = 0 /\ xfer[d] = "idle") /\ inFlightBytes = 0 => PermitAccount
  /\ Entries = {} /\ leased = {} /\ pendingBytes = 0 => ReceiptAccount
  /\ Reading = {} /\ consumers = 0 => ConsumerAccount
<1>1. ASSUME \A d \in Downloads : permit[d] = 0 /\ xfer[d] = "idle", inFlightBytes = 0
      PROVE  PermitAccount
  <2>1. Admitted = {}
    BY <1>1 DEF Admitted
  <2>2. Total(permit, Downloads) = 0
    BY <1>1, TotalZero
  <2> QED
    BY <1>1, <2>1, <2>2, FS_EmptySet DEF PermitAccount
<1>2. ASSUME Entries = {}, leased = {}, pendingBytes = 0 PROVE ReceiptAccount
  BY <1>2, TotalEmpty, FS_EmptySet DEF ReceiptAccount
<1>3. ASSUME Reading = {}, consumers = 0 PROVE ConsumerAccount
  BY <1>3, FS_EmptySet DEF ConsumerAccount
<1> QED
  BY <1>1, <1>2, <1>3

\* The same of the next state.
LEMMA NothingCountedNext ==
  /\ (\A d \in Downloads : permit'[d] = 0 /\ xfer'[d] = "idle") /\ inFlightBytes' = 0 => PermitAccount'
  /\ Entries' = {} /\ leased' = {} /\ pendingBytes' = 0 => ReceiptAccount'
  /\ Reading' = {} /\ consumers' = 0 => ConsumerAccount'
<1>1. ASSUME \A d \in Downloads : permit'[d] = 0 /\ xfer'[d] = "idle", inFlightBytes' = 0
      PROVE  PermitAccount'
  <2>1. Admitted' = {}
    BY <1>1 DEF Admitted
  <2>2. Total(permit', Downloads) = 0
    BY <1>1, TotalZero
  <2> QED
    BY <1>1, <2>1, <2>2, FS_EmptySet DEF PermitAccount
<1>2. ASSUME Entries' = {}, leased' = {}, pendingBytes' = 0 PROVE ReceiptAccount'
  BY <1>2, TotalEmpty, FS_EmptySet DEF ReceiptAccount
<1>3. ASSUME Reading' = {}, consumers' = 0 PROVE ConsumerAccount'
  BY <1>3, FS_EmptySet DEF ConsumerAccount
<1> QED
  BY <1>1, <1>2, <1>3

\* Only the files survive a crash, and recovery is to look at every one of them.
LEMMA CrashKeeps ==
  ASSUME DownloadsInv, Crash
  PROVE  DownloadsInv'
<1>1. Domains'
  BY DEF DownloadsInv, Domains, Crash
<1>2. Accounts'
  <2>1. Entries' = {} /\ Reading' = {} /\ LeaseAccount'
    BY DEF Crash, Entries, Reading, LeaseAccount, Registering
  <2> QED
    BY <2>1, NothingCountedNext DEF Crash, Accounts
<1>3. PathsInv'
  BY DEF DownloadsInv, Crash, Domains, PathsInv, Finished, Unregistered, Registering,
         PathInv, TransferAlone, ReceiptAlone, HeldOnce, CleanedNow, PayloadThere,
         LeftoverOwned, StaleSwept, QuietRecovery
<1> QED
  BY <1>1, <1>2, <1>3 DEF DownloadsInv

\* The initial state.
LEMMA InitDownloads == Init => DownloadsInv
<1> SUFFICES ASSUME Init PROVE DownloadsInv
  OBVIOUS
<1>1. Domains
  BY DEF Domains, Init
<1>2. Accounts
  <2>1. Entries = {} /\ Reading = {} /\ LeaseAccount
    BY DEF Init, Entries, Reading, LeaseAccount, Registering
  <2> QED
    BY <2>1, NothingCounted DEF Init, Accounts
<1>3. PathsInv
  BY DEF Init, PathsInv, Finished, Unregistered, Registering,
         PathInv, TransferAlone, ReceiptAlone, HeldOnce, CleanedNow, PayloadThere,
         LeftoverOwned, StaleSwept, QuietRecovery
<1> QED
  BY <1>1, <1>2, <1>3 DEF DownloadsInv

\* The inductive invariant is kept by every step.
LEMMA DownloadsInductive ==
  ASSUME DownloadsInv, [Next]_vars
  PROVE  DownloadsInv'
<1>1. CASE UNCHANGED vars
  <2>1. Admitted' = Admitted /\ Entries' = Entries /\ Reading' = Reading
    BY <1>1 DEF vars, Admitted, Entries, Reading
  <2>2. Domains' /\ Accounts'
    BY <1>1, <2>1 DEF vars, DownloadsInv, Domains, Accounts, PermitAccount, ReceiptAccount,
                      ConsumerAccount, LeaseAccount
  <2>3. PathsInv'
    BY <1>1 DEF vars, DownloadsInv, PathsInv, PathInv, TransferAlone, ReceiptAlone, HeldOnce,
                CleanedNow, PayloadThere, LeftoverOwned, StaleSwept, QuietRecovery
  <2> QED
    BY <2>2, <2>3 DEF DownloadsInv
<1>2. ASSUME NEW d \in Downloads, PathStep(d)
      PROVE  DownloadsInv'
  <2>1. Domains' /\ Accounts'
    BY <1>2, StepTyped, PermitStep, ReceiptStep, LeaseStep, ConsumerStep
    DEF DownloadsInv, Accounts, PathsInv
  <2>2. PathInv(d)'
    BY <1>2, ActedPath DEF DownloadsInv, Accounts, PathsInv
  <2>3. ASSUME NEW e \in Downloads \ {d} PROVE PathInv(e)'
    BY <1>2, OthersSame, PathKept DEF DownloadsInv, PathsInv
  <2>4. PathsInv'
    BY <2>2, <2>3 DEF PathsInv
  <2> QED
    BY <2>1, <2>4 DEF DownloadsInv
<1>3. CASE Next
  BY <1>2, <1>3, NextCases, CloseKeeps, OpenKeeps, CrashKeeps
<1> QED
  BY <1>1, <1>3

\* In every reachable state the accounts balance and every path is held by at
\* most one party.
THEOREM DownloadsInvariant == Spec => []DownloadsInv
BY InitDownloads, DownloadsInductive, PTL DEF Spec

-----------------------------------------------------------------------------
(* The properties.                                                         *)

\* Every variable stays in its domain: no byte account leaves the range its
\* limit allows, and no cleanup or consumer is counted off twice.
THEOREM TypeCorrect == Spec => []TypeOK
<1>1. DownloadsInv => TypeOK
  BY Regrouped DEF DownloadsInv
<1> QED
  BY <1>1, DownloadsInvariant, PTL

\* The limits hold with everything in flight counted, and every account equals
\* what it accounts for.
THEOREM AccountsAlwaysBalance == Spec => []AccountsBalance
<1>1. DownloadsInv => AccountsBalance
  BY Regrouped DEF DownloadsInv
<1> QED
  BY <1>1, DownloadsInvariant, PTL

\* Nobody cleans a path up under the consumer that claimed its receipt.
THEOREM ConsumersStayUndisturbed == Spec => []ConsumerUndisturbed
<1>1. DownloadsInv => ConsumerUndisturbed
  BY DEF DownloadsInv, Domains, PathsInv, PathInv, TransferAlone, ReceiptAlone, HeldOnce, CleanedNow,
         PayloadThere, Finished, ConsumerUndisturbed, Tracked
<1> QED
  BY <1>1, DownloadsInvariant, PTL

\* Every file has an owner who will delete it, or a failed cleanup left it.
THEOREM FilesStayOwned == Spec => []FilesOwned
<1>1. DownloadsInv => FilesOwned
  BY DEF DownloadsInv, Domains, PathsInv, PathInv, LeftoverOwned, Finished, FilesOwned, Entries
<1> QED
  BY <1>1, DownloadsInvariant, PTL

\* A receipt whose window is closed is about to be swept, or refused by its
\* registration.
THEOREM StaleReceiptsGo == Spec => []StaleReceiptsSwept
<1>1. DownloadsInv => StaleReceiptsSwept
  BY DEF DownloadsInv, PathsInv, PathInv, StaleSwept, StaleReceiptsSwept
<1> QED
  BY <1>1, DownloadsInvariant, PTL

=============================================================================
