--------------------------- MODULE SyncRows_proofs ---------------------------
(***************************************************************************)
(* Journals that never wedge, rows that are never forgotten, cursors that  *)
(* stand for what was merged and the refinement of RowReplication, for any *)
(* devices, rows, columns, clocks and stopped runs.                        *)
(***************************************************************************)
EXTENDS SyncRows, FiniteSetTheorems, SequenceTheorems, TLAPS

USE SyncAssumption

-----------------------------------------------------------------------------
(* Type correctness.                                                       *)

\* Every row has a column that says when it was written.
LEMMA UpdatedAt == "updated_at" \in Columns
BY DEF Columns

Clocks == {NoClocks} \cup [Columns -> Stamp]

\* The stored stamps of a row are never taken for no stamps.
LEMMA StampsAreClocks ==
  ASSUME NEW stamps \in [Columns -> Stamp]
  PROVE  stamps # NoClocks
<1>1. DOMAIN stamps = Columns /\ DOMAIN NoClocks = {}
  BY DEF NoClocks
<1> QED
  BY <1>1, UpdatedAt

\* rowClocks gives every column a stamp.
LEMMA RowClocksType ==
  ASSUME NEW d \in Devices, NEW stored \in Clocks, NEW local \in Row
  PROVE  RowClocks(d, stored, local) \in [Columns -> Stamp]
<1>1. local["updated_at"] \in Nat
  BY UpdatedAt DEF Row
<1>2. [wall |-> local["updated_at"], dev |-> d] \in Stamp
  BY <1>1 DEF Stamp
<1> QED
  BY <1>2 DEF RowClocks, Clocks

\* A merged row and its stamps keep their types.
LEMMA MergedTypes ==
  ASSUME TypeOK, NEW d \in Devices, NEW en \in Entry
  PROVE  /\ Winners(d, en) \subseteq Columns
         /\ MergedRow(d, en) \in Row
         /\ MergedClocks(d, en) \in Clocks
<1>1. /\ en.row \in Rows /\ en.values \in Row /\ en.hlc \in Stamp
      /\ row[d][en.row] \in Row /\ clocks[d][en.row] \in Clocks
  BY DEF TypeOK, Entry, Clocks
<1>2. Winners(d, en) \subseteq Columns
  BY DEF Winners
<1>3. MergedRow(d, en) \in Row
  BY <1>1 DEF MergedRow, Row
<1>4. RowClocks(d, clocks[d][en.row], MergedRow(d, en)) \in [Columns -> Stamp]
  BY <1>1, <1>3, RowClocksType
<1>5. MergedClocks(d, en) \in Clocks
  BY <1>1, <1>4 DEF MergedClocks, Clocks
<1> QED
  BY <1>2, <1>3, <1>5

\* A segment in the store of a device is a segment.
LEMMA SegmentType ==
  ASSUME TypeOK, NEW d \in Devices, NEW s \in remote[d]
  PROVE  /\ s \in Segment /\ s.first \in Nat /\ s.first > 0 /\ s.last \in Nat /\ s.last > 0
         /\ s.entries \in Seq(Entry)
         /\ \A i \in DOMAIN s.entries : s.entries[i] \in Entry
<1>1. s \in Segment
  BY DEF TypeOK
<1>2. s.entries \in Seq(Entry)
  BY <1>1 DEF Segment
<1> QED
  BY <1>1, <1>2 DEF Segment

\* What applyRemoteSegment does to one row: nothing, or the merge of one of
\* the segment's entries.
LEMMA MergeEffect ==
  ASSUME TypeOK, NEW d \in Devices, NEW e \in Devices, NEW s \in remote[e], Merge(d, e, s)
  PROVE  /\ cursor' = [cursor EXCEPT ![d][e] = s.last]
         /\ row' \in [Devices -> [Rows -> Row]]
         /\ clocks' \in [Devices -> [Rows -> Clocks]]
         /\ \A x \in Devices : x # d => row'[x] = row[x] /\ clocks'[x] = clocks[x]
         /\ \A r \in Rows :
              \/ /\ row'[d][r] = row[d][r] /\ clocks'[d][r] = clocks[d][r]
                 /\ \A i \in DOMAIN s.entries : s.entries[i].row # r
              \/ \E i \in DOMAIN s.entries :
                   /\ s.entries[i].row = r
                   /\ row'[d][r] = MergedRow(d, s.entries[i])
                   /\ clocks'[d][r] = MergedClocks(d, s.entries[i])
<1> DEFINE entries == {s.entries[i] : i \in DOMAIN s.entries}
           touched == {en.row : en \in entries}
           entry(r) == CHOOSE en \in entries : en.row = r
           newRows == [r \in Rows |-> IF r \in touched THEN MergedRow(d, entry(r)) ELSE row[d][r]]
           newClocks == [r \in Rows |->
             IF r \in touched THEN MergedClocks(d, entry(r)) ELSE clocks[d][r]]
<1>1. row \in [Devices -> [Rows -> Row]] /\ clocks \in [Devices -> [Rows -> Clocks]]
  BY DEF TypeOK, Clocks
<1>2. entries \subseteq Entry
  BY SegmentType
<1>3. \A r \in touched : entry(r) \in entries /\ entry(r).row = r
  OBVIOUS
<1>4. /\ row' = [row EXCEPT ![d] = newRows]
      /\ clocks' = [clocks EXCEPT ![d] = newClocks]
      /\ cursor' = [cursor EXCEPT ![d][e] = s.last]
  BY <1>1 DEF Merge
<1>5. \A r \in touched : MergedRow(d, entry(r)) \in Row /\ MergedClocks(d, entry(r)) \in Clocks
  BY <1>2, <1>3, MergedTypes
<1> HIDE DEF entry
<1>6. newRows \in [Rows -> Row] /\ newClocks \in [Rows -> Clocks]
  BY <1>1, <1>5
<1>7. \A r \in Rows :
        /\ newRows[r] = IF r \in touched THEN MergedRow(d, entry(r)) ELSE row[d][r]
        /\ newClocks[r] = IF r \in touched THEN MergedClocks(d, entry(r)) ELSE clocks[d][r]
  OBVIOUS
<1>8. \A r \in Rows : r \notin touched => \A i \in DOMAIN s.entries : s.entries[i].row # r
  OBVIOUS
<1>9. \A r \in touched : \E i \in DOMAIN s.entries : entry(r) = s.entries[i] /\ s.entries[i].row = r
  BY <1>3
<1> HIDE DEF newRows, newClocks, touched, entries
<1>10. /\ row'[d] = newRows /\ clocks'[d] = newClocks
       /\ row' \in [Devices -> [Rows -> Row]] /\ clocks' \in [Devices -> [Rows -> Clocks]]
       /\ \A x \in Devices : x # d => row'[x] = row[x] /\ clocks'[x] = clocks[x]
  BY <1>1, <1>4, <1>6
<1> QED
  BY <1>4, <1>7, <1>8, <1>9, <1>10

\* The next step of a run keeps the run's type.
LEMMA RunMoves ==
  ASSUME TypeOK, NEW d \in Devices, NEW new \in Run, run' = [run EXCEPT ![d] = new],
         new.step = "putting" => new.batch # <<>>
  PROVE  /\ run' \in [Devices -> Run]
         /\ run'[d] = new
         /\ \A e \in Devices : e # d => run'[e] = run[e]
         /\ \A e \in Devices : run'[e].step = "putting" => run'[e].batch # <<>>
BY DEF TypeOK

\* An idle run remembers nothing.
LEMMA IdleRun == Idle \in Run /\ Idle.step = "idle"
<1>1. <<>> \in Seq(Entry)
  OBVIOUS
<1> QED
  BY <1>1 DEF Idle, Run, Step

\* The rows to push are finitely many, each with one entry.
LEMMA ProjectedType ==
  ASSUME TypeOK, NEW d \in Devices
  PROVE  /\ Projected(d) \subseteq Entry
         /\ IsFiniteSet(Projected(d)) /\ Cardinality(Projected(d)) \in Nat
         /\ \A p \in Projected(d) :
              /\ p.values = row[d][p.row]
              /\ p.hlc.wall = row[d][p.row]["updated_at"]
              /\ p.hlc.wall > pushedAt[d] /\ p.hlc.wall <= Watermark(d)
         /\ \A r \in Rows :
              row[d][r]["updated_at"] > pushedAt[d] /\ row[d][r]["updated_at"] <= Watermark(d) =>
                \E p \in Projected(d) : p.row = r /\ p.values = row[d][r]
<1> DEFINE changed == {x \in Rows : /\ row[d][x]["updated_at"] > pushedAt[d]
                                    /\ row[d][x]["updated_at"] <= Watermark(d)}
           made(r) == [row |-> r, values |-> row[d][r],
                       hlc |-> [wall |-> row[d][r]["updated_at"], dev |-> d]]
<1>1. row[d] \in [Rows -> Row]
  BY DEF TypeOK
<1>2. \A r \in Rows : made(r) \in Entry
  <2> TAKE r \in Rows
  <2>1. row[d][r]["updated_at"] \in Nat
    BY <1>1, UpdatedAt DEF Row
  <2>2. [wall |-> row[d][r]["updated_at"], dev |-> d] \in Stamp
    BY <2>1 DEF Stamp
  <2> QED
    BY <1>1, <2>2 DEF Entry
<1>3. Projected(d) = {made(r) : r \in changed}
  BY DEF Projected
<1>4. IsFiniteSet(changed)
  BY FS_Subset
<1>5. IsFiniteSet({made(r) : r \in changed})
  <2> DEFINE f == [r \in changed |-> made(r)]
  <2>1. {f[r] : r \in changed} = {made(r) : r \in changed}
    OBVIOUS
  <2>2. f \in [changed -> {made(r) : r \in changed}]
    OBVIOUS
  <2>3. \A p \in {made(r) : r \in changed} : \E r \in changed : f[r] = p
    OBVIOUS
  <2> HIDE DEF f, made, changed
  <2> DEFINE image == {made(r) : r \in changed}
  <2>4. f \in Surjection(changed, image)
    BY <2>2, <2>3 DEF Surjection
  <2> QED
    BY <1>4, <2>4, FS_Surjection
<1>6. \A r \in changed : made(r).row = r /\ made(r).values = row[d][r]
        /\ made(r).hlc.wall = row[d][r]["updated_at"]
  OBVIOUS
<1>7. IsFiniteSet(Projected(d)) /\ Cardinality(Projected(d)) \in Nat
  BY <1>3, <1>5, FS_CardinalityType
<1>8. Projected(d) \subseteq Entry
  BY <1>2, <1>3
<1> HIDE DEF made
<1> QED
  BY <1>3, <1>6, <1>7, <1>8

\* A sequence that is longer than its set of values has two equal entries.
LEMMA PigeonHole ==
  ASSUME NEW n \in Nat, NEW T, IsFiniteSet(T), Cardinality(T) < n, NEW f \in [1..n -> T]
  PROVE  \E x, y \in 1..n : x # y /\ f[x] = f[y]
<1>1. IsFiniteSet(1..n) /\ Cardinality(1..n) = n
  <2>1. IsFiniteSet(1..n) /\ Cardinality(1..n) = IF 1 > n THEN 0 ELSE n - 1 + 1
    BY FS_Interval
  <2> QED
    BY <2>1
<1>2. Cardinality(T) < Cardinality(1..n)
  BY <1>1
<1> DEFINE N == 1..n
<1>3. IsFiniteSet(N) /\ Cardinality(T) < Cardinality(N) /\ f \in [N -> T]
  BY <1>1, <1>2
<1> HIDE DEF N
<1>4. \E x, y \in N : x # y /\ f[x] = f[y]
  BY <1>3, FS_PigeonHole
<1> QED
  BY <1>4 DEF N

\* f lists the members of P, each once.
Enumerates(f, P) ==
  /\ f \in [1..Cardinality(P) -> P]
  /\ \A i, k \in DOMAIN f : f[i] = f[k] => i = k

\* As many different entries as there are rows leave no row out.
LEMMA EveryRowOnce ==
  ASSUME NEW P, IsFiniteSet(P), NEW f, Enumerates(f, P)
  PROVE  \A p \in P : \E i \in DOMAIN f : f[i] = p
<1> TAKE p \in P
<1> SUFFICES ASSUME \A i \in DOMAIN f : f[i] # p PROVE FALSE
  OBVIOUS
<1> DEFINE Q == P \ {p}
           n == Cardinality(P)
<1>1. f \in [1..n -> Q]
  BY DEF Enumerates
<1>2. IsFiniteSet(P \ {p}) /\ Cardinality(P \ {p}) = Cardinality(P) - 1
  BY FS_RemoveElement
<1>3. IsFiniteSet(Q) /\ n \in Nat /\ Cardinality(Q) < n
  BY <1>2, FS_CardinalityType
<1> HIDE DEF Q, n
<1>4. \E x, y \in 1..n : x # y /\ f[x] = f[y]
  BY <1>1, <1>3, PigeonHole
<1> QED
  BY <1>4 DEF Enumerates, n

\* The snapshot of a push: every row to push, once, in some order.
LEMMA BatchType ==
  ASSUME TypeOK, NEW d \in Devices, NEW batch, Enumerates(batch, Projected(d))
  PROVE  /\ batch \in Seq(Entry)
         /\ \A p \in Projected(d) : \E i \in DOMAIN batch : batch[i] = p
<1> DEFINE P == Projected(d)
           n == Cardinality(P)
<1>1. P \subseteq Entry /\ IsFiniteSet(P) /\ n \in Nat
  BY ProjectedType
<1>2. batch \in Seq(Entry)
  <2>1. batch \in [1..n -> Entry]
    BY <1>1 DEF Enumerates
  <2> HIDE DEF n
  <2> QED
    BY <1>1, <2>1
<1>3. \A p \in P : \E i \in DOMAIN batch : batch[i] = p
  <2> HIDE DEF n
  <2> QED
    BY <1>1, EveryRowOnce
<1> QED
  BY <1>2, <1>3

\* The cut of a batch into a segment and what is left.
LEMMA CutBatch ==
  ASSUME TypeOK, NEW d \in Devices, run[d].step = "putting"
  PROVE  LET b == run[d].batch
             n == BatchSize(d)
         IN  /\ n \in Nat /\ n > 0 /\ n <= Len(b)
             /\ SubSeq(b, 1, n) \in Seq(Entry) /\ Len(SubSeq(b, 1, n)) = n
             /\ \A i \in 1..n : SubSeq(b, 1, n)[i] = b[i]
             /\ SubSeq(b, n + 1, Len(b)) \in Seq(Entry)
             /\ Len(SubSeq(b, n + 1, Len(b))) = Len(b) - n
             /\ \A i \in 1..(Len(b) - n) : SubSeq(b, n + 1, Len(b))[i] = b[n + i]
<1> DEFINE b == run[d].batch
           n == BatchSize(d)
<1>1. b \in Seq(Entry) /\ b # <<>>
  BY DEF TypeOK, Run
<1>2. Len(b) \in Nat /\ Len(b) > 0
  BY <1>1
<1>3. n \in Nat /\ n > 0 /\ n <= Len(b)
  BY <1>2 DEF BatchSize
<1> HIDE DEF b, n
<1>4. /\ SubSeq(b, 1, n) \in Seq(Entry) /\ Len(SubSeq(b, 1, n)) = n
      /\ \A i \in 1..n : SubSeq(b, 1, n)[i] = b[i]
  BY <1>1, <1>2, <1>3, SubSeqProperties
<1>5. /\ SubSeq(b, n + 1, Len(b)) \in Seq(Entry) /\ Len(SubSeq(b, n + 1, Len(b))) = Len(b) - n
      /\ \A i \in 1..(Len(b) - n) : SubSeq(b, n + 1, Len(b))[i] = b[n + i]
  BY <1>1, <1>2, <1>3, SubSeqProperties
<1> QED
  BY <1>3, <1>4, <1>5 DEF b, n

AtStep(r, step) == [r EXCEPT !.step = step]

\* A run at another step.
LEMMA RunStep ==
  ASSUME NEW r \in Run, NEW step \in Step
  PROVE  /\ AtStep(r, step) \in Run
         /\ AtStep(r, step).step = step
         /\ AtStep(r, step).batch = r.batch
         /\ AtStep(r, step).next = r.next
         /\ AtStep(r, step).bound = r.bound
<1> DEFINE L == SUBSET [dev : Devices, first : Nat, last : Nat]
           S == Seq(Entry)
<1>1. Run = [step : Step, listed : L, batch : S, next : Nat, bound : Nat]
  BY DEF Run
<1> HIDE DEF L, S
<1> QED
  BY <1>1 DEF AtStep

CutRun(r, step, b, n) == [r EXCEPT !.step = step, !.next = n, !.batch = b]

\* A run with another batch.
LEMMA RunCut ==
  ASSUME NEW r \in Run, NEW step \in Step, NEW b \in Seq(Entry), NEW n \in Nat
  PROVE  /\ CutRun(r, step, b, n) \in Run
         /\ CutRun(r, step, b, n).step = step
         /\ CutRun(r, step, b, n).next = n
         /\ CutRun(r, step, b, n).batch = b
         /\ CutRun(r, step, b, n).bound = r.bound
<1> DEFINE L == SUBSET [dev : Devices, first : Nat, last : Nat]
           S == Seq(Entry)
<1>1. Run = [step : Step, listed : L, batch : S, next : Nat, bound : Nat]
  BY DEF Run
<1>2. b \in S
  OBVIOUS
<1> HIDE DEF L, S
<1> QED
  BY <1>1, <1>2 DEF CutRun

SnapshotRun(r, step, b, n, m) == [r EXCEPT !.step = step, !.batch = b, !.next = n, !.bound = m]

\* A run with a snapshot to push.
LEMMA RunSnapshot ==
  ASSUME NEW r \in Run, NEW step \in Step, NEW b \in Seq(Entry), NEW n \in Nat, NEW m \in Nat
  PROVE  /\ SnapshotRun(r, step, b, n, m) \in Run
         /\ SnapshotRun(r, step, b, n, m).step = step
         /\ SnapshotRun(r, step, b, n, m).batch = b
         /\ SnapshotRun(r, step, b, n, m).next = n
         /\ SnapshotRun(r, step, b, n, m).bound = m
<1> DEFINE L == SUBSET [dev : Devices, first : Nat, last : Nat]
           S == Seq(Entry)
<1>1. Run = [step : Step, listed : L, batch : S, next : Nat, bound : Nat]
  BY DEF Run
<1>2. b \in S
  OBVIOUS
<1> HIDE DEF L, S
<1> QED
  BY <1>1, <1>2 DEF SnapshotRun

\* The segment a push uploads next.
NextSegment(d) ==
  [first   |-> run[d].next,
   last    |-> run[d].next + BatchSize(d) - 1,
   entries |-> SubSeq(run[d].batch, 1, BatchSize(d))]

LeftOver(d) == SubSeq(run[d].batch, BatchSize(d) + 1, Len(run[d].batch))

\* provider.put, with the run's next step.
LEMMA PutEffect ==
  ASSUME TypeOK, NEW d \in Devices, Put(d), run[d].next > 0
  PROVE  /\ NextSegment(d) \in Segment
         /\ NextSegment(d).last = NextSegment(d).first + Len(NextSegment(d).entries) - 1
         /\ NextSegment(d).last >= NextSegment(d).first
         /\ remote' = [remote EXCEPT ![d] =
              {s \in remote[d] : s.first # NextSegment(d).first \/ s.last # NextSegment(d).last}
                \cup {NextSegment(d)}]
         /\ run' \in [Devices -> Run]
         /\ \A e \in Devices : e # d => run'[e] = run[e]
         /\ run'[d].step = "acking" /\ run'[d].next = NextSegment(d).last + 1
         /\ run'[d].batch = LeftOver(d) /\ run'[d].bound = run[d].bound
         /\ UNCHANGED <<now, row, clocks, pushState, cursor, edits, faults>>
<1>1. run[d].step = "putting" /\ run[d] \in Run
  BY DEF Put, TypeOK
<1>2. /\ BatchSize(d) \in Nat /\ BatchSize(d) > 0
      /\ SubSeq(run[d].batch, 1, BatchSize(d)) \in Seq(Entry)
      /\ Len(SubSeq(run[d].batch, 1, BatchSize(d))) = BatchSize(d)
      /\ LeftOver(d) \in Seq(Entry)
  BY <1>1, CutBatch DEF LeftOver
<1>3. run[d].next \in Nat
  BY <1>1 DEF Run
<1>4. NextSegment(d).first \in Nat \ {0} /\ NextSegment(d).last \in Nat \ {0}
      /\ NextSegment(d).last >= NextSegment(d).first
      /\ NextSegment(d).last = NextSegment(d).first + Len(NextSegment(d).entries) - 1
  BY <1>2, <1>3 DEF NextSegment
<1>5. NextSegment(d) \in Segment
  BY <1>2, <1>4 DEF NextSegment, Segment
<1> DEFINE new == CutRun(run[d], "acking", LeftOver(d), NextSegment(d).last + 1)
<1>6. /\ new \in Run /\ new.step = "acking" /\ new.next = NextSegment(d).last + 1
      /\ new.batch = LeftOver(d) /\ new.bound = run[d].bound
  <2>1. NextSegment(d).last + 1 \in Nat /\ "acking" \in Step
    BY <1>4 DEF Step
  <2> QED
    BY <1>1, <1>2, <2>1, RunCut
<1>7. /\ remote' = [remote EXCEPT ![d] =
           {s \in remote[d] : s.first # NextSegment(d).first \/ s.last # NextSegment(d).last}
             \cup {NextSegment(d)}]
      /\ run' = [run EXCEPT ![d] = new]
      /\ UNCHANGED <<now, row, clocks, pushState, cursor, edits, faults>>
  BY DEF Put, NextSegment, LeftOver, CutRun
<1> HIDE DEF new
<1>8. /\ run' \in [Devices -> Run] /\ run'[d] = new
      /\ \A e \in Devices : e # d => run'[e] = run[e]
  BY <1>6, <1>7, RunMoves
<1> QED
  BY <1>4, <1>5, <1>6, <1>7, <1>8

\* Collect ends the run, or starts to put the whole snapshot.
Snapshot(d, batch) ==
  SnapshotRun(Idle, "putting", batch, lastSeq[d] + 1, Larger(pushedAt[d], Watermark(d)))

LEMMA CollectEffect ==
  ASSUME TypeOK, NEW d \in Devices, Collect(d)
  PROVE  /\ UNCHANGED <<now, row, clocks, pushState, cursor, remote, edits, faults>>
         /\ \/ Projected(d) = {} /\ GoIdle(d)
            \/ \E batch \in Seq(Entry) :
                 /\ batch # <<>>
                 /\ \A i, k \in DOMAIN batch : batch[i] = batch[k] => i = k
                 /\ \A i \in DOMAIN batch : batch[i] \in Projected(d)
                 /\ \A p \in Projected(d) : \E i \in DOMAIN batch : batch[i] = p
                 /\ run' = [run EXCEPT ![d] = Snapshot(d, batch)]
                 /\ Snapshot(d, batch) \in Run
                 /\ Snapshot(d, batch).step = "putting" /\ Snapshot(d, batch).batch = batch
                 /\ Snapshot(d, batch).next = lastSeq[d] + 1
                 /\ Snapshot(d, batch).bound = Larger(pushedAt[d], Watermark(d))
<1>1. ASSUME NEW batch, Enumerates(batch, Projected(d)), batch # <<>>,
             run' = [run EXCEPT ![d] =
               [Idle EXCEPT !.step = "putting", !.batch = batch, !.next = lastSeq[d] + 1,
                            !.bound = Larger(pushedAt[d], Watermark(d))]]
      PROVE  \E b \in Seq(Entry) :
               /\ b # <<>>
               /\ \A i, k \in DOMAIN b : b[i] = b[k] => i = k
               /\ \A i \in DOMAIN b : b[i] \in Projected(d)
               /\ \A p \in Projected(d) : \E i \in DOMAIN b : b[i] = p
               /\ run' = [run EXCEPT ![d] = Snapshot(d, b)]
               /\ Snapshot(d, b) \in Run
               /\ Snapshot(d, b).step = "putting" /\ Snapshot(d, b).batch = b
               /\ Snapshot(d, b).next = lastSeq[d] + 1
               /\ Snapshot(d, b).bound = Larger(pushedAt[d], Watermark(d))
  <2>1. batch \in Seq(Entry) /\ \A p \in Projected(d) : \E i \in DOMAIN batch : batch[i] = p
    BY <1>1, BatchType
  <2>2. lastSeq[d] \in Nat /\ pushedAt[d] \in Nat /\ now[d] \in Nat /\ now[d] >= 1
    BY DEF TypeOK
  <2>3. Larger(pushedAt[d], Watermark(d)) \in Nat
    BY <2>2 DEF Larger, Watermark
  <2>4. /\ Snapshot(d, batch) \in Run
        /\ Snapshot(d, batch).step = "putting" /\ Snapshot(d, batch).batch = batch
        /\ Snapshot(d, batch).next = lastSeq[d] + 1
        /\ Snapshot(d, batch).bound = Larger(pushedAt[d], Watermark(d))
    <3>1. "putting" \in Step /\ lastSeq[d] + 1 \in Nat
      BY <2>2 DEF Step
    <3>2. Idle \in Run
      BY IdleRun
    <3> DEFINE n == lastSeq[d] + 1
               m == Larger(pushedAt[d], Watermark(d))
    <3>3. Snapshot(d, batch) = SnapshotRun(Idle, "putting", batch, n, m)
      BY DEF Snapshot
    <3>4. n \in Nat /\ m \in Nat
      BY <2>3, <3>1
    <3> HIDE DEF n, m
    <3>5. /\ SnapshotRun(Idle, "putting", batch, n, m) \in Run
          /\ SnapshotRun(Idle, "putting", batch, n, m).step = "putting"
          /\ SnapshotRun(Idle, "putting", batch, n, m).batch = batch
          /\ SnapshotRun(Idle, "putting", batch, n, m).next = n
          /\ SnapshotRun(Idle, "putting", batch, n, m).bound = m
      BY <2>1, <3>1, <3>2, <3>4, RunSnapshot
    <3> QED
      BY <3>3, <3>5 DEF n, m
  <2>5. run' = [run EXCEPT ![d] = Snapshot(d, batch)]
    BY <1>1 DEF Snapshot, SnapshotRun
  <2>6. /\ \A i, k \in DOMAIN batch : batch[i] = batch[k] => i = k
        /\ \A i \in DOMAIN batch : batch[i] \in Projected(d)
    BY <1>1 DEF Enumerates
  <2> QED
    BY <1>1, <2>1, <2>4, <2>5, <2>6
<1>2. ASSUME NEW batch \in [1..Cardinality(Projected(d)) -> Projected(d)],
             \A i, k \in DOMAIN batch : batch[i] = batch[k] => i = k
      PROVE  Enumerates(batch, Projected(d))
  BY <1>2 DEF Enumerates
<1> QED
  BY <1>1, <1>2 DEF Collect

-----------------------------------------------------------------------------
(* Journals.                                                               *)

\* The segments of a journal follow each other without a gap or an overlap.
Ordered(d) ==
  /\ \A s \in remote[d] : s.first <= s.last
  /\ \A s, t \in remote[d] : s # t => s.last < t.first \/ t.last < s.first
  /\ \A s \in remote[d] : s.first = 1 \/ \E t \in remote[d] : s.first = t.last + 1

\* A journal has a last segment.
Newest(d) == remote[d] = {} \/ \E t \in remote[d] : \A s \in remote[d] : s.last <= t.last

\* A cursor is the end of some segment.
Boundary(n, segments) == n = 0 \/ \E s \in segments : s.last = n

\* Between the recovery and the upload of a segment the device knows the end
\* of its own journal; between the upload and the acknowledgement it is one
\* segment behind.
Pushing(d) ==
  /\ run[d].step \in {"collecting", "putting", "settling"} =>
       \A s \in remote[d] : s.last <= lastSeq[d]
  /\ run[d].step = "putting" => run[d].next = lastSeq[d] + 1
  /\ run[d].step = "acking" =>
       /\ lastSeq[d] < run[d].next
       /\ \E t \in remote[d] : t.last = run[d].next - 1
       /\ \A s \in remote[d] : s.last <= run[d].next - 1

JournalInv ==
  /\ TypeOK
  /\ \A d \in Devices :
       /\ Ordered(d) /\ Newest(d) /\ Pushing(d)
       /\ Boundary(lastSeq[d], remote[d])
       /\ \A e \in Devices : Boundary(cursor[d][e], remote[e])

\* The own segments a recovery finds beyond the device's cursor.
Found(d) == {s \in remote[d] : s.last > lastSeq[d]}

\* Recover moves last_pushed_seq to the end of the newest of them.
LEMMA RecoverEffect ==
  ASSUME TypeOK, NEW d \in Devices, Recover(d), Newest(d)
  PROVE  /\ lastSeq' \in [Devices -> Nat]
         /\ \A e \in Devices : e # d => lastSeq'[e] = lastSeq[e]
         /\ lastSeq'[d] = lastSeq[d] \/ \E s \in remote[d] : lastSeq'[d] = s.last
         /\ \A s \in remote[d] : s.last <= lastSeq'[d]
         /\ run' = [run EXCEPT ![d] = AtStep(Idle, "collecting")]
         /\ UNCHANGED <<now, row, clocks, pushedAt, cursor, remote, edits, faults>>
<1> DEFINE ends == {s.last : s \in Found(d)} \cup {lastSeq[d]}
           pick == CHOOSE n \in ends : \A s \in Found(d) : s.last <= n
<1>1. \A s \in remote[d] : s.last \in Nat
  BY SegmentType
<1>2. lastSeq \in [Devices -> Nat]
  BY DEF TypeOK
<1>3. \E n \in ends : \A s \in Found(d) : s.last <= n
  <2>1. CASE Found(d) = {}
    BY <2>1
  <2>2. CASE Found(d) # {}
    <3>1. PICK t \in remote[d] : \A s \in remote[d] : s.last <= t.last
      BY <2>2 DEF Newest, Found
    <3>2. PICK s \in Found(d) : TRUE
      BY <2>2
    <3>3. t.last > lastSeq[d]
      BY <1>1, <1>2, <3>1, <3>2 DEF Found
    <3>4. t \in Found(d)
      BY <3>3 DEF Found
    <3> QED
      BY <3>1, <3>4 DEF Found
  <2> QED
    BY <2>1, <2>2
<1>4. pick \in ends /\ \A s \in Found(d) : s.last <= pick
  BY <1>3
<1>5. lastSeq' = [lastSeq EXCEPT ![d] = pick]
  BY <1>2 DEF Recover, Found
<1> HIDE DEF pick
<1>6. pick \in Nat /\ \A s \in remote[d] : s.last <= pick
  BY <1>1, <1>2, <1>4 DEF Found
<1>7. pick = lastSeq[d] \/ \E s \in remote[d] : pick = s.last
  BY <1>4 DEF Found
<1>8. /\ run' = [run EXCEPT ![d] = AtStep(Idle, "collecting")]
      /\ UNCHANGED <<now, row, clocks, pushedAt, cursor, remote, edits, faults>>
  BY DEF Recover, AtStep
<1> QED
  BY <1>2, <1>5, <1>6, <1>7, <1>8

\* markPushed records the segment just uploaded.
LEMMA AckEffect ==
  ASSUME TypeOK, NEW d \in Devices, Ack(d), run[d].next > 0
  PROVE  /\ lastSeq' \in [Devices -> Nat] /\ run' \in [Devices -> Run]
         /\ \A e \in Devices : e # d => lastSeq'[e] = lastSeq[e] /\ run'[e] = run[e]
         /\ lastSeq'[d] = Larger(lastSeq[d], run[d].next - 1)
         /\ run[d].step = "acking" /\ run'[d].step \in {"putting", "settling"}
         /\ run'[d].step = "putting" <=> run[d].batch # <<>>
         /\ run'[d].batch = run[d].batch /\ run'[d].next = run[d].next
         /\ run'[d].bound = run[d].bound
         /\ UNCHANGED <<now, row, clocks, pushedAt, cursor, remote, edits, faults>>
<1> DEFINE step == IF run[d].batch = <<>> THEN "settling" ELSE "putting"
           new == AtStep(run[d], step)
<1>1. run[d] \in Run /\ run \in [Devices -> Run] /\ lastSeq \in [Devices -> Nat]
  BY DEF TypeOK
<1>2. step \in Step
  BY DEF Step
<1>3. /\ new \in Run /\ new.step = step /\ new.batch = run[d].batch /\ new.next = run[d].next
      /\ new.bound = run[d].bound
  <2> HIDE DEF step
  <2> QED
    BY <1>1, <1>2, RunStep
<1>4. run' = [run EXCEPT ![d] = new]
  BY <1>1 DEF Ack, AtStep
<1>5. run[d].next \in Nat
  BY <1>1 DEF Run
<1>6. Larger(lastSeq[d], run[d].next - 1) \in Nat
  BY <1>1, <1>5 DEF Larger
<1>7. /\ lastSeq' = [lastSeq EXCEPT ![d] = Larger(lastSeq[d], run[d].next - 1)]
      /\ run[d].step = "acking"
      /\ UNCHANGED <<now, row, clocks, pushedAt, cursor, remote, edits, faults>>
  BY <1>1 DEF Ack
<1>8. step \in {"putting", "settling"} /\ (step = "putting" <=> run[d].batch # <<>>)
  OBVIOUS
<1> HIDE DEF new
<1>9. /\ run' \in [Devices -> Run] /\ run'[d] = new
      /\ \A e \in Devices : e # d => run'[e] = run[e]
  BY <1>1, <1>3, <1>4
<1>10. /\ lastSeq' \in [Devices -> Nat] /\ \A e \in Devices : e # d => lastSeq'[e] = lastSeq[e]
       /\ lastSeq'[d] = Larger(lastSeq[d], run[d].next - 1)
  <2> HIDE DEF step
  <2> QED
    BY <1>1, <1>6, <1>7
<1> QED
  BY <1>3, <1>7, <1>8, <1>9, <1>10

\* An edit changes one row, and its updated_at to the time of the write.
LEMMA EditEffect ==
  ASSUME TypeOK, NEW d \in Devices, NEW r \in Rows, NEW f \in Fields, LocalEdit(d, r, f)
  PROVE  /\ row' \in [Devices -> [Rows -> Row]]
         /\ \A x \in Devices, y \in Rows : x # d \/ y # r => row'[x][y] = row[x][y]
         /\ row'[d][r]["updated_at"] = Touched(d, r)
         /\ Touched(d, r) \in Nat /\ Touched(d, r) >= now[d]
         /\ edits' \in Seq([row : Rows, field : Fields, dev : Devices]) /\ Len(edits') <= MaxEdits
         /\ UNCHANGED <<now, clocks, pushState, cursor, remote, run, faults>>
<1> DEFINE edit == [row |-> r, field |-> f, dev |-> d]
           E == [row : Rows, field : Fields, dev : Devices]
           old == row[d][r]
           new == [old EXCEPT ![f] = Len(edits) + 1, !["updated_at"] = Touched(d, r)]
<1>1. row \in [Devices -> [Rows -> Row]] /\ old \in Row /\ now[d] \in Nat
  BY DEF TypeOK
<1>2. f \in Columns /\ "updated_at" \in Columns /\ f # "updated_at"
  BY UpdatedAt DEF Columns
<1>3. edits \in Seq(E) /\ Len(edits) \in Nat /\ Len(edits) < MaxEdits /\ edits' = Append(edits, edit)
  BY DEF TypeOK, LocalEdit
<1>4. old["updated_at"] \in Nat
  BY <1>1, <1>2 DEF Row
<1>5. Touched(d, r) \in Nat /\ Touched(d, r) >= now[d]
  BY <1>1, <1>4 DEF Touched, Larger
<1>6. new \in Row /\ new["updated_at"] = Touched(d, r)
  <2> DEFINE n == Len(edits) + 1
             t == Touched(d, r)
  <2>1. n \in Nat /\ t \in Nat
    BY <1>3, <1>5
  <2> HIDE DEF n, t
  <2>2. old \in [Columns -> Nat]
    BY <1>1 DEF Row
  <2> HIDE DEF old
  <2>3. [old EXCEPT ![f] = n, !["updated_at"] = t] \in [Columns -> Nat]
    BY <1>2, <2>1, <2>2
  <2>4. [old EXCEPT ![f] = n, !["updated_at"] = t]["updated_at"] = t
    BY <1>2, <2>1, <2>2
  <2> QED
    BY <2>3, <2>4 DEF Row, n, t
<1>7. row' = [row EXCEPT ![d][r] = new]
  BY <1>1 DEF LocalEdit
<1>8. edit \in E
  OBVIOUS
<1> HIDE DEF new, edit, E
<1>9. /\ row' \in [Devices -> [Rows -> Row]]
      /\ \A x \in Devices, y \in Rows : x # d \/ y # r => row'[x][y] = row[x][y]
      /\ row'[d][r] = new
  BY <1>1, <1>6, <1>7
<1>10. edits' \in Seq(E) /\ Len(edits') = Len(edits) + 1
  BY <1>3, <1>8
<1>11. Len(edits') <= MaxEdits
  BY <1>3, <1>10
<1>12. UNCHANGED <<now, clocks, pushState, cursor, remote, run, faults>>
  BY DEF LocalEdit
<1> QED
  BY <1>5, <1>6, <1>9, <1>10, <1>11, <1>12 DEF E

\* A run that starts lists the other journals.
LEMMA StartEffect ==
  ASSUME TypeOK, NEW d \in Devices, StartSync(d)
  PROVE  /\ run' \in [Devices -> Run] /\ \A e \in Devices : e # d => run'[e] = run[e]
         /\ run'[d].step = "pulling" /\ run'[d].batch = <<>>
         /\ UNCHANGED <<now, row, clocks, pushState, cursor, remote, edits, faults>>
<1> DEFINE lists == UNION {{[dev |-> e, first |-> s.first, last |-> s.last] : s \in remote[e]} :
                             e \in Devices \ {d}}
           P == [dev : Devices, first : Nat, last : Nat]
           new == [Idle EXCEPT !.step = "pulling", !.listed = lists]
<1>1. lists \in SUBSET P
  BY SegmentType
<1>2. run' = [run EXCEPT ![d] = new]
  BY DEF StartSync
<1>3. Idle \in Run /\ Idle.batch = <<>>
  BY IdleRun DEF Idle
<1> HIDE DEF lists, P
<1>4. new \in Run /\ new.step = "pulling"
  <2> DEFINE S == Seq(Entry)
             L == SUBSET P
  <2>1. Run = [step : Step, listed : L, batch : S, next : Nat, bound : Nat]
    BY DEF Run, P
  <2>2. "pulling" \in Step /\ lists \in L
    BY <1>1 DEF Step
  <2> HIDE DEF S, L
  <2> QED
    BY <1>3, <2>1, <2>2
<1>5. new.batch = <<>>
  <2>1. new.batch = Idle.batch
    BY <1>3 DEF Run
  <2> QED
    BY <1>3, <2>1
<1>6. run \in [Devices -> Run] /\ UNCHANGED <<now, row, clocks, pushState, cursor, remote, edits, faults>>
  BY DEF StartSync, TypeOK
<1> HIDE DEF new
<1> QED
  BY <1>2, <1>4, <1>5, <1>6

\* Type correctness, with the state of the journals, is inductive.
LEMMA TypeStep ==
  ASSUME JournalInv, [Next]_vars
  PROVE  TypeOK'
<1> USE DEF pushState
<1>1. TypeOK
  BY DEF JournalInv
<1>2. ASSUME UNCHANGED vars PROVE TypeOK'
  BY <1>1, <1>2 DEF vars, TypeOK, Segment, Entry, Row, Columns, Stamp, Run, Step, NoClocks
<1>3. ASSUME NEW d \in Devices, Tick(d) PROVE TypeOK'
  <2>1. now \in [Devices -> 1..(MaxTime + 1)] /\ now[d] < MaxTime /\ now[d] \in 1..(MaxTime + 1)
    BY <1>1, <1>3 DEF Tick, TypeOK
  <2>2. now[d] + 1 \in 1..(MaxTime + 1)
    BY <2>1
  <2>3. now' \in [Devices -> 1..(MaxTime + 1)]
    BY <1>3, <2>1, <2>2 DEF Tick
  <2>4. UNCHANGED <<row, clocks, pushState, cursor, remote, run, edits, faults>>
    BY <1>3 DEF Tick
  <2> QED
    BY <1>1, <2>3, <2>4 DEF TypeOK
<1>4. ASSUME NEW d \in Devices, NEW r \in Rows, NEW f \in Fields, LocalEdit(d, r, f) PROVE TypeOK'
  BY <1>1, <1>4, EditEffect DEF TypeOK
<1>5. ASSUME NEW d \in Devices, StartSync(d) PROVE TypeOK'
  BY <1>1, <1>5, StartEffect DEF TypeOK
<1>6. ASSUME NEW d \in Devices, NEW e \in Devices \ {d}, MergeSegment(d, e) PROVE TypeOK'
  <2>1. PICK s \in remote[e] : Merge(d, e, s)
    BY <1>6 DEF MergeSegment
  <2>2. UNCHANGED <<now, pushState, remote, run, edits, faults>>
    BY <1>6 DEF MergeSegment
  <2>3. s.last \in Nat /\ cursor \in [Devices -> [Devices -> Nat]]
    BY <1>1, SegmentType DEF TypeOK
  <2>4. /\ cursor' = [cursor EXCEPT ![d][e] = s.last] /\ row' \in [Devices -> [Rows -> Row]]
        /\ clocks' \in [Devices -> [Rows -> {NoClocks} \cup [Columns -> Stamp]]]
    BY <1>1, <2>1, MergeEffect DEF Clocks
  <2>5. cursor' \in [Devices -> [Devices -> Nat]]
    BY <2>3, <2>4
  <2> QED
    BY <1>1, <2>2, <2>4, <2>5 DEF TypeOK
<1>7. ASSUME NEW d \in Devices, Recover(d) PROVE TypeOK'
  <2>1. AtStep(Idle, "collecting") \in Run /\ AtStep(Idle, "collecting").step = "collecting"
    BY IdleRun, RunStep DEF Step
  <2>2. Newest(d)
    BY DEF JournalInv
  <2>3. /\ lastSeq' \in [Devices -> Nat] /\ run' = [run EXCEPT ![d] = AtStep(Idle, "collecting")]
        /\ UNCHANGED <<now, row, clocks, pushedAt, cursor, remote, edits, faults>>
    BY <1>1, <1>7, <2>2, RecoverEffect
  <2>4. /\ run' \in [Devices -> Run]
        /\ \A e \in Devices : run'[e].step = "putting" => run'[e].batch # <<>>
    BY <1>1, <2>1, <2>3, RunMoves
  <2> QED
    BY <1>1, <2>3, <2>4 DEF TypeOK
<1>8. ASSUME NEW d \in Devices, GoIdle(d),
             UNCHANGED <<now, row, clocks, cursor, remote, edits, lastSeq>>,
             pushedAt' \in [Devices -> Nat], faults' \in 0..MaxFaults
      PROVE  TypeOK'
  <2>1. /\ run' \in [Devices -> Run]
        /\ \A e \in Devices : run'[e].step = "putting" => run'[e].batch # <<>>
    BY <1>1, <1>8, IdleRun, RunMoves DEF GoIdle
  <2> QED
    BY <1>1, <1>8, <2>1 DEF TypeOK
<1>9. ASSUME NEW d \in Devices, Collect(d) PROVE TypeOK'
  <2>1. CASE GoIdle(d)
    <3>1. UNCHANGED <<now, row, clocks, pushState, cursor, remote, edits, faults>>
      BY <1>9 DEF Collect
    <3>2. pushedAt' \in [Devices -> Nat] /\ faults' \in 0..MaxFaults
      BY <1>1, <3>1 DEF TypeOK
    <3> QED
      BY <1>8, <2>1, <3>1, <3>2
  <2>2. ASSUME NEW batch \in Seq(Entry), batch # <<>>, run' = [run EXCEPT ![d] = Snapshot(d, batch)],
               Snapshot(d, batch) \in Run, Snapshot(d, batch).batch = batch
        PROVE  TypeOK'
    <3>1. /\ run' \in [Devices -> Run]
          /\ \A e \in Devices : run'[e].step = "putting" => run'[e].batch # <<>>
      BY <1>1, <2>2, RunMoves
    <3>2. UNCHANGED <<now, row, clocks, pushState, cursor, remote, edits, faults>>
      BY <1>9 DEF Collect
    <3> QED
      BY <1>1, <3>1, <3>2 DEF TypeOK
  <2> QED
    BY <1>1, <1>9, <2>1, <2>2, CollectEffect
<1>10. ASSUME NEW d \in Devices, Put(d) PROVE TypeOK'
  <2>1. run[d].next > 0
    <3>1. run[d].next = lastSeq[d] + 1 /\ lastSeq[d] \in Nat
      BY <1>10 DEF JournalInv, Pushing, Put, TypeOK
    <3> QED
      BY <3>1
  <2>2. /\ NextSegment(d) \in Segment
        /\ NextSegment(d).last = NextSegment(d).first + Len(NextSegment(d).entries) - 1
        /\ remote' = [remote EXCEPT ![d] =
             {s \in remote[d] : s.first # NextSegment(d).first \/ s.last # NextSegment(d).last}
               \cup {NextSegment(d)}]
        /\ run' \in [Devices -> Run] /\ run'[d].step = "acking"
        /\ \A e \in Devices : e # d => run'[e] = run[e]
        /\ UNCHANGED <<now, row, clocks, pushState, cursor, edits, faults>>
    BY <1>1, <1>10, <2>1, PutEffect
  <2>3. remote' \in [Devices -> SUBSET Segment]
    BY <1>1, <2>2 DEF TypeOK
  <2>4. \A e \in Devices : \A s \in remote'[e] : s.last = s.first + Len(s.entries) - 1
    BY <1>1, <2>2 DEF TypeOK
  <2> QED
    BY <1>1, <2>2, <2>3, <2>4 DEF TypeOK
<1>11. ASSUME NEW d \in Devices, Ack(d) PROVE TypeOK'
  <2>1. run[d].next > 0
    <3>1. lastSeq[d] < run[d].next /\ lastSeq[d] \in Nat /\ run[d].next \in Nat
      BY <1>11 DEF JournalInv, Pushing, Ack, TypeOK, Run
    <3> QED
      BY <3>1
  <2>2. /\ lastSeq' \in [Devices -> Nat] /\ run' \in [Devices -> Run]
        /\ \A e \in Devices : e # d => run'[e] = run[e]
        /\ run'[d].step = "putting" => run'[d].batch # <<>>
        /\ UNCHANGED <<now, row, clocks, pushedAt, cursor, remote, edits, faults>>
    BY <1>1, <1>11, <2>1, AckEffect
  <2>3. \A e \in Devices : run'[e].step = "putting" => run'[e].batch # <<>>
    BY <1>1, <2>2 DEF TypeOK
  <2> QED
    BY <1>1, <2>2, <2>3 DEF TypeOK
<1>12. ASSUME NEW d \in Devices, Settle(d) PROVE TypeOK'
  <2>1. pushedAt \in [Devices -> Nat] /\ run[d].bound \in Nat
    BY <1>1 DEF TypeOK, Run
  <2>2. pushedAt' \in [Devices -> Nat]
    BY <1>12, <2>1 DEF Settle, Larger
  <2> QED
    BY <1>1, <1>8, <1>12, <2>2 DEF Settle, TypeOK
<1>13. ASSUME NEW d \in Devices, RunStops(d) PROVE TypeOK'
  <2>1. faults' \in 0..MaxFaults
    BY <1>1, <1>13 DEF RunStops, TypeOK
  <2> QED
    BY <1>1, <1>8, <1>13, <2>1 DEF RunStops, TypeOK
<1> QED
  BY <1>2, <1>3, <1>4, <1>5, <1>6, <1>7, <1>9, <1>10, <1>11, <1>12, <1>13
     DEF Next, Pull, Push

LEMMA JournalInit == Init => JournalInv
<1> SUFFICES ASSUME Init PROVE JournalInv
  OBVIOUS
<1>1. NoRow \in Row /\ <<>> \in Seq(Entry) /\ <<>> \in Seq([row : Rows, field : Fields, dev : Devices])
  BY DEF NoRow, Row
<1>2. /\ now \in [Devices -> 1..(MaxTime + 1)] /\ row \in [Devices -> [Rows -> Row]]
      /\ clocks \in [Devices -> [Rows -> {NoClocks} \cup [Columns -> Stamp]]]
      /\ lastSeq \in [Devices -> Nat] /\ pushedAt \in [Devices -> Nat]
      /\ cursor \in [Devices -> [Devices -> Nat]] /\ remote \in [Devices -> SUBSET Segment]
  BY <1>1 DEF Init
<1>3. run \in [Devices -> Run] /\ \A d \in Devices : run[d].step = "idle"
  BY IdleRun DEF Init
<1>4. /\ edits \in Seq([row : Rows, field : Fields, dev : Devices]) /\ Len(edits) = 0
      /\ faults \in 0..MaxFaults /\ MaxEdits \in Nat
  BY <1>1 DEF Init
<1>5. \A d \in Devices : remote[d] = {} /\ lastSeq[d] = 0 /\ \A e \in Devices : cursor[d][e] = 0
  BY DEF Init
<1>6. TypeOK
  BY <1>2, <1>3, <1>4, <1>5 DEF TypeOK
<1> QED
  BY <1>3, <1>5, <1>6 DEF JournalInv, Ordered, Newest, Pushing, Boundary

\* A step that leaves the journals and the cursors alone.
LEMMA JournalKept ==
  ASSUME JournalInv, TypeOK', UNCHANGED <<lastSeq, cursor, remote>>,
         NEW d \in Devices, \A e \in Devices : e # d => run'[e] = run[e],
         run'[d] = run[d] \/ Pushing(d)'
  PROVE  JournalInv'
<1>1. \A e \in Devices : Ordered(e)' /\ Newest(e)' /\ Boundary(lastSeq[e], remote[e])'
  BY DEF JournalInv, Ordered, Newest, Boundary
<1>2. \A e, x \in Devices : Boundary(cursor[e][x], remote[x])'
  BY DEF JournalInv, Boundary
<1>3. \A e \in Devices : Pushing(e)'
  <2>1. \A e \in Devices : run'[e] = run[e] => Pushing(e)'
    BY DEF JournalInv, Pushing
  <2> QED
    BY <2>1
<1> QED
  BY <1>1, <1>2, <1>3 DEF JournalInv

\* A put adds the segment that follows the last one, and replaces none.
LEMMA PutAdds ==
  ASSUME JournalInv, NEW d \in Devices, Put(d)
  PROVE  /\ run[d].next = lastSeq[d] + 1 /\ run[d].next > 0
         /\ \A s \in remote[d] : s.last <= lastSeq[d]
         /\ NextSegment(d).first = lastSeq[d] + 1
         /\ NextSegment(d).last >= NextSegment(d).first /\ NextSegment(d).last \in Nat
         /\ remote' = [remote EXCEPT ![d] = remote[d] \cup {NextSegment(d)}]
<1>1. TypeOK /\ Ordered(d) /\ Pushing(d) /\ run[d].step = "putting" /\ lastSeq[d] \in Nat
  BY DEF JournalInv, Put, TypeOK
<1>2. run[d].next = lastSeq[d] + 1 /\ run[d].next > 0 /\ \A s \in remote[d] : s.last <= lastSeq[d]
  BY <1>1 DEF Pushing
<1>3. /\ NextSegment(d).last >= NextSegment(d).first /\ NextSegment(d) \in Segment
      /\ remote' = [remote EXCEPT ![d] =
           {s \in remote[d] : s.first # NextSegment(d).first \/ s.last # NextSegment(d).last}
             \cup {NextSegment(d)}]
  BY <1>1, <1>2, PutEffect
<1>4. NextSegment(d).first = lastSeq[d] + 1 /\ NextSegment(d).last \in Nat
  BY <1>2, <1>3 DEF NextSegment, Segment
<1>5. \A s \in remote[d] : s.first # NextSegment(d).first
  <2> TAKE s \in remote[d]
  <2>1. s.first \in Nat /\ s.last \in Nat /\ s.first <= s.last /\ s.last <= lastSeq[d]
    BY <1>1, <1>2, SegmentType DEF Ordered
  <2> QED
    BY <1>1, <1>4, <2>1
<1>6. {s \in remote[d] : s.first # NextSegment(d).first \/ s.last # NextSegment(d).last} = remote[d]
  BY <1>5
<1> QED
  BY <1>2, <1>3, <1>4, <1>6

\* The state of the journals is inductive.
LEMMA JournalStep ==
  ASSUME JournalInv, [Next]_vars
  PROVE  JournalInv'
<1> USE DEF pushState
<1>1. TypeOK /\ TypeOK'
  BY TypeStep DEF JournalInv
<1>2. ASSUME UNCHANGED <<lastSeq, cursor, remote, run>>, NEW d \in Devices PROVE JournalInv'
  BY <1>1, <1>2, JournalKept
<1>3. ASSUME UNCHANGED <<lastSeq, cursor, remote>>, NEW d \in Devices, GoIdle(d) PROVE JournalInv'
  <2>1. run'[d].step = "idle" /\ \A e \in Devices : e # d => run'[e] = run[e]
    BY <1>1, <1>3, IdleRun DEF GoIdle, TypeOK
  <2>2. Pushing(d)'
    BY <2>1 DEF Pushing
  <2> QED
    BY <1>1, <1>3, <2>1, <2>2, JournalKept
<1>4. ASSUME NEW d \in Devices, StartSync(d) PROVE JournalInv'
  <2>1. /\ run'[d].step = "pulling" /\ \A e \in Devices : e # d => run'[e] = run[e]
        /\ UNCHANGED <<lastSeq, cursor, remote>>
    BY <1>1, <1>4, StartEffect
  <2>2. Pushing(d)'
    BY <2>1 DEF Pushing
  <2> QED
    BY <1>1, <2>1, <2>2, JournalKept
<1>5. ASSUME NEW d \in Devices, NEW e \in Devices \ {d}, MergeSegment(d, e) PROVE JournalInv'
  <2>1. PICK s \in remote[e] : Merge(d, e, s)
    BY <1>5 DEF MergeSegment
  <2>2. UNCHANGED <<lastSeq, remote, run>> /\ cursor' = [cursor EXCEPT ![d][e] = s.last]
    <3>1. UNCHANGED <<lastSeq, remote, run>>
      BY <1>5 DEF MergeSegment
    <3>2. cursor' = [cursor EXCEPT ![d][e] = s.last]
      BY <1>1, <2>1, MergeEffect
    <3> QED
      BY <3>1, <3>2
  <2>3. \A x, y \in Devices : cursor'[x][y] = IF x = d /\ y = e THEN s.last ELSE cursor[x][y]
    <3>1. cursor \in [Devices -> [Devices -> Nat]]
      BY <1>1 DEF TypeOK
    <3> QED
      BY <2>2, <3>1
  <2>4. \A x, y \in Devices : Boundary(cursor[x][y], remote[y])'
    BY <2>2, <2>3 DEF JournalInv, Boundary
  <2>5. \A x \in Devices :
          Ordered(x)' /\ Newest(x)' /\ Pushing(x)' /\ Boundary(lastSeq[x], remote[x])'
    BY <2>2 DEF JournalInv, Ordered, Newest, Pushing, Boundary
  <2> QED
    BY <1>1, <2>4, <2>5 DEF JournalInv
<1>6. ASSUME NEW d \in Devices, Recover(d) PROVE JournalInv'
  <2>1. Newest(d)
    BY DEF JournalInv
  <2>2. /\ \A e \in Devices : e # d => lastSeq'[e] = lastSeq[e]
        /\ lastSeq'[d] = lastSeq[d] \/ \E s \in remote[d] : lastSeq'[d] = s.last
        /\ \A s \in remote[d] : s.last <= lastSeq'[d]
        /\ run' = [run EXCEPT ![d] = AtStep(Idle, "collecting")]
        /\ UNCHANGED <<cursor, remote>>
    BY <1>1, <1>6, <2>1, RecoverEffect
  <2>3. AtStep(Idle, "collecting").step = "collecting"
    BY IdleRun, RunStep DEF Step
  <2>4. run'[d].step = "collecting" /\ \A e \in Devices : e # d => run'[e] = run[e]
    BY <1>1, <2>2, <2>3 DEF TypeOK
  <2>5. Pushing(d)' /\ Boundary(lastSeq[d], remote[d])'
    BY <2>2, <2>4 DEF Pushing, JournalInv, Boundary
  <2>6. \A e \in Devices : e # d => Pushing(e)' /\ Boundary(lastSeq[e], remote[e])'
    BY <2>2, <2>4 DEF JournalInv, Pushing, Boundary
  <2>7. \A x, y \in Devices : Ordered(x)' /\ Newest(x)' /\ Boundary(cursor[x][y], remote[y])'
    <3>1. remote' = remote /\ cursor' = cursor
      BY <2>2
    <3>2. \A x, y \in Devices : Ordered(x) /\ Newest(x) /\ Boundary(cursor[x][y], remote[y])
      BY DEF JournalInv
    <3>3. \A x \in Devices : Ordered(x)' /\ Newest(x)'
      BY <3>1, <3>2 DEF Ordered, Newest
    <3>4. \A x, y \in Devices : Boundary(cursor[x][y], remote[y])'
      BY <3>1, <3>2 DEF Boundary
    <3> QED
      BY <3>3, <3>4
  <2> QED
    BY <1>1, <2>5, <2>6, <2>7 DEF JournalInv
<1>7. ASSUME NEW d \in Devices, Collect(d) PROVE JournalInv'
  <2>1. UNCHANGED <<lastSeq, cursor, remote>> /\ run[d].step = "collecting"
    BY <1>7 DEF Collect
  <2>2. ASSUME NEW batch \in Seq(Entry), run' = [run EXCEPT ![d] = Snapshot(d, batch)],
               Snapshot(d, batch).step = "putting", Snapshot(d, batch).next = lastSeq[d] + 1
        PROVE  JournalInv'
    <3>1. /\ run'[d].step = "putting" /\ run'[d].next = lastSeq[d] + 1
          /\ \A e \in Devices : e # d => run'[e] = run[e]
      BY <1>1, <2>2 DEF TypeOK
    <3>2. Pushing(d)'
      BY <2>1, <3>1 DEF JournalInv, Pushing
    <3> QED
      BY <1>1, <2>1, <3>1, <3>2, JournalKept
  <2> QED
    BY <1>1, <1>3, <1>7, <2>1, <2>2, CollectEffect
<1>8. ASSUME NEW d \in Devices, Put(d) PROVE JournalInv'
  <2> DEFINE seg == NextSegment(d)
  <2>1. /\ run[d].next = lastSeq[d] + 1 /\ run[d].next > 0
        /\ \A s \in remote[d] : s.last <= lastSeq[d]
        /\ seg.first = lastSeq[d] + 1 /\ seg.last >= seg.first /\ seg.last \in Nat
        /\ remote' = [remote EXCEPT ![d] = remote[d] \cup {seg}]
    BY <1>8, PutAdds
  <2>2. /\ run'[d].step = "acking" /\ run'[d].next = seg.last + 1
        /\ \A e \in Devices : e # d => run'[e] = run[e]
        /\ UNCHANGED <<lastSeq, cursor>>
    BY <1>1, <1>8, <2>1, PutEffect
  <2> HIDE DEF seg
  <2>3. /\ remote'[d] = remote[d] \cup {seg} /\ \A e \in Devices : e # d => remote'[e] = remote[e]
        /\ \A e \in Devices : remote[e] \subseteq remote'[e]
        /\ lastSeq[d] \in Nat
    BY <1>1, <2>1 DEF TypeOK
  <2>4. \A s \in remote[d] : s.first \in Nat /\ s.first > 0 /\ s.last \in Nat /\ s.last > 0
    BY <1>1, SegmentType
  <2>5. Ordered(d)'
    <3>1. Ordered(d) /\ Boundary(lastSeq[d], remote[d])
      BY DEF JournalInv
    <3>2. \A s \in remote'[d] : s.first <= s.last
      BY <2>1, <2>3, <3>1 DEF Ordered
    <3>3. \A s, t \in remote'[d] : s # t => s.last < t.first \/ t.last < s.first
      BY <2>1, <2>3, <2>4, <3>1 DEF Ordered
    <3>4. \A s \in remote'[d] : s.first = 1 \/ \E t \in remote'[d] : s.first = t.last + 1
      BY <2>1, <2>3, <3>1 DEF Ordered, Boundary
    <3> QED
      BY <3>2, <3>3, <3>4 DEF Ordered
  <2>6. Newest(d)' /\ Pushing(d)'
    <3>1. \A s \in remote'[d] : s.last <= seg.last
      BY <2>1, <2>3, <2>4
    <3>2. Newest(d)'
      BY <2>3, <3>1 DEF Newest
    <3>3. Pushing(d)'
      BY <2>1, <2>2, <2>3, <3>1 DEF Pushing
    <3> QED
      BY <3>2, <3>3
  <2>7. \A e \in Devices : e # d => Ordered(e)' /\ Newest(e)' /\ Pushing(e)'
    BY <2>2, <2>3 DEF JournalInv, Ordered, Newest, Pushing
  <2>8. \A x, y \in Devices : Boundary(lastSeq[x], remote[x])' /\ Boundary(cursor[x][y], remote[y])'
    BY <2>2, <2>3 DEF JournalInv, Boundary
  <2> QED
    BY <1>1, <2>5, <2>6, <2>7, <2>8 DEF JournalInv
<1>9. ASSUME NEW d \in Devices, Ack(d) PROVE JournalInv'
  <2>1. /\ lastSeq[d] < run[d].next /\ lastSeq[d] \in Nat /\ run[d].next \in Nat
        /\ \E t \in remote[d] : t.last = run[d].next - 1
        /\ \A s \in remote[d] : s.last <= run[d].next - 1
    BY <1>9 DEF JournalInv, Pushing, Ack, TypeOK, Run
  <2>2. run[d].next > 0
    BY <2>1
  <2>3. /\ \A e \in Devices : e # d => lastSeq'[e] = lastSeq[e] /\ run'[e] = run[e]
        /\ lastSeq'[d] = Larger(lastSeq[d], run[d].next - 1)
        /\ run'[d].step \in {"putting", "settling"} /\ run'[d].next = run[d].next
        /\ UNCHANGED <<cursor, remote>>
    BY <1>1, <1>9, <2>2, AckEffect
  <2>4. lastSeq'[d] = run[d].next - 1
    BY <2>1, <2>3 DEF Larger
  <2>5. Pushing(d)' /\ Boundary(lastSeq[d], remote[d])'
    <3>1. lastSeq'[d] + 1 = run'[d].next
      BY <2>1, <2>3, <2>4
    <3>2. run'[d].step # "acking" /\ \A s \in remote'[d] : s.last <= lastSeq'[d]
      BY <2>1, <2>3, <2>4
    <3>3. Pushing(d)'
      BY <3>1, <3>2 DEF Pushing
    <3>4. \E t \in remote'[d] : t.last = lastSeq'[d]
      BY <2>1, <2>3, <2>4
    <3>5. Boundary(lastSeq[d], remote[d])'
      BY <3>4 DEF Boundary
    <3> QED
      BY <3>3, <3>5
  <2>6. ASSUME NEW e \in Devices, e # d PROVE Pushing(e)' /\ Boundary(lastSeq[e], remote[e])'
    <3>1. lastSeq'[e] = lastSeq[e] /\ run'[e] = run[e] /\ remote' = remote
      BY <2>3, <2>6
    <3>2. Pushing(e) /\ Boundary(lastSeq[e], remote[e])
      BY DEF JournalInv
    <3>3. Pushing(e)'
      BY <3>1, <3>2 DEF Pushing
    <3>4. Boundary(lastSeq[e], remote[e])'
      BY <3>1, <3>2 DEF Boundary
    <3> QED
      BY <3>3, <3>4
  <2>7. \A x, y \in Devices : Ordered(x)' /\ Newest(x)' /\ Boundary(cursor[x][y], remote[y])'
    <3>1. remote' = remote /\ cursor' = cursor
      BY <2>3
    <3>2. \A x, y \in Devices : Ordered(x) /\ Newest(x) /\ Boundary(cursor[x][y], remote[y])
      BY DEF JournalInv
    <3>3. \A x \in Devices : Ordered(x)' /\ Newest(x)'
      BY <3>1, <3>2 DEF Ordered, Newest
    <3>4. \A x, y \in Devices : Boundary(cursor[x][y], remote[y])'
      BY <3>1, <3>2 DEF Boundary
    <3> QED
      BY <3>3, <3>4
  <2> QED
    BY <1>1, <2>5, <2>6, <2>7 DEF JournalInv
<1>10. CASE UNCHANGED vars
  <2>1. UNCHANGED <<lastSeq, cursor, remote, run>>
    BY <1>10 DEF vars
  <2>2. CASE Devices = {}
    BY <1>1, <2>2 DEF JournalInv
  <2> QED
    BY <1>2, <2>1, <2>2
<1>11. ASSUME NEW d \in Devices, Tick(d) PROVE JournalInv'
  BY <1>2, <1>11 DEF Tick
<1>12. ASSUME NEW d \in Devices, NEW r \in Rows, NEW f \in Fields, LocalEdit(d, r, f) PROVE JournalInv'
  BY <1>2, <1>12 DEF LocalEdit
<1>13. ASSUME NEW d \in Devices, Settle(d) \/ RunStops(d) PROVE JournalInv'
  BY <1>3, <1>13 DEF Settle, RunStops
<1> QED
  BY <1>4, <1>5, <1>6, <1>7, <1>8, <1>9, <1>10, <1>11, <1>12, <1>13 DEF Next, Pull, Push

\* Every variable of the model keeps its type.
THEOREM TypeCorrect == Spec => []TypeOK
<1>1. JournalInv => TypeOK
  BY DEF JournalInv
<1> QED
  BY <1>1, JournalInit, JournalStep, PTL DEF Spec

\* What lies beyond the end of a segment of a journal continues from there.
LEMMA TailContiguous ==
  ASSUME JournalInv, NEW e \in Devices, NEW n \in Nat, Boundary(n, remote[e])
  PROVE  Contiguous(n, {s \in remote[e] : s.last > n})
<1> DEFINE tail == {s \in remote[e] : s.last > n}
<1>1. Ordered(e) /\ TypeOK
  BY DEF JournalInv
<1>2. \A s \in remote[e] : s.first \in Nat /\ s.first > 0 /\ s.last \in Nat /\ s.last > 0
  BY <1>1, SegmentType
<1>3. ASSUME NEW s \in tail PROVE s.first = n + 1 \/ \E t \in tail : s.first = t.last + 1
  <2>1. n = 0 \/ \E u \in remote[e] : u.last = n /\ u # s /\ u.last < s.first
    <3>1. ASSUME NEW u \in remote[e], u.last = n PROVE u # s /\ u.last < s.first
      <4>1. u # s
        BY <1>2, <1>3, <3>1
      <4>2. u.first <= u.last /\ (s.last < u.first \/ u.last < s.first)
        BY <1>1, <1>3, <3>1, <4>1 DEF Ordered
      <4> QED
        BY <1>2, <1>3, <3>1, <4>1, <4>2
    <3> QED
      BY <3>1 DEF Boundary
  <2>2. n < s.first
    BY <1>2, <1>3, <2>1
  <2>3. s.first = 1 \/ \E t \in remote[e] : s.first = t.last + 1
    BY <1>1, <1>3 DEF Ordered
  <2> QED
    BY <1>2, <1>3, <2>2, <2>3
<1>4. \A s, t \in tail : s # t => s.last < t.first \/ t.last < s.first
  BY <1>1 DEF Ordered
<1> QED
  BY <1>3, <1>4 DEF Contiguous

\* No journal ever wedges a device, its own included.
THEOREM JournalsNeverWedge == Spec => []NeverWedged
<1>1. JournalInv => NeverWedged
  <2> SUFFICES ASSUME JournalInv PROVE NeverWedged
    OBVIOUS
  <2>1. \A d, e \in Devices : cursor[d][e] \in Nat /\ lastSeq[d] \in Nat
    BY DEF JournalInv, TypeOK
  <2>2. \A d, e \in Devices : Boundary(cursor[d][e], remote[e]) /\ Boundary(lastSeq[d], remote[d])
    BY DEF JournalInv
  <2> QED
    BY <2>1, <2>2, TailContiguous DEF NeverWedged
<1> QED
  BY <1>1, JournalInit, JournalStep, PTL DEF Spec

\* Only a put writes a journal, and it only adds to it.
LEMMA OnlyPutsPublish ==
  ASSUME [Next]_vars
  PROVE  (\E d \in Devices : Put(d)) \/ UNCHANGED remote
<1>1. CASE UNCHANGED vars
  BY <1>1 DEF vars
<1>2. ASSUME NEW d \in Devices, Tick(d) \/ Pull(d) \/ RunStops(d) PROVE UNCHANGED remote
  BY <1>2 DEF Pull, Tick, StartSync, MergeSegment, RunStops
<1>3. ASSUME NEW d \in Devices, NEW r \in Rows, NEW f \in Fields, LocalEdit(d, r, f)
      PROVE  UNCHANGED remote
  BY <1>3 DEF LocalEdit
<1>4. ASSUME NEW d \in Devices, Push(d) PROVE Put(d) \/ UNCHANGED remote
  BY <1>4 DEF Push, Recover, Collect, Ack, Settle
<1> QED
  BY <1>1, <1>2, <1>3, <1>4 DEF Next

LEMMA JournalsGrow ==
  ASSUME JournalInv, [Next]_vars
  PROVE  \A d \in Devices : remote[d] \subseteq remote'[d]
<1>1. ASSUME NEW d \in Devices, Put(d) PROVE \A e \in Devices : remote[e] \subseteq remote'[e]
  <2>1. remote' = [remote EXCEPT ![d] = remote[d] \cup {NextSegment(d)}]
    BY <1>1, PutAdds
  <2>2. remote \in [Devices -> SUBSET Segment]
    BY DEF JournalInv, TypeOK
  <2> QED
    BY <2>1, <2>2
<1>2. (\E d \in Devices : Put(d)) \/ UNCHANGED remote
  BY OnlyPutsPublish
<1> QED
  BY <1>1, <1>2

\* A published segment is never replaced or withdrawn, its range of sequence
\* numbers included (recoverPublishedSegments, engine.ts).
THEOREM SegmentsAreImmutable == Spec => [][\A d \in Devices : remote[d] \subseteq remote'[d]]_vars
<1>1. JournalInv /\ [Next]_vars => [\A d \in Devices : remote[d] \subseteq remote'[d]]_vars
  BY JournalsGrow
<1> QED
  BY <1>1, JournalInit, JournalStep, PTL DEF Spec

-----------------------------------------------------------------------------
(* Pending rows.                                                           *)

Publishing(d) == run[d].step \in {"putting", "acking", "settling"}

\* The watermark stays below the clock, and so does the one being pushed.
Steady(d) ==
  /\ pushedAt[d] < now[d]
  /\ Publishing(d) => run[d].bound < now[d]

\* The columns of a row carry one stamp: an entry wins all of them or none.
Uniform(d) ==
  \A r \in Rows : clocks[d][r] # NoClocks => \A c, b \in Columns : clocks[d][r][c] = clocks[d][r][b]

PublishedIn(journals, r, values) ==
  \E e \in Devices : \E s \in journals[e] : \E i \in DOMAIN s.entries :
    s.entries[i].row = r /\ s.entries[i].values = values

Published(r, values) == PublishedIn(remote, r, values)

\* What a push still has to upload is in the rest of its batch.
Covered(d) ==
  /\ run[d].step = "settling" => run[d].batch = <<>>
  /\ Publishing(d) =>
       \A r \in Rows :
         \/ row[d][r] = NoRow
         \/ row[d][r]["updated_at"] > run[d].bound
         \/ Published(r, row[d][r])
         \/ \E i \in DOMAIN run[d].batch :
              run[d].batch[i].row = r /\ run[d].batch[i].values = row[d][r]

\* PendingOrPublished, of one device.
Pending(d) ==
  \A r \in Rows :
    \/ row[d][r] = NoRow
    \/ row[d][r]["updated_at"] > pushedAt[d]
    \/ Published(r, row[d][r])

Pushable(d) == Pending(d) /\ Steady(d) /\ Uniform(d) /\ Covered(d)

PubInv == JournalInv /\ \A d \in Devices : Pushable(d)

\* The stamps in force of a row are one and the same for all of its columns.
LEMMA OneStamp ==
  ASSUME TypeOK, NEW d \in Devices, Uniform(d), NEW r \in Rows
  PROVE  \A c, b \in Columns :
           RowClocks(d, clocks[d][r], row[d][r])[c] = RowClocks(d, clocks[d][r], row[d][r])[b]
<1>1. CASE clocks[d][r] = NoClocks
  BY <1>1 DEF RowClocks
<1>2. CASE clocks[d][r] # NoClocks
  <2>1. RowClocks(d, clocks[d][r], row[d][r]) = clocks[d][r]
    BY <1>2 DEF RowClocks
  <2> QED
    BY <1>2, <2>1 DEF Uniform
<1> QED
  BY <1>1, <1>2

\* A merge takes the whole entry or nothing of it.
LEMMA MergeWhole ==
  ASSUME TypeOK, NEW d \in Devices, Uniform(d), NEW en \in Entry
  PROVE  \/ /\ Winners(d, en) = {}
            /\ MergedRow(d, en) = row[d][en.row] /\ MergedClocks(d, en) = clocks[d][en.row]
         \/ /\ Winners(d, en) = Columns
            /\ MergedRow(d, en) = en.values
            /\ MergedClocks(d, en) = [c \in Columns |-> en.hlc]
<1> DEFINE local == RowClocks(d, clocks[d][en.row], row[d][en.row])
<1>1. en.row \in Rows /\ en.values \in Row /\ row[d][en.row] \in Row
  <2>1. en.row \in Rows /\ en.values \in Row
    BY DEF Entry
  <2>2. row \in [Devices -> [Rows -> Row]]
    BY DEF TypeOK
  <2> QED
    BY <2>1, <2>2
<1>2. \A c, b \in Columns : local[c] = local[b]
  BY <1>1, OneStamp
<1>3. Winners(d, en) = {} \/ Winners(d, en) = Columns
  <2> HIDE DEF local
  <2>1. Winners(d, en) = IF row[d][en.row] = NoRow /\ clocks[d][en.row] = NoClocks
                         THEN Columns ELSE {c \in Columns : Newer(en.hlc, local[c])}
    BY DEF Winners, local
  <2> QED
    BY <1>2, <2>1
<1>4. CASE Winners(d, en) = {}
  <2>1. MergedRow(d, en) = row[d][en.row]
    BY <1>1, <1>4 DEF MergedRow, Row
  <2> QED
    BY <1>4, <2>1 DEF MergedClocks
<1>5. CASE Winners(d, en) = Columns
  <2>1. MergedRow(d, en) = en.values
    BY <1>1, <1>5 DEF MergedRow, Row
  <2>2. Winners(d, en) # {}
    BY <1>5, UpdatedAt
  <2>3. MergedClocks(d, en) = [c \in Columns |-> en.hlc]
    BY <1>5, <2>2 DEF MergedClocks
  <2> QED
    BY <1>5, <2>1, <2>3
<1> QED
  BY <1>3, <1>4, <1>5

\* What is published stays published.
LEMMA PublishedStays ==
  ASSUME NEW r, NEW values, Published(r, values), \A e \in Devices : remote[e] \subseteq remote'[e]
  PROVE  Published(r, values)'
BY DEF Published, PublishedIn

LEMMA PubInit == Init => PubInv
<1> SUFFICES ASSUME Init PROVE PubInv
  OBVIOUS
<1>1. JournalInv
  BY JournalInit
<1>2. \A d \in Devices : /\ pushedAt[d] = 0 /\ now[d] = 1 /\ run[d] = Idle
                         /\ \A r \in Rows : row[d][r] = NoRow /\ clocks[d][r] = NoClocks
  BY DEF Init
<1>3. \A d \in Devices : Pending(d) /\ Steady(d) /\ Uniform(d) /\ Covered(d)
  BY <1>2, IdleRun DEF Pending, Steady, Uniform, Covered, Publishing
<1> QED
  BY <1>1, <1>3 DEF PubInv, Pushable

\* The numbers of a device.
LEMMA Numbers ==
  ASSUME TypeOK, NEW d \in Devices
  PROVE  /\ pushedAt[d] \in Nat /\ lastSeq[d] \in Nat
         /\ now[d] \in Nat /\ now[d] > 0
         /\ run[d].bound \in Nat /\ run[d].next \in Nat /\ run[d].batch \in Seq(Entry)
         /\ row[d] \in [Rows -> Row]
<1>1. run[d] \in Run /\ now[d] \in 1..(MaxTime + 1) /\ row[d] \in [Rows -> Row]
  BY DEF TypeOK
<1>2. pushedAt[d] \in Nat /\ lastSeq[d] \in Nat
  BY DEF TypeOK
<1>3. run[d].bound \in Nat /\ run[d].next \in Nat /\ run[d].batch \in Seq(Entry)
  BY <1>1 DEF Run
<1> QED
  BY <1>1, <1>2, <1>3

\* The rows and stamps of a device that nobody writes keep their state.
LEMMA PushableKept ==
  ASSUME PubInv, \A e \in Devices : remote[e] \subseteq remote'[e],
         NEW d \in Devices, row'[d] = row[d], clocks'[d] = clocks[d],
         pushedAt'[d] = pushedAt[d], now'[d] >= now[d], now'[d] \in Nat
  PROVE  /\ Pending(d)' /\ Uniform(d)'
         /\ run'[d] = run[d] => Pushable(d)'
         /\ run'[d].step \in {"idle", "pulling", "collecting"} => Pushable(d)'
<1>1. Pending(d) /\ Steady(d) /\ Uniform(d) /\ Covered(d)
  BY DEF PubInv, Pushable
<1>2. \A r, v : Published(r, v) => Published(r, v)'
  BY PublishedStays
<1>3. Pending(d)'
  BY <1>1, <1>2 DEF Pending
<1>4. Uniform(d)'
  BY <1>1 DEF Uniform
<1>5. pushedAt[d] \in Nat /\ now[d] \in Nat /\ run[d].bound \in Nat
  BY Numbers DEF PubInv, JournalInv
<1>6. ASSUME run'[d] = run[d] PROVE Steady(d)' /\ Covered(d)'
  <2>1. Steady(d)'
    BY <1>1, <1>5, <1>6 DEF Steady, Publishing
  <2>2. Covered(d)'
    BY <1>1, <1>2, <1>6 DEF Covered, Publishing
  <2> QED
    BY <2>1, <2>2
<1>7. ASSUME run'[d].step \in {"idle", "pulling", "collecting"} PROVE Steady(d)' /\ Covered(d)'
  <2>1. pushedAt'[d] < now'[d]
    BY <1>1, <1>5 DEF Steady
  <2> QED
    BY <1>7, <2>1 DEF Steady, Covered, Publishing
<1> QED
  BY <1>3, <1>4, <1>6, <1>7 DEF Pushable

\* Whatever a device does, the rows, stamps, clock, watermark and run of the
\* others stay.
LEMMA OthersKept ==
  ASSUME TypeOK, NEW d \in Devices, NEW x \in Devices, x # d,
         \/ Tick(d) \/ Pull(d) \/ Push(d) \/ RunStops(d)
         \/ \E r \in Rows, f \in Fields : LocalEdit(d, r, f)
  PROVE  /\ row'[x] = row[x] /\ clocks'[x] = clocks[x] /\ pushedAt'[x] = pushedAt[x]
         /\ now'[x] = now[x] /\ run'[x] = run[x]
<1> USE DEF pushState
<1>1. /\ row \in [Devices -> [Rows -> Row]] /\ pushedAt \in [Devices -> Nat]
      /\ now \in [Devices -> 1..(MaxTime + 1)] /\ run \in [Devices -> Run]
      /\ clocks \in [Devices -> [Rows -> Clocks]]
  BY DEF TypeOK, Clocks
<1>2. CASE Tick(d)
  BY <1>1, <1>2 DEF Tick
<1>3. ASSUME NEW r \in Rows, NEW f \in Fields, LocalEdit(d, r, f)
      PROVE  /\ row'[x] = row[x] /\ UNCHANGED <<clocks, pushedAt, now, run>>
  BY <1>1, <1>3 DEF LocalEdit
<1>4. CASE StartSync(d)
  BY <1>1, <1>4 DEF StartSync
<1>5. ASSUME NEW e \in Devices \ {d}, MergeSegment(d, e)
      PROVE  /\ row'[x] = row[x] /\ clocks'[x] = clocks[x] /\ UNCHANGED <<pushedAt, now, run>>
  <2>1. PICK s \in remote[e] : Merge(d, e, s)
    BY <1>5 DEF MergeSegment
  <2>2. row'[x] = row[x] /\ clocks'[x] = clocks[x]
    BY <1>1, <2>1 DEF Merge
  <2> QED
    BY <1>5, <2>2 DEF MergeSegment
<1>6. CASE Recover(d)
  BY <1>1, <1>6 DEF Recover
<1>7. CASE Collect(d)
  BY <1>1, <1>7 DEF Collect, GoIdle
<1>8. CASE Put(d)
  BY <1>1, <1>8 DEF Put
<1>9. CASE Ack(d)
  BY <1>1, <1>9 DEF Ack
<1>10. CASE Settle(d)
  BY <1>1, <1>10 DEF Settle, GoIdle
<1>11. CASE RunStops(d)
  BY <1>1, <1>11 DEF RunStops, GoIdle
<1> QED
  BY <1>2, <1>3, <1>4, <1>5, <1>6, <1>7, <1>8, <1>9, <1>10, <1>11 DEF Pull, Push

\* The own device's part of the steps that write rows, stamps, the watermark or
\* the snapshot being pushed.
LEMMA EditPushable ==
  ASSUME PubInv, NEW d \in Devices, NEW r \in Rows, NEW f \in Fields, LocalEdit(d, r, f),
         \A e \in Devices : remote[e] \subseteq remote'[e]
  PROVE  Pushable(d)'
<1>1. TypeOK /\ Pending(d) /\ Steady(d) /\ Uniform(d) /\ Covered(d)
  BY DEF PubInv, Pushable, JournalInv
<1>2. /\ \A y \in Rows : y # r => row'[d][y] = row[d][y]
      /\ row'[d][r]["updated_at"] = Touched(d, r) /\ Touched(d, r) \in Nat /\ Touched(d, r) >= now[d]
      /\ UNCHANGED <<now, clocks, pushedAt, run>>
  BY <1>1, EditEffect DEF pushState
<1>3. pushedAt[d] \in Nat /\ now[d] \in Nat /\ run[d].bound \in Nat
  BY <1>1, Numbers
<1>4. \A y, v : Published(y, v) => Published(y, v)'
  BY PublishedStays
<1>5. row'[d][r]["updated_at"] > pushedAt[d]
      /\ (Publishing(d) => row'[d][r]["updated_at"] > run[d].bound)
  BY <1>1, <1>2, <1>3 DEF Steady
<1>6. Pending(d)'
  BY <1>1, <1>2, <1>4, <1>5 DEF Pending
<1>7. Steady(d)' /\ Uniform(d)'
  BY <1>1, <1>2 DEF Steady, Publishing, Uniform
<1>8. Covered(d)'
  <2>1. ASSUME Publishing(d), NEW y \in Rows
        PROVE  \/ row'[d][y] = NoRow
               \/ row'[d][y]["updated_at"] > run[d].bound
               \/ Published(y, row[d][y])'
               \/ \E i \in DOMAIN run[d].batch :
                    run[d].batch[i].row = y /\ run[d].batch[i].values = row'[d][y]
    <3>1. CASE y = r
      BY <1>5, <2>1, <3>1
    <3>2. CASE y # r
      BY <1>1, <1>2, <1>4, <2>1, <3>2 DEF Covered
    <3> QED
      BY <3>1, <3>2
  <2>2. run[d].step = "settling" => run[d].batch = <<>>
    BY <1>1 DEF Covered
  <2> QED
    BY <1>2, <2>1, <2>2 DEF Covered, Publishing
<1> QED
  BY <1>6, <1>7, <1>8 DEF Pushable

\* A merged row is in the journal it came from.
LEMMA MergePushable ==
  ASSUME PubInv, NEW d \in Devices, NEW e \in Devices \ {d}, MergeSegment(d, e)
  PROVE  Pushable(d)'
<1>1. TypeOK /\ Pending(d) /\ Steady(d) /\ Uniform(d) /\ Covered(d) /\ run[d].step = "pulling"
  BY DEF PubInv, Pushable, JournalInv, MergeSegment
<1>2. PICK s \in remote[e] : Merge(d, e, s)
  BY DEF MergeSegment
<1>3. UNCHANGED <<now, pushedAt, remote, run>>
  BY DEF MergeSegment, pushState
<1>4. \A r \in Rows :
        \/ row'[d][r] = row[d][r] /\ clocks'[d][r] = clocks[d][r]
        \/ \E i \in DOMAIN s.entries :
             /\ s.entries[i].row = r
             /\ row'[d][r] = MergedRow(d, s.entries[i])
             /\ clocks'[d][r] = MergedClocks(d, s.entries[i])
  BY <1>1, <1>2, MergeEffect
<1>5. ASSUME NEW r \in Rows
      PROVE  \/ row'[d][r] = row[d][r] /\ clocks'[d][r] = clocks[d][r]
             \/ /\ Published(r, row[d][r])'
                /\ \E stamp : clocks'[d][r] = [c \in Columns |-> stamp]
  <2>1. ASSUME NEW i \in DOMAIN s.entries, s.entries[i].row = r,
               row'[d][r] = MergedRow(d, s.entries[i]),
               clocks'[d][r] = MergedClocks(d, s.entries[i])
        PROVE  \/ row'[d][r] = row[d][r] /\ clocks'[d][r] = clocks[d][r]
               \/ /\ Published(r, row[d][r])'
                  /\ \E stamp : clocks'[d][r] = [c \in Columns |-> stamp]
    <3> DEFINE en == s.entries[i]
    <3>1. en \in Entry
      BY <1>1, SegmentType
    <3> HIDE DEF en
    <3>2. en.row = r /\ row'[d][r] = MergedRow(d, en) /\ clocks'[d][r] = MergedClocks(d, en)
      BY <2>1 DEF en
    <3>3. \/ /\ MergedRow(d, en) = row[d][r] /\ MergedClocks(d, en) = clocks[d][r]
          \/ /\ MergedRow(d, en) = en.values
             /\ MergedClocks(d, en) = [c \in Columns |-> en.hlc]
      BY <1>1, <3>1, <3>2, MergeWhole
    <3>4. CASE MergedRow(d, en) = en.values /\ MergedClocks(d, en) = [c \in Columns |-> en.hlc]
      <4>1. row'[d][r] = s.entries[i].values /\ s \in remote'[e]
        BY <1>3, <3>2, <3>4 DEF en
      <4>2. Published(r, row[d][r])'
        BY <2>1, <4>1 DEF Published, PublishedIn
      <4> QED
        BY <3>2, <3>4, <4>2
    <3> QED
      BY <3>2, <3>3, <3>4
  <2> QED
    BY <1>4, <2>1
<1>6. Pending(d)'
  <2>1. \A r, v : Published(r, v) => Published(r, v)'
    BY <1>3 DEF Published, PublishedIn
  <2> QED
    BY <1>1, <1>3, <1>5, <2>1 DEF Pending
<1>7. Uniform(d)'
  <2>1. ASSUME NEW r \in Rows, NEW c \in Columns, NEW b \in Columns, clocks'[d][r] # NoClocks
        PROVE  clocks'[d][r][c] = clocks'[d][r][b]
    <3>1. CASE clocks'[d][r] = clocks[d][r]
      BY <1>1, <2>1, <3>1 DEF Uniform
    <3>2. CASE \E stamp : clocks'[d][r] = [x \in Columns |-> stamp]
      BY <3>2
    <3> QED
      BY <1>5, <3>1, <3>2
  <2> QED
    BY <2>1 DEF Uniform
<1>8. Steady(d)' /\ Covered(d)'
  BY <1>1, <1>3 DEF Steady, Covered, Publishing
<1> QED
  BY <1>6, <1>7, <1>8 DEF Pushable

\* A snapshot holds every row that is neither published nor left to a later push.
LEMMA CollectPushable ==
  ASSUME PubInv, NEW d \in Devices, Collect(d), run'[d].step # "idle"
  PROVE  Pushable(d)'
<1>1. TypeOK /\ Pending(d) /\ Steady(d) /\ Uniform(d) /\ run \in [Devices -> Run]
  BY DEF PubInv, Pushable, JournalInv, TypeOK
<1>2. UNCHANGED <<now, row, clocks, pushedAt, remote>>
  BY DEF Collect, pushState
<1>3. ~GoIdle(d)
  BY <1>1, IdleRun DEF GoIdle
<1>4. PICK batch \in Seq(Entry) :
        /\ \A p \in Projected(d) : \E i \in DOMAIN batch : batch[i] = p
        /\ run' = [run EXCEPT ![d] = Snapshot(d, batch)]
        /\ Snapshot(d, batch).step = "putting" /\ Snapshot(d, batch).batch = batch
        /\ Snapshot(d, batch).bound = Larger(pushedAt[d], Watermark(d))
  BY <1>1, <1>3, CollectEffect
<1>5. /\ run'[d].step = "putting" /\ run'[d].batch = batch
      /\ run'[d].bound = Larger(pushedAt[d], Watermark(d))
  BY <1>1, <1>4
<1>6. pushedAt[d] \in Nat /\ now[d] \in Nat /\ now[d] > 0 /\ row[d] \in [Rows -> Row]
  BY <1>1, Numbers
<1>7. Larger(pushedAt[d], Watermark(d)) < now[d]
  BY <1>1, <1>6 DEF Larger, Watermark, Steady
<1>8. Steady(d)' /\ Uniform(d)' /\ Pending(d)'
  BY <1>1, <1>2, <1>5, <1>7 DEF Steady, Uniform, Pending, Published, PublishedIn
<1>9. ASSUME NEW r \in Rows
      PROVE  \/ row[d][r] = NoRow
             \/ row[d][r]["updated_at"] > Larger(pushedAt[d], Watermark(d))
             \/ Published(r, row[d][r])'
             \/ \E i \in DOMAIN batch : batch[i].row = r /\ batch[i].values = row[d][r]
  <2>1. row[d][r]["updated_at"] \in Nat
    BY <1>6, UpdatedAt DEF Row
  <2>2. CASE row[d][r]["updated_at"] > pushedAt[d]
    <3>1. CASE row[d][r]["updated_at"] <= Watermark(d)
      <4>1. PICK p \in Projected(d) : p.row = r /\ p.values = row[d][r]
        BY <1>1, <2>2, <3>1, ProjectedType
      <4> QED
        BY <1>4, <4>1
    <3>2. CASE ~(row[d][r]["updated_at"] <= Watermark(d))
      BY <1>6, <2>1, <2>2, <3>2 DEF Larger, Watermark
    <3> QED
      BY <3>1, <3>2
  <2>3. CASE Published(r, row[d][r])
    BY <1>2, <2>3 DEF Published, PublishedIn
  <2> QED
    BY <1>1, <2>2, <2>3 DEF Pending
<1>10. Covered(d)'
  BY <1>2, <1>5, <1>9 DEF Covered
<1> QED
  BY <1>8, <1>10 DEF Pushable

\* The rows of an uploaded segment leave the batch for the journal.
LEMMA PutPushable ==
  ASSUME PubInv, NEW d \in Devices, Put(d)
  PROVE  Pushable(d)'
<1> DEFINE b == run[d].batch
           n == BatchSize(d)
           seg == NextSegment(d)
           left == LeftOver(d)
<1>1. JournalInv /\ TypeOK /\ Pending(d) /\ Steady(d) /\ Uniform(d) /\ Covered(d)
  BY DEF PubInv, Pushable, JournalInv
<1>2. run[d].step = "putting" /\ run[d].next > 0
  BY <1>1, PutAdds DEF Put
<1>3. /\ remote' = [remote EXCEPT ![d] = remote[d] \cup {seg}]
      /\ UNCHANGED <<now, row, clocks, pushedAt>>
  BY <1>1, <1>2, PutAdds DEF Put, pushState
<1>4. run'[d].step = "acking" /\ run'[d].batch = left /\ run'[d].bound = run[d].bound
  BY <1>1, <1>2, PutEffect
<1>5. /\ n \in Nat /\ n > 0 /\ n <= Len(b) /\ b \in Seq(Entry)
      /\ seg.entries \in Seq(Entry) /\ Len(seg.entries) = n /\ \A i \in 1..n : seg.entries[i] = b[i]
      /\ left \in Seq(Entry) /\ Len(left) = Len(b) - n
      /\ \A i \in 1..(Len(b) - n) : left[i] = b[n + i]
  BY <1>1, <1>2, CutBatch, Numbers DEF NextSegment, LeftOver
<1>6. seg \in remote'[d] /\ \A e \in Devices : remote[e] \subseteq remote'[e]
  BY <1>1, <1>3 DEF TypeOK
<1> HIDE DEF seg, left, n
<1>7. \A r, v : Published(r, v) => Published(r, v)'
  BY <1>6, PublishedStays
<1>8. Steady(d)' /\ Uniform(d)' /\ Pending(d)'
  BY <1>1, <1>2, <1>3, <1>4, <1>7 DEF Steady, Publishing, Uniform, Pending
<1>9. ASSUME NEW i \in DOMAIN b
      PROVE  \/ PublishedIn(remote', b[i].row, b[i].values)
             \/ \E k \in DOMAIN left : left[k] = b[i]
  <2>1. Len(b) \in Nat /\ i \in 1..Len(b) /\ n \in Nat /\ i \in Nat
    <3>1. b \in Seq(Entry) /\ n \in Nat
      BY <1>5
    <3> HIDE DEF b
    <3> QED
      BY <1>9, <3>1
  <2>2. CASE i <= n
    <3>1. i \in DOMAIN seg.entries /\ seg.entries[i] = b[i]
      BY <1>5, <2>1, <2>2
    <3> QED
      BY <1>6, <3>1 DEF Published, PublishedIn
  <2>3. CASE i > n
    <3>1. DOMAIN left = 1..(Len(b) - n)
      <4>1. left \in Seq(Entry) /\ Len(left) = Len(b) - n
        BY <1>5
      <4> HIDE DEF b
      <4> QED
        BY <4>1
    <3>2. \A k \in 1..(Len(b) - n) : left[k] = b[n + k]
      BY <1>5
    <3> DEFINE k == i - n
               len == Len(b)
    <3>3. k \in 1..(len - n) /\ n + k = i
      <4>1. len \in Nat /\ n \in Nat /\ i \in Nat /\ i <= len
        BY <2>1
      <4> HIDE DEF b, len
      <4> QED
        BY <2>3, <4>1
    <3> HIDE DEF k
    <3>4. k \in DOMAIN left
      BY <3>1, <3>3
    <3>5. left[k] = b[i]
      <4>1. left[k] = b[n + k]
        BY <3>2, <3>3
      <4> QED
        BY <3>3, <4>1
    <3> QED
      BY <3>4, <3>5
  <2> QED
    BY <2>1, <2>2, <2>3
<1>10. Covered(d)'
  <2>1. ASSUME NEW r \in Rows
        PROVE  \/ row[d][r] = NoRow
               \/ row[d][r]["updated_at"] > run[d].bound
               \/ Published(r, row[d][r])'
               \/ \E k \in DOMAIN left : left[k].row = r /\ left[k].values = row[d][r]
    <3>1. \/ row[d][r] = NoRow
          \/ row[d][r]["updated_at"] > run[d].bound
          \/ Published(r, row[d][r])
          \/ \E i \in DOMAIN b : b[i].row = r /\ b[i].values = row[d][r]
      BY <1>1, <1>2 DEF Covered, Publishing
    <3>2. ASSUME NEW i \in DOMAIN b, b[i].row = r, b[i].values = row[d][r]
          PROVE  \/ Published(r, row[d][r])'
                 \/ \E k \in DOMAIN left : left[k].row = r /\ left[k].values = row[d][r]
      <4>1. CASE PublishedIn(remote', b[i].row, b[i].values)
        BY <1>3, <3>2, <4>1 DEF Published
      <4>2. CASE \E k \in DOMAIN left : left[k] = b[i]
        BY <3>2, <4>2
      <4> QED
        BY <1>9, <4>1, <4>2
    <3>3. CASE Published(r, row[d][r])
      BY <1>3, <1>7, <3>3
    <3> QED
      BY <3>1, <3>2, <3>3
  <2> QED
    BY <1>3, <1>4, <2>1 DEF Covered
<1> QED
  BY <1>8, <1>10 DEF Pushable

\* An acknowledgement settles the snapshot when nothing of it is left.
LEMMA AckPushable ==
  ASSUME PubInv, NEW d \in Devices, Ack(d)
  PROVE  Pushable(d)'
<1>1. JournalInv /\ TypeOK /\ Pending(d) /\ Steady(d) /\ Uniform(d) /\ Covered(d)
  BY DEF PubInv, Pushable, JournalInv
<1>2. run[d].next > 0 /\ run[d].step = "acking"
  <2>1. Pushing(d) /\ run[d].step = "acking"
    BY <1>1 DEF JournalInv, Ack
  <2>2. lastSeq[d] < run[d].next
    BY <2>1 DEF Pushing
  <2> QED
    BY <1>1, <2>1, <2>2, Numbers
<1>3. /\ run'[d].step \in {"putting", "settling"}
      /\ run'[d].step = "putting" <=> run[d].batch # <<>>
      /\ run'[d].batch = run[d].batch /\ run'[d].bound = run[d].bound
      /\ UNCHANGED <<now, row, clocks, pushedAt, remote>>
  BY <1>1, <1>2, AckEffect
<1>4. Steady(d)' /\ Uniform(d)' /\ Pending(d)'
  BY <1>1, <1>2, <1>3 DEF Steady, Publishing, Uniform, Pending, Published, PublishedIn
<1>5. Covered(d)'
  <2>1. run'[d].step = "settling" => run'[d].batch = <<>>
    BY <1>3
  <2>2. \A r, v : Published(r, v)' <=> Published(r, v)
    BY <1>3 DEF Published, PublishedIn
  <2> QED
    BY <1>1, <1>2, <1>3, <2>1, <2>2 DEF Covered, Publishing
<1> QED
  BY <1>4, <1>5 DEF Pushable

\* The watermark moves over rows that are all in a journal.
LEMMA SettlePushable ==
  ASSUME PubInv, NEW d \in Devices, Settle(d)
  PROVE  Pushable(d)'
<1>1. TypeOK /\ Pending(d) /\ Steady(d) /\ Uniform(d) /\ Covered(d)
  BY DEF PubInv, Pushable, JournalInv
<1>2. /\ run[d].step = "settling" /\ UNCHANGED <<now, row, clocks, remote>>
      /\ pushedAt'[d] = Larger(pushedAt[d], run[d].bound)
  BY <1>1 DEF Settle, TypeOK
<1>3. run'[d].step = "idle"
  BY <1>1, IdleRun DEF Settle, GoIdle, TypeOK
<1>4. /\ pushedAt[d] \in Nat /\ run[d].bound \in Nat /\ now[d] \in Nat
      /\ pushedAt[d] < now[d] /\ run[d].bound < now[d]
  BY <1>1, <1>2, Numbers DEF Steady, Publishing
<1>5. pushedAt'[d] < now'[d]
  BY <1>2, <1>4 DEF Larger
<1>6. Steady(d)' /\ Uniform(d)' /\ Covered(d)'
  BY <1>1, <1>2, <1>3, <1>5 DEF Steady, Publishing, Uniform, Covered
<1>7. Pending(d)'
  <2>1. ASSUME NEW r \in Rows
        PROVE  \/ row[d][r] = NoRow
               \/ row[d][r]["updated_at"] > pushedAt'[d]
               \/ Published(r, row[d][r])
    <3>1. run[d].batch = <<>>
      BY <1>1, <1>2 DEF Covered
    <3>2. \/ row[d][r] = NoRow
          \/ row[d][r]["updated_at"] > run[d].bound
          \/ Published(r, row[d][r])
      BY <1>1, <1>2, <3>1 DEF Covered, Publishing
    <3> QED
      BY <1>1, <1>2, <1>4, <3>2 DEF Pending, Larger
  <2>2. \A r, v : Published(r, v)' <=> Published(r, v)
    BY <1>2 DEF Published, PublishedIn
  <2> QED
    BY <1>2, <2>1, <2>2 DEF Pending
<1> QED
  BY <1>6, <1>7 DEF Pushable

LEMMA PubStep ==
  ASSUME PubInv, [Next]_vars
  PROVE  PubInv'
<1> USE DEF pushState
<1>1. JournalInv /\ JournalInv' /\ TypeOK /\ TypeOK'
  BY JournalStep DEF PubInv, JournalInv
<1>2. \A e \in Devices : remote[e] \subseteq remote'[e]
  BY <1>1, JournalsGrow
<1>3. \A d \in Devices : now[d] \in Nat /\ now'[d] \in Nat
  BY <1>1 DEF TypeOK
<1>4. ASSUME UNCHANGED vars PROVE \A d \in Devices : Pushable(d)'
  BY <1>2, <1>3, <1>4, PushableKept DEF vars
<1>5. ASSUME NEW d \in Devices,
             \/ Tick(d) \/ Pull(d) \/ Push(d) \/ RunStops(d)
             \/ \E r \in Rows, f \in Fields : LocalEdit(d, r, f)
      PROVE  \A x \in Devices : Pushable(x)'
  <2>1. ASSUME NEW x \in Devices, x # d PROVE Pushable(x)'
    <3>1. /\ row'[x] = row[x] /\ clocks'[x] = clocks[x] /\ pushedAt'[x] = pushedAt[x]
          /\ now'[x] = now[x] /\ run'[x] = run[x]
      BY <1>1, <1>5, <2>1, OthersKept
    <3> QED
      BY <1>2, <1>3, <3>1, PushableKept
  <2>2. ASSUME UNCHANGED <<row, clocks, pushedAt>>, now'[d] >= now[d],
               run'[d] = run[d] \/ run'[d].step \in {"idle", "pulling", "collecting"}
        PROVE  Pushable(d)'
    <3>1. row'[d] = row[d] /\ clocks'[d] = clocks[d] /\ pushedAt'[d] = pushedAt[d]
      BY <2>2
    <3> QED
      BY <1>2, <1>3, <2>2, <3>1, PushableKept
  <2>3. ASSUME Tick(d) PROVE Pushable(d)'
    <3>1. now'[d] = now[d] + 1 /\ UNCHANGED <<row, clocks, pushedAt, run>>
      BY <1>1, <2>3 DEF Tick, TypeOK
    <3>2. now'[d] >= now[d]
      BY <1>3, <3>1
    <3>3. run'[d] = run[d] /\ UNCHANGED <<row, clocks, pushedAt>>
      BY <3>1
    <3> QED
      BY <2>2, <3>2, <3>3
  <2>4. ASSUME StartSync(d) PROVE Pushable(d)'
    <3>1. run'[d].step = "pulling" /\ UNCHANGED <<now, row, clocks, pushedAt>>
      BY <1>1, <2>4, StartEffect
    <3>2. now'[d] = now[d] /\ UNCHANGED <<row, clocks, pushedAt>>
      BY <3>1
    <3>3. now'[d] >= now[d]
      BY <1>3, <3>2
    <3>4. run'[d].step \in {"idle", "pulling", "collecting"}
      BY <3>1
    <3> QED
      BY <2>2, <3>2, <3>3, <3>4
  <2>5. ASSUME Recover(d) PROVE Pushable(d)'
    <3>1. Newest(d)
      BY <1>1 DEF JournalInv
    <3>2. /\ run' = [run EXCEPT ![d] = AtStep(Idle, "collecting")]
          /\ UNCHANGED <<now, row, clocks, pushedAt>>
      BY <1>1, <2>5, <3>1, RecoverEffect
    <3>3. AtStep(Idle, "collecting").step = "collecting"
      BY IdleRun, RunStep DEF Step
    <3>4. run'[d].step = "collecting"
      BY <1>1, <3>2, <3>3 DEF TypeOK
    <3> QED
      BY <1>3, <2>2, <3>2, <3>4
  <2>6. ASSUME Collect(d) PROVE Pushable(d)'
    <3>1. UNCHANGED <<now, row, clocks, pushedAt>>
      BY <2>6 DEF Collect
    <3>2. ASSUME run'[d].step = "idle" PROVE Pushable(d)'
      <4>1. now'[d] = now[d] /\ UNCHANGED <<row, clocks, pushedAt>>
        BY <3>1
      <4>2. now'[d] >= now[d]
        BY <1>3, <4>1
      <4>3. run'[d].step \in {"idle", "pulling", "collecting"}
        BY <3>2
      <4> QED
        BY <2>2, <4>1, <4>2, <4>3
    <3> QED
      BY <2>6, <3>2, CollectPushable
  <2>7. ASSUME RunStops(d) PROVE Pushable(d)'
    <3>1. run'[d].step = "idle" /\ UNCHANGED <<now, row, clocks, pushedAt>>
      BY <1>1, <2>7, IdleRun DEF RunStops, GoIdle, TypeOK
    <3>2. now'[d] = now[d] /\ UNCHANGED <<row, clocks, pushedAt>>
      BY <3>1
    <3>3. now'[d] >= now[d]
      BY <1>3, <3>2
    <3>4. run'[d].step \in {"idle", "pulling", "collecting"}
      BY <3>1
    <3> QED
      BY <2>2, <3>2, <3>3, <3>4
  <2>8. ASSUME NEW r \in Rows, NEW f \in Fields, LocalEdit(d, r, f) PROVE Pushable(d)'
    BY <1>2, <2>8, EditPushable
  <2>9. ASSUME \E e \in Devices \ {d} : MergeSegment(d, e) PROVE Pushable(d)'
    BY <2>9, MergePushable
  <2>10. Pushable(d)'
    BY <1>5, <2>3, <2>4, <2>5, <2>6, <2>7, <2>8, <2>9, PutPushable, AckPushable, SettlePushable
       DEF Pull, Push
  <2> QED
    BY <2>1, <2>10
<1>6. \A d \in Devices : Pushable(d)'
  BY <1>4, <1>5 DEF Next
<1> QED
  BY <1>1, <1>6 DEF PubInv

\* No change is forgotten.
THEOREM NoChangeIsForgotten == Spec => []PendingOrPublished
<1>1. PubInv => PendingOrPublished
  BY DEF PubInv, Pushable, Pending, Published, PublishedIn, PendingOrPublished
<1> QED
  BY <1>1, PubInit, PubStep, PTL DEF Spec

-----------------------------------------------------------------------------
(* Cursors.                                                                *)

\* The rows of a batch or a segment are different, and their stamps are later
\* than the stamp of a row that is not there.
Snapped(entries) ==
  /\ \A i, k \in DOMAIN entries : entries[i].row = entries[k].row => i = k
  /\ \A i \in DOMAIN entries : entries[i].hlc.wall > 0

\* A row that was never merged was written at the device's own clock.
OwnRows(d) ==
  \A r \in Rows \ Bumping : clocks[d][r] = NoClocks => row[d][r]["updated_at"] <= now[d]

\* The stamps that the next entry of a row has to beat.
InForce(d, r) == RowClocks(d, clocks[d][r], row[d][r])

\* CursorMeansMerged, of one device and one journal.
Merged(d, e) ==
  \A s \in remote[e] : s.last <= cursor[d][e] =>
    \A i \in DOMAIN s.entries : \A c \in Columns :
      ~Newer(s.entries[i].hlc, InForce(d, s.entries[i].row)[c])

CursorInv ==
  /\ PubInv
  /\ \A d \in Devices :
       /\ OwnRows(d)
       /\ \A s \in remote[d] : Snapped(s.entries)
       /\ Snapped(run[d].batch)
       /\ \A e \in Devices : d # e => Merged(d, e)

\* Stamps are totally ordered.
LEMMA NewerOrder ==
  ASSUME NEW a \in Stamp, NEW b \in Stamp
  PROVE  /\ ~Newer(a, a)
         /\ Newer(a, b) => ~Newer(b, a)
         /\ a.wall < b.wall => ~Newer(a, b)
         /\ \A c \in Stamp : ~Newer(a, b) /\ ~Newer(b, c) => ~Newer(a, c)
<1>1. \A s \in Stamp : s.wall \in Nat /\ s.dev \in Nat
  BY DEF Stamp
<1> QED
  BY <1>1 DEF Newer

\* The stamps in force are stamps, before and after a step.
LEMMA InForceType ==
  ASSUME TypeOK, NEW d \in Devices, NEW r \in Rows
  PROVE  InForce(d, r) \in [Columns -> Stamp]
<1>1. clocks[d][r] \in Clocks /\ row[d][r] \in Row
  BY DEF TypeOK, Clocks
<1> QED
  BY <1>1, RowClocksType DEF InForce

LEMMA InForceTypeNext ==
  ASSUME TypeOK', NEW d \in Devices, NEW r \in Rows
  PROVE  InForce(d, r)' \in [Columns -> Stamp]
<1>1. clocks'[d][r] \in Clocks /\ row'[d][r] \in Row
  <2>1. /\ clocks' \in [Devices -> [Rows -> {NoClocks} \cup [Columns -> Stamp]]]
        /\ row' \in [Devices -> [Rows -> Row]]
    BY DEF TypeOK
  <2> QED
    BY <2>1 DEF Clocks
<1> QED
  BY <1>1, RowClocksType DEF InForce

\* An edit does not move a row's stamps back, whatever its table does with
\* updated_at.
LEMMA EditGrows ==
  ASSUME TypeOK, TypeOK', NEW d \in Devices, OwnRows(d),
         NEW r \in Rows, NEW f \in Fields, LocalEdit(d, r, f)
  PROVE  \A y \in Rows, c \in Columns : ~Newer(InForce(d, y)[c], InForce(d, y)'[c])
<1>1. /\ \A y \in Rows : y # r => row'[d][y] = row[d][y]
      /\ row'[d][r]["updated_at"] = Touched(d, r) /\ Touched(d, r) \in Nat /\ clocks' = clocks
  BY EditEffect
<1>2. \A y \in Rows : InForce(d, y) \in [Columns -> Stamp] /\ InForce(d, y)' \in [Columns -> Stamp]
  BY InForceType, InForceTypeNext
<1>3. ASSUME NEW y \in Rows, InForce(d, y)' = InForce(d, y), NEW c \in Columns
      PROVE  ~Newer(InForce(d, y)[c], InForce(d, y)'[c])
  BY <1>2, <1>3, NewerOrder
<1>4. CASE clocks[d][r] # NoClocks
  <2>1. \A y \in Rows : InForce(d, y)' = InForce(d, y)
    BY <1>1, <1>4 DEF InForce, RowClocks
  <2> QED
    BY <1>3, <2>1
<1>5. CASE clocks[d][r] = NoClocks
  <2>1. \A y \in Rows : y # r => InForce(d, y)' = InForce(d, y)
    BY <1>1 DEF InForce
  <2>2. row[d][r]["updated_at"] \in Nat /\ now[d] \in Nat
    BY UpdatedAt, Numbers DEF Row
  <2>3. Touched(d, r) >= row[d][r]["updated_at"]
    BY <1>5, <2>2 DEF Touched, Larger, OwnRows
  <2> DEFINE old == [wall |-> row[d][r]["updated_at"], dev |-> d]
             new == [wall |-> Touched(d, r), dev |-> d]
  <2>4. InForce(d, r) = [c \in Columns |-> old] /\ InForce(d, r)' = [c \in Columns |-> new]
    BY <1>1, <1>5 DEF InForce, RowClocks
  <2>5. ~Newer(old, new)
    <3>1. d \in Nat
      OBVIOUS
    <3> QED
      BY <1>1, <2>2, <2>3, <3>1 DEF Newer
  <2> HIDE DEF old, new
  <2>6. \A c \in Columns : ~Newer(InForce(d, r)[c], InForce(d, r)'[c])
    BY <2>4, <2>5
  <2> QED
    BY <1>3, <2>1, <2>6
<1> QED
  BY <1>4, <1>5

\* A merge does not move stamps back, and no entry of the merged segment beats
\* them afterwards.
LEMMA MergeGrows ==
  ASSUME TypeOK, TypeOK', NEW d \in Devices, Uniform(d), NEW e \in Devices,
         NEW s \in remote[e], Snapped(s.entries), Merge(d, e, s)
  PROVE  /\ \A r \in Rows, c \in Columns : ~Newer(InForce(d, r)[c], InForce(d, r)'[c])
         /\ \A i \in DOMAIN s.entries, c \in Columns :
              ~Newer(s.entries[i].hlc, InForce(d, s.entries[i].row)'[c])
         /\ \A r \in Rows : clocks'[d][r] = NoClocks =>
              clocks[d][r] = NoClocks /\ row'[d][r] = row[d][r]
<1>1. \A r \in Rows :
        \/ /\ row'[d][r] = row[d][r] /\ clocks'[d][r] = clocks[d][r]
           /\ \A i \in DOMAIN s.entries : s.entries[i].row # r
        \/ \E i \in DOMAIN s.entries :
             /\ s.entries[i].row = r
             /\ row'[d][r] = MergedRow(d, s.entries[i])
             /\ clocks'[d][r] = MergedClocks(d, s.entries[i])
  BY MergeEffect
<1>2. \A r \in Rows : InForce(d, r) \in [Columns -> Stamp] /\ InForce(d, r)' \in [Columns -> Stamp]
  BY InForceType, InForceTypeNext
<1>3. \A i \in DOMAIN s.entries : s.entries[i] \in Entry
  BY SegmentType
<1>4. ASSUME NEW r \in Rows, row'[d][r] = row[d][r], clocks'[d][r] = clocks[d][r]
      PROVE  /\ InForce(d, r)' = InForce(d, r)
             /\ \A c \in Columns : ~Newer(InForce(d, r)[c], InForce(d, r)'[c])
  <2>1. InForce(d, r)' = InForce(d, r)
    BY <1>4 DEF InForce
  <2> QED
    BY <1>2, <2>1, NewerOrder
<1>5. ASSUME NEW i \in DOMAIN s.entries, NEW r \in Rows, r = s.entries[i].row,
             row'[d][r] = MergedRow(d, s.entries[i]),
             clocks'[d][r] = MergedClocks(d, s.entries[i])
      PROVE  /\ \A c \in Columns : ~Newer(InForce(d, r)[c], InForce(d, r)'[c])
             /\ \A c \in Columns : ~Newer(s.entries[i].hlc, InForce(d, r)'[c])
             /\ clocks'[d][r] = NoClocks => clocks[d][r] = NoClocks /\ row'[d][r] = row[d][r]
  <2> DEFINE en == s.entries[i]
  <2>1. en \in Entry /\ en.hlc.wall > 0
    BY <1>3 DEF Snapped
  <2> HIDE DEF en
  <2>2. /\ r = en.row /\ row'[d][r] = MergedRow(d, en) /\ clocks'[d][r] = MergedClocks(d, en)
        /\ en.hlc \in Stamp
    BY <1>5, <2>1 DEF en, Entry
  <2>3. CASE Winners(d, en) = {}
    <3>1. Winners(d, en) # Columns
      BY <2>3, UpdatedAt
    <3>2. row'[d][r] = row[d][r] /\ clocks'[d][r] = clocks[d][r]
      BY <2>1, <2>2, <3>1, MergeWhole
    <3>3. \A c \in Columns : ~Newer(en.hlc, InForce(d, r)[c])
      BY <2>2, <2>3, <3>1 DEF Winners, InForce
    <3> QED
      BY <1>4, <3>2, <3>3 DEF en
  <2>4. CASE Winners(d, en) = Columns
    <3>1. Winners(d, en) # {}
      BY <2>4, UpdatedAt
    <3>2. clocks'[d][r] = [c \in Columns |-> en.hlc]
      BY <2>1, <2>2, <3>1, MergeWhole
    <3>3. clocks'[d][r] # NoClocks
      BY <2>2, <3>2, StampsAreClocks
    <3>4. \A c \in Columns : InForce(d, r)'[c] = en.hlc
      BY <3>2, <3>3 DEF InForce, RowClocks
    <3>5. ASSUME NEW c \in Columns PROVE ~Newer(InForce(d, r)[c], en.hlc)
      <4>1. CASE row[d][r] = NoRow /\ clocks[d][r] = NoClocks
        <5>1. InForce(d, r)[c].wall = 0
          BY <4>1, UpdatedAt DEF InForce, RowClocks, NoRow
        <5>2. InForce(d, r)[c] \in Stamp /\ en.hlc.wall \in Nat
          BY <1>2, <2>2 DEF Stamp
        <5> QED
          BY <2>1, <2>2, <5>1, <5>2, NewerOrder
      <4>2. CASE ~(row[d][r] = NoRow /\ clocks[d][r] = NoClocks)
        <5>1. c \in Winners(d, en)
          BY <2>4
        <5>2. Newer(en.hlc, InForce(d, r)[c])
          BY <2>2, <4>2, <5>1 DEF Winners, InForce
        <5> QED
          BY <1>2, <2>2, <5>2, NewerOrder
      <4> QED
        BY <4>1, <4>2
    <3>6. ~Newer(en.hlc, en.hlc)
      BY <2>2, NewerOrder
    <3> QED
      BY <3>3, <3>4, <3>5, <3>6 DEF en
  <2>5. Winners(d, en) = {} \/ Winners(d, en) = Columns
    BY <2>1, MergeWhole
  <2> QED
    BY <2>3, <2>4, <2>5
<1>6. ASSUME NEW r \in Rows
      PROVE  /\ \A c \in Columns : ~Newer(InForce(d, r)[c], InForce(d, r)'[c])
             /\ clocks'[d][r] = NoClocks => clocks[d][r] = NoClocks /\ row'[d][r] = row[d][r]
  BY <1>1, <1>4, <1>5
<1>7. ASSUME NEW i \in DOMAIN s.entries, NEW c \in Columns
      PROVE  ~Newer(s.entries[i].hlc, InForce(d, s.entries[i].row)'[c])
  <2> DEFINE r == s.entries[i].row
  <2>1. r \in Rows
    BY <1>3 DEF Entry
  <2>2. PICK k \in DOMAIN s.entries :
          /\ s.entries[k].row = r
          /\ row'[d][r] = MergedRow(d, s.entries[k])
          /\ clocks'[d][r] = MergedClocks(d, s.entries[k])
    BY <1>1, <2>1
  <2>3. k = i
    BY <2>2 DEF Snapped
  <2> QED
    BY <1>5, <2>1, <2>2, <2>3
<1> QED
  BY <1>6, <1>7

\* No step of anybody moves the stamps in force of a row back.
LEMMA StampsGrow ==
  ASSUME CursorInv, [Next]_vars
  PROVE  \A x \in Devices, r \in Rows, c \in Columns :
           ~Newer(InForce(x, r)[c], InForce(x, r)'[c])
<1> USE DEF pushState
<1>1. PubInv /\ JournalInv /\ TypeOK /\ TypeOK'
  BY JournalStep DEF CursorInv, PubInv, JournalInv
<1>2. ASSUME NEW x \in Devices, row'[x] = row[x], clocks'[x] = clocks[x]
      PROVE  \A r \in Rows, c \in Columns : ~Newer(InForce(x, r)[c], InForce(x, r)'[c])
  <2> TAKE r \in Rows, c \in Columns
  <2>1. InForce(x, r)' = InForce(x, r) /\ InForce(x, r)[c] \in Stamp
    BY <1>1, <1>2, InForceType DEF InForce
  <2> QED
    BY <2>1, NewerOrder
<1>3. CASE UNCHANGED vars
  BY <1>2, <1>3 DEF vars
<1>4. ASSUME NEW d \in Devices,
             \/ Tick(d) \/ Pull(d) \/ Push(d) \/ RunStops(d)
             \/ \E r \in Rows, f \in Fields : LocalEdit(d, r, f)
      PROVE  \A x \in Devices, r \in Rows, c \in Columns :
               ~Newer(InForce(x, r)[c], InForce(x, r)'[c])
  <2>1. ASSUME NEW x \in Devices, x # d
        PROVE  \A r \in Rows, c \in Columns : ~Newer(InForce(x, r)[c], InForce(x, r)'[c])
    <3>1. row'[x] = row[x] /\ clocks'[x] = clocks[x]
      BY <1>1, <1>4, <2>1, OthersKept
    <3> QED
      BY <1>2, <3>1
  <2>2. ASSUME NEW y \in Rows, NEW f \in Fields, LocalEdit(d, y, f)
        PROVE  \A r \in Rows, c \in Columns : ~Newer(InForce(d, r)[c], InForce(d, r)'[c])
    <3>1. OwnRows(d)
      BY DEF CursorInv
    <3> QED
      BY <1>1, <2>2, <3>1, EditGrows
  <2>3. ASSUME NEW e \in Devices \ {d}, MergeSegment(d, e)
        PROVE  \A r \in Rows, c \in Columns : ~Newer(InForce(d, r)[c], InForce(d, r)'[c])
    <3>1. PICK s \in remote[e] : Merge(d, e, s)
      BY <2>3 DEF MergeSegment
    <3>2. Snapped(s.entries) /\ Uniform(d)
      BY DEF CursorInv, PubInv, Pushable
    <3> QED
      BY <1>1, <3>1, <3>2, MergeGrows
  <2>4. \/ UNCHANGED <<row, clocks>>
        \/ \E y \in Rows, f \in Fields : LocalEdit(d, y, f)
        \/ \E e \in Devices \ {d} : MergeSegment(d, e)
    BY <1>4 DEF Tick, Pull, Push, StartSync, Recover, Collect, Put, Ack, Settle, RunStops
  <2>5. \A r \in Rows, c \in Columns : ~Newer(InForce(d, r)[c], InForce(d, r)'[c])
    BY <1>2, <2>2, <2>3, <2>4
  <2> QED
    BY <2>1, <2>5
<1> QED
  BY <1>3, <1>4 DEF Next

\* A journal whose new segments lie beyond a device's cursor.
LEMMA MergedKept ==
  ASSUME TypeOK, TypeOK', NEW d \in Devices, NEW e \in Devices, Merged(d, e),
         cursor'[d][e] = cursor[d][e],
         \A s \in remote'[e] : s \in remote[e] \/ ~(s.last <= cursor[d][e]),
         \A r \in Rows, c \in Columns : ~Newer(InForce(d, r)[c], InForce(d, r)'[c])
  PROVE  Merged(d, e)'
<1> SUFFICES ASSUME NEW s \in remote'[e], s.last <= cursor[d][e],
                    NEW i \in DOMAIN s.entries, NEW c \in Columns
             PROVE  ~Newer(s.entries[i].hlc, InForce(d, s.entries[i].row)'[c])
  BY DEF Merged
<1>1. s \in remote[e]
  OBVIOUS
<1>2. s.entries[i] \in Entry
  BY <1>1, SegmentType
<1>3. s.entries[i].row \in Rows /\ s.entries[i].hlc \in Stamp
  BY <1>2 DEF Entry
<1>4. ~Newer(s.entries[i].hlc, InForce(d, s.entries[i].row)[c])
  BY <1>1 DEF Merged
<1>5. /\ InForce(d, s.entries[i].row)[c] \in Stamp
      /\ InForce(d, s.entries[i].row)'[c] \in Stamp
  BY <1>3, InForceType, InForceTypeNext
<1> QED
  BY <1>3, <1>4, <1>5, NewerOrder

\* The segment a cursor moves over is the one that was merged.
LEMMA MergeMerges ==
  ASSUME CursorInv, TypeOK', NEW d \in Devices, NEW e \in Devices \ {d}, MergeSegment(d, e),
         \A r \in Rows, c \in Columns : ~Newer(InForce(d, r)[c], InForce(d, r)'[c])
  PROVE  \A x \in Devices : d # x => Merged(d, x)'
<1>1. TypeOK /\ JournalInv /\ Uniform(d)
  BY DEF CursorInv, PubInv, Pushable, JournalInv
<1>2. PICK s \in remote[e] : Merge(d, e, s) /\ s.first = cursor[d][e] + 1
  BY DEF MergeSegment
<1>3. remote' = remote
  BY DEF MergeSegment
<1>4. cursor' = [cursor EXCEPT ![d][e] = s.last]
  BY <1>1, <1>2, MergeEffect
<1>5. /\ cursor'[d][e] = s.last /\ cursor[d][e] \in Nat
      /\ \A x \in Devices : x # e => cursor'[d][x] = cursor[d][x]
  <2>1. cursor \in [Devices -> [Devices -> Nat]]
    BY <1>1 DEF TypeOK
  <2> QED
    BY <1>4, <2>1
<1>6. ASSUME NEW x \in Devices, d # x, x # e PROVE Merged(d, x)'
  <2>1. Merged(d, x)
    BY <1>6 DEF CursorInv
  <2>2. cursor'[d][x] = cursor[d][x] /\ \A t \in remote'[x] : t \in remote[x]
    BY <1>3, <1>5, <1>6
  <2> QED
    BY <1>1, <2>1, <2>2, MergedKept
<1>7. \A t \in remote[e] : /\ t.first \in Nat /\ t.last \in Nat
                         /\ \A i \in DOMAIN t.entries : t.entries[i] \in Entry
  BY <1>1, SegmentType
<1>8. Merged(d, e)'
  <2> SUFFICES ASSUME NEW t \in remote[e], t.last <= s.last,
                      NEW i \in DOMAIN t.entries, NEW c \in Columns
               PROVE  ~Newer(t.entries[i].hlc, InForce(d, t.entries[i].row)'[c])
    BY <1>3, <1>5 DEF Merged
  <2>1. CASE t = s
    <3>1. Snapped(s.entries)
      BY DEF CursorInv
    <3> QED
      BY <1>1, <1>2, <2>1, <3>1, MergeGrows
  <2>2. CASE t # s
    <3>1. t.last < s.first
      <4>1. /\ t.first <= t.last /\ s.first <= s.last /\ (t.last < s.first \/ s.last < t.first)
            /\ t.first \in Nat /\ t.last \in Nat /\ s.first \in Nat /\ s.last \in Nat
        BY <1>1, <1>7, <2>2 DEF JournalInv, Ordered
      <4> QED
        BY <4>1
    <3>2. t.last <= cursor[d][e]
      <4>1. t.last \in Nat /\ s.first \in Nat
        BY <1>7
      <4>2. cursor[d][e] \in Nat
        BY <1>5
      <4> QED
        BY <1>2, <3>1, <4>1, <4>2
    <3>3. Merged(d, e) /\ t.entries[i] \in Entry
      BY <1>7 DEF CursorInv
    <3>4. t.entries[i].row \in Rows /\ t.entries[i].hlc \in Stamp
      BY <3>3 DEF Entry
    <3>5. ~Newer(t.entries[i].hlc, InForce(d, t.entries[i].row)[c])
      BY <3>2, <3>3 DEF Merged
    <3>6. /\ InForce(d, t.entries[i].row)[c] \in Stamp
          /\ InForce(d, t.entries[i].row)'[c] \in Stamp
      BY <1>1, <3>4, InForceType, InForceTypeNext
    <3> QED
      BY <3>4, <3>5, <3>6, NewerOrder
  <2> QED
    BY <2>1, <2>2
<1> QED
  BY <1>6, <1>8

\* Cursors go on to stand for what was merged.
LEMMA MergedStep ==
  ASSUME CursorInv, [Next]_vars
  PROVE  \A d, e \in Devices : d # e => Merged(d, e)'
<1> USE DEF pushState
<1>1. JournalInv /\ JournalInv' /\ TypeOK /\ TypeOK'
  BY JournalStep DEF CursorInv, PubInv, JournalInv
<1>2. \A x \in Devices, r \in Rows, c \in Columns : ~Newer(InForce(x, r)[c], InForce(x, r)'[c])
  BY StampsGrow
<1>3. ASSUME NEW d \in Devices, NEW e \in Devices, d # e, cursor'[d][e] = cursor[d][e],
             \A s \in remote'[e] : s \in remote[e] \/ ~(s.last <= cursor[d][e])
      PROVE  Merged(d, e)'
  <2>1. Merged(d, e)
    BY <1>3 DEF CursorInv
  <2> QED
    BY <1>1, <1>2, <1>3, <2>1, MergedKept
<1>4. CASE UNCHANGED <<remote, cursor>>
  BY <1>3, <1>4
<1>5. ASSUME NEW x \in Devices, NEW y \in Devices \ {x}, MergeSegment(x, y)
      PROVE  \A d, e \in Devices : d # e => Merged(d, e)'
  <2>1. \A e \in Devices : x # e => Merged(x, e)'
    BY <1>1, <1>2, <1>5, MergeMerges
  <2>2. PICK s \in remote[y] : Merge(x, y, s)
    BY <1>5 DEF MergeSegment
  <2>3. remote' = remote
    BY <1>5 DEF MergeSegment
  <2>4. cursor' = [cursor EXCEPT ![x][y] = s.last]
    BY <1>1, <2>2, MergeEffect
  <2>5. \A d \in Devices : d # x => cursor'[d] = cursor[d]
    BY <1>1, <2>4 DEF TypeOK
  <2>6. \A d, e \in Devices : d # x /\ d # e => Merged(d, e)'
    BY <1>3, <2>3, <2>5
  <2> QED
    BY <2>1, <2>6
<1>6. ASSUME NEW x \in Devices, Put(x) PROVE \A d, e \in Devices : d # e => Merged(d, e)'
  <2> DEFINE seg == NextSegment(x)
  <2>1. /\ \A s \in remote[x] : s.last <= lastSeq[x]
        /\ seg.first = lastSeq[x] + 1 /\ seg.last >= seg.first /\ seg.last \in Nat
        /\ remote' = [remote EXCEPT ![x] = remote[x] \cup {seg}]
    BY <1>1, <1>6, PutAdds
  <2> HIDE DEF seg
  <2>2. /\ remote'[x] = remote[x] \cup {seg} /\ \A e \in Devices : e # x => remote'[e] = remote[e]
        /\ lastSeq[x] \in Nat /\ cursor' = cursor
    BY <1>1, <1>6, <2>1 DEF TypeOK, Put
  <2>3. ASSUME NEW d \in Devices PROVE ~(seg.last <= cursor[d][x])
    <3>1. cursor[d][x] \in Nat /\ Boundary(cursor[d][x], remote[x])
      BY <1>1 DEF JournalInv, TypeOK
    <3>2. cursor[d][x] <= lastSeq[x]
      BY <2>1, <2>2, <3>1 DEF Boundary
    <3> QED
      BY <2>1, <2>2, <3>1, <3>2
  <2>4. \A d, e \in Devices :
          cursor'[d][e] = cursor[d][e]
          /\ \A s \in remote'[e] : s \in remote[e] \/ ~(s.last <= cursor[d][e])
    BY <2>2, <2>3
  <2> QED
    BY <1>3, <2>4
<1>7. \/ UNCHANGED <<remote, cursor>>
      \/ \E x \in Devices : Put(x) \/ \E y \in Devices \ {x} : MergeSegment(x, y)
  <2>1. ASSUME NEW d \in Devices, Tick(d) \/ StartSync(d) \/ Recover(d) \/ Collect(d)
        PROVE  UNCHANGED <<remote, cursor>>
    BY <2>1 DEF Tick, StartSync, Recover, Collect
  <2>2. ASSUME NEW d \in Devices, Ack(d) \/ Settle(d) \/ RunStops(d)
        PROVE  UNCHANGED <<remote, cursor>>
    BY <2>2 DEF Ack, Settle, RunStops
  <2>3. ASSUME NEW d \in Devices, NEW r \in Rows, NEW f \in Fields, LocalEdit(d, r, f)
        PROVE  UNCHANGED <<remote, cursor>>
    BY <2>3 DEF LocalEdit
  <2>4. CASE UNCHANGED vars
    BY <2>4 DEF vars
  <2> QED
    BY <2>1, <2>2, <2>3, <2>4 DEF Next, Pull, Push
<1> QED
  BY <1>4, <1>5, <1>6, <1>7

\* A row without stamps is written by its own device only, at its clock.
LEMMA OwnRowsStep ==
  ASSUME CursorInv, [Next]_vars, NEW x \in Devices
  PROVE  OwnRows(x)'
<1> USE DEF pushState
<1>1. TypeOK /\ OwnRows(x) /\ Uniform(x)
  BY DEF CursorInv, PubInv, Pushable, JournalInv
<1>2. ASSUME row'[x] = row[x], clocks'[x] = clocks[x], now'[x] = now[x] \/ now'[x] = now[x] + 1
      PROVE  OwnRows(x)'
  <2>1. now[x] \in Nat /\ \A r \in Rows : row[x][r]["updated_at"] \in Nat
    BY <1>1, Numbers, UpdatedAt DEF Row
  <2> QED
    BY <1>1, <1>2, <2>1 DEF OwnRows
<1>3. CASE UNCHANGED vars
  BY <1>2, <1>3 DEF vars
<1>4. ASSUME NEW d \in Devices, d # x,
             \/ Tick(d) \/ Pull(d) \/ Push(d) \/ RunStops(d)
             \/ \E r \in Rows, f \in Fields : LocalEdit(d, r, f)
      PROVE  OwnRows(x)'
  BY <1>1, <1>2, <1>4, OthersKept
<1>5. ASSUME Tick(x) PROVE OwnRows(x)'
  <2>1. now'[x] = now[x] + 1 /\ UNCHANGED <<row, clocks>>
    BY <1>1, <1>5 DEF Tick, TypeOK
  <2> QED
    BY <1>2, <2>1
<1>6. ASSUME NEW r \in Rows, NEW f \in Fields, LocalEdit(x, r, f) PROVE OwnRows(x)'
  <2>1. /\ \A y \in Rows : y # r => row'[x][y] = row[x][y]
        /\ row'[x][r]["updated_at"] = Touched(x, r) /\ UNCHANGED <<now, clocks>>
    BY <1>1, <1>6, EditEffect
  <2>2. r \notin Bumping => Touched(x, r) = now[x]
    BY DEF Touched
  <2>3. now[x] \in Nat
    BY <1>1, Numbers
  <2> QED
    BY <1>1, <2>1, <2>2, <2>3 DEF OwnRows
<1>7. ASSUME NEW e \in Devices \ {x}, MergeSegment(x, e) PROVE OwnRows(x)'
  <2>1. PICK s \in remote[e] : Merge(x, e, s)
    BY <1>7 DEF MergeSegment
  <2>2. Snapped(s.entries) /\ TypeOK'
    BY TypeStep DEF CursorInv, PubInv
  <2>3. \A r \in Rows : clocks'[x][r] = NoClocks => clocks[x][r] = NoClocks /\ row'[x][r] = row[x][r]
    BY <1>1, <2>1, <2>2, MergeGrows
  <2>4. now' = now
    BY <1>7 DEF MergeSegment
  <2> QED
    BY <1>1, <2>3, <2>4 DEF OwnRows
<1>8. ASSUME \/ StartSync(x) \/ Recover(x) \/ Collect(x) \/ Put(x) \/ Ack(x)
             \/ Settle(x) \/ RunStops(x)
      PROVE  OwnRows(x)'
  <2>1. UNCHANGED <<row, clocks, now>>
    BY <1>8 DEF StartSync, Recover, Collect, Put, Ack, Settle, RunStops
  <2> QED
    BY <1>2, <2>1
<1> QED
  BY <1>3, <1>4, <1>5, <1>6, <1>7, <1>8 DEF Next, Pull, Push

\* A snapshot is a snapshot of different rows, and so is each of its segments.
LEMMA CollectSnapped ==
  ASSUME TypeOK, NEW d \in Devices, Collect(d), run'[d].step # "idle"
  PROVE  Snapped(run'[d].batch)
<1>1. ~GoIdle(d)
  BY IdleRun DEF GoIdle, TypeOK
<1>2. PICK batch \in Seq(Entry) :
        /\ \A i, k \in DOMAIN batch : batch[i] = batch[k] => i = k
        /\ \A i \in DOMAIN batch : batch[i] \in Projected(d)
        /\ run' = [run EXCEPT ![d] = Snapshot(d, batch)]
        /\ Snapshot(d, batch).batch = batch
  BY <1>1, CollectEffect
<1>3. run'[d].batch = batch
  BY <1>2 DEF TypeOK
<1>4. \A p, q \in Projected(d) : p.row = q.row => p = q
  BY DEF Projected
<1>5. \A i \in DOMAIN batch : batch[i].hlc.wall > 0
  <2> TAKE i \in DOMAIN batch
  <2>1. batch[i].hlc.wall > pushedAt[d]
    BY <1>2, ProjectedType
  <2>2. pushedAt[d] \in Nat /\ batch[i] \in Entry
    BY <1>2, Numbers, ProjectedType
  <2>3. batch[i].hlc.wall \in Nat
    BY <2>2 DEF Entry, Stamp
  <2> QED
    BY <2>1, <2>2, <2>3
<1>6. \A i, k \in DOMAIN batch : batch[i].row = batch[k].row => i = k
  BY <1>2, <1>4
<1> QED
  BY <1>3, <1>5, <1>6 DEF Snapped

LEMMA PutSnapped ==
  ASSUME JournalInv, NEW d \in Devices, Put(d), Snapped(run[d].batch)
  PROVE  Snapped(NextSegment(d).entries) /\ Snapped(LeftOver(d))
<1> DEFINE b == run[d].batch
           n == BatchSize(d)
           cut == NextSegment(d).entries
           left == LeftOver(d)
<1>1. TypeOK /\ run[d].step = "putting"
  BY DEF JournalInv, Put
<1>2. /\ n \in Nat /\ n > 0 /\ n <= Len(b) /\ b \in Seq(Entry)
      /\ cut \in Seq(Entry) /\ Len(cut) = n /\ \A i \in 1..n : cut[i] = b[i]
      /\ left \in Seq(Entry) /\ Len(left) = Len(b) - n
      /\ \A i \in 1..(Len(b) - n) : left[i] = b[n + i]
  BY <1>1, CutBatch, Numbers DEF NextSegment, LeftOver
<1>3. Snapped(b)
  OBVIOUS
<1> HIDE DEF b, n, cut, left
<1>4. Snapped(cut)
  <2>1. DOMAIN cut = 1..n /\ \A i \in 1..n : i \in DOMAIN b
    BY <1>2
  <2> QED
    BY <1>2, <1>3, <2>1 DEF Snapped
<1>5. Snapped(left)
  <2>1. DOMAIN left = 1..(Len(b) - n) /\ Len(b) \in Nat
    BY <1>2
  <2>2. \A i \in 1..(Len(b) - n) : n + i \in DOMAIN b
    BY <1>2, <2>1
  <2>3. ASSUME NEW i \in DOMAIN left, NEW k \in DOMAIN left, left[i].row = left[k].row PROVE i = k
    <3>1. n + i \in DOMAIN b /\ n + k \in DOMAIN b /\ b[n + i].row = b[n + k].row
      BY <1>2, <2>1, <2>2, <2>3
    <3>2. n + i = n + k
      BY <1>3, <3>1 DEF Snapped
    <3> QED
      BY <1>2, <2>1, <2>3, <3>2
  <2>4. \A i \in DOMAIN left : left[i].hlc.wall > 0
    BY <1>2, <1>3, <2>1, <2>2 DEF Snapped
  <2> QED
    BY <2>3, <2>4 DEF Snapped
<1> QED
  BY <1>4, <1>5 DEF cut, left

LEMMA SnappedStep ==
  ASSUME CursorInv, [Next]_vars
  PROVE  \A x \in Devices : Snapped(run'[x].batch) /\ \A s \in remote'[x] : Snapped(s.entries)
<1> USE DEF pushState
<1>1. JournalInv /\ TypeOK
  BY DEF CursorInv, PubInv, JournalInv
<1>2. Snapped(<<>>)
  BY DEF Snapped
<1>3. \A x \in Devices : Snapped(run[x].batch) /\ \A s \in remote[x] : Snapped(s.entries)
  BY DEF CursorInv
<1>4. CASE UNCHANGED <<run, remote>>
  BY <1>3, <1>4
<1>5. ASSUME NEW d \in Devices, remote' = remote, Snapped(run'[d].batch),
             \/ Tick(d) \/ Pull(d) \/ Push(d) \/ RunStops(d)
      PROVE  \A x \in Devices : Snapped(run'[x].batch) /\ \A s \in remote'[x] : Snapped(s.entries)
  <2>1. \A x \in Devices : x # d => run'[x] = run[x]
    BY <1>1, <1>5, OthersKept
  <2> QED
    BY <1>3, <1>5, <2>1
<1>6. ASSUME NEW d \in Devices, StartSync(d) PROVE remote' = remote /\ Snapped(run'[d].batch)
  BY <1>1, <1>2, <1>6, StartEffect
<1>7. ASSUME NEW d \in Devices, Recover(d) PROVE remote' = remote /\ Snapped(run'[d].batch)
  <2>1. Newest(d)
    BY <1>1 DEF JournalInv
  <2>2. run' = [run EXCEPT ![d] = AtStep(Idle, "collecting")] /\ remote' = remote
    BY <1>1, <1>7, <2>1, RecoverEffect
  <2>3. AtStep(Idle, "collecting").batch = <<>>
    BY IdleRun, RunStep DEF Step, Idle
  <2> QED
    BY <1>1, <1>2, <2>2, <2>3 DEF TypeOK
<1>8. ASSUME NEW d \in Devices, GoIdle(d) PROVE Snapped(run'[d].batch)
  <2>1. run'[d] = Idle
    BY <1>1, <1>8 DEF GoIdle, TypeOK
  <2> QED
    BY <1>2, <2>1 DEF Idle
<1>9. ASSUME NEW d \in Devices, Collect(d) PROVE remote' = remote /\ Snapped(run'[d].batch)
  <2>1. remote' = remote
    BY <1>9 DEF Collect
  <2>2. CASE run'[d].step # "idle"
    BY <1>1, <1>9, <2>1, <2>2, CollectSnapped
  <2>3. CASE GoIdle(d)
    BY <1>8, <2>1, <2>3
  <2>4. GoIdle(d) \/ run'[d].step # "idle"
    <3>1. ASSUME NEW batch \in Seq(Entry), run' = [run EXCEPT ![d] = Snapshot(d, batch)],
                 Snapshot(d, batch).step = "putting"
          PROVE  run'[d].step # "idle"
      BY <1>1, <3>1 DEF TypeOK
    <3> QED
      BY <1>1, <1>9, <3>1, CollectEffect
  <2> QED
    BY <2>2, <2>3, <2>4
<1>10. ASSUME NEW d \in Devices, Ack(d) PROVE remote' = remote /\ Snapped(run'[d].batch)
  <2>1. run[d].next > 0
    <3>1. lastSeq[d] < run[d].next
      BY <1>1, <1>10 DEF JournalInv, Pushing, Ack
    <3> QED
      BY <1>1, <3>1, Numbers
  <2> QED
    BY <1>1, <1>3, <1>10, <2>1, AckEffect
<1>11. ASSUME NEW d \in Devices, Settle(d) \/ RunStops(d)
       PROVE  remote' = remote /\ Snapped(run'[d].batch)
  BY <1>8, <1>11 DEF Settle, RunStops
<1>12. ASSUME NEW d \in Devices, Put(d)
       PROVE  \A x \in Devices : Snapped(run'[x].batch) /\ \A s \in remote'[x] : Snapped(s.entries)
  <2>1. Snapped(NextSegment(d).entries) /\ Snapped(LeftOver(d))
    BY <1>1, <1>3, <1>12, PutSnapped
  <2>2. /\ run[d].next > 0
        /\ remote' = [remote EXCEPT ![d] = remote[d] \cup {NextSegment(d)}]
    BY <1>1, <1>12, PutAdds
  <2>3. run'[d].batch = LeftOver(d) /\ \A x \in Devices : x # d => run'[x] = run[x]
    BY <1>1, <1>12, <2>2, PutEffect
  <2>4. /\ remote'[d] = remote[d] \cup {NextSegment(d)}
        /\ \A x \in Devices : x # d => remote'[x] = remote[x]
    BY <1>1, <2>2 DEF TypeOK
  <2> QED
    BY <1>3, <2>1, <2>3, <2>4
<1>13. ASSUME NEW d \in Devices, \/ Tick(d) \/ \E r \in Rows, f \in Fields : LocalEdit(d, r, f)
                                \/ \E e \in Devices \ {d} : MergeSegment(d, e)
       PROVE  UNCHANGED <<run, remote>>
  BY <1>13 DEF Tick, LocalEdit, MergeSegment
<1>14. CASE UNCHANGED vars
  BY <1>4, <1>14 DEF vars
<1> DEFINE goal == \A x \in Devices :
             Snapped(run'[x].batch) /\ \A s \in remote'[x] : Snapped(s.entries)
<1>15. ASSUME NEW d \in Devices,
              StartSync(d) \/ Recover(d) \/ Collect(d) \/ Ack(d) \/ Settle(d) \/ RunStops(d)
       PROVE  goal
  <2>1. remote' = remote /\ Snapped(run'[d].batch)
    BY <1>6, <1>7, <1>9, <1>10, <1>11, <1>15
  <2>2. Tick(d) \/ Pull(d) \/ Push(d) \/ RunStops(d)
    BY <1>15 DEF Pull, Push
  <2> QED
    BY <1>5, <2>1, <2>2
<1>16. ASSUME NEW d \in Devices, \/ Tick(d) \/ \E r \in Rows, f \in Fields : LocalEdit(d, r, f)
                                \/ \E e \in Devices \ {d} : MergeSegment(d, e)
       PROVE  goal
  BY <1>4, <1>13, <1>16
<1> HIDE DEF goal
<1>17. ASSUME NEW d \in Devices, Put(d) PROVE goal
  BY <1>12, <1>17 DEF goal
<1>18. ASSUME UNCHANGED vars PROVE goal
  BY <1>14, <1>18 DEF goal
<1>19. ASSUME NEW d \in Devices,
              \/ Tick(d) \/ Pull(d) \/ Push(d) \/ RunStops(d)
              \/ \E r \in Rows, f \in Fields : LocalEdit(d, r, f)
       PROVE  goal
  BY <1>15, <1>16, <1>17, <1>19 DEF Pull, Push
<1>20. goal
  BY <1>18, <1>19 DEF Next
<1> QED
  BY <1>20 DEF goal

LEMMA CursorInit == Init => CursorInv
<1> SUFFICES ASSUME Init PROVE CursorInv
  OBVIOUS
<1>1. /\ \A d \in Devices : now[d] = 1 /\ run[d] = Idle /\ remote[d] = {}
      /\ \A d \in Devices, r \in Rows : row[d][r] = NoRow
  BY DEF Init
<1>2. NoRow["updated_at"] = 0 /\ Idle.batch = <<>>
  BY UpdatedAt DEF NoRow, Idle
<1>3. Snapped(<<>>)
  BY DEF Snapped
<1>4. \A d \in Devices : OwnRows(d) /\ Snapped(run[d].batch)
  <2>1. \A d \in Devices, r \in Rows : row[d][r]["updated_at"] = 0 /\ now[d] = 1
    BY <1>1, <1>2
  <2>2. \A d \in Devices : OwnRows(d)
    BY <2>1 DEF OwnRows
  <2>3. \A d \in Devices : run[d].batch = <<>>
    BY <1>1, <1>2
  <2> QED
    BY <1>3, <2>2, <2>3
<1>5. \A d, e \in Devices : Merged(d, e)
  BY <1>1 DEF Merged
<1> QED
  BY <1>1, <1>4, <1>5, PubInit DEF CursorInv

LEMMA CursorStep ==
  ASSUME CursorInv, [Next]_vars
  PROVE  CursorInv'
<1>1. PubInv'
  BY PubStep DEF CursorInv
<1>2. \A d \in Devices : OwnRows(d)'
  BY OwnRowsStep
<1>3. \A d \in Devices : Snapped(run'[d].batch) /\ \A s \in remote'[d] : Snapped(s.entries)
  BY SnappedStep
<1>4. \A d, e \in Devices : d # e => Merged(d, e)'
  BY MergedStep
<1> QED
  BY <1>1, <1>2, <1>3, <1>4 DEF CursorInv

\* A cursor stands for what was merged.
THEOREM CursorsStandForMerges == Spec => []CursorMeansMerged
<1>1. CursorInv => CursorMeansMerged
  BY DEF CursorInv, Merged, InForce, CursorMeansMerged
<1> QED
  BY <1>1, CursorInit, CursorStep, PTL DEF Spec

-----------------------------------------------------------------------------
(* The refinement of RowReplication.                                       *)

\* Every number up to the end of a journal is in some segment.
Gapless(segments) ==
  \A s \in segments, n \in Nat :
    0 < n /\ n <= s.last => \E t \in segments : t.first <= n /\ n <= t.last

\* What a device pushes is stamped with its own clock.
Stamped(d, en) == en.hlc = [wall |-> en.values["updated_at"], dev |-> d]

LogInv ==
  /\ CursorInv
  /\ \A d \in Devices :
       /\ Gapless(remote[d])
       /\ \A i \in DOMAIN run[d].batch : Stamped(d, run[d].batch[i])

\* Different segments of a journal have no number in common.
Disjoint(segments) ==
  /\ \A s \in segments : s.first \in Nat /\ s.first > 0 /\ s.last \in Nat
  /\ \A s, t \in segments : s # t => s.last < t.first \/ t.last < s.first

\* The end of a journal is the end of a segment that no other one passes.
LEMMA EndIs ==
  ASSUME NEW J, Disjoint(J), NEW n \in Nat, \A s \in J : s.last <= n,
         n = 0 \/ \E s \in J : s.last = n
  PROVE  EndOf(J) = n
<1> DEFINE ends == {s.last : s \in J} \cup {0}
           End(m) == m \in ends /\ \A s \in J : s.last <= m
<1>1. End(n)
  OBVIOUS
<1>2. End(EndOf(J))
  BY <1>1 DEF EndOf
<1>3. EndOf(J) = 0 \/ \E s \in J : EndOf(J) = s.last
  BY <1>2
<1>4. EndOf(J) \in Nat /\ EndOf(J) <= n
  BY <1>3 DEF Disjoint
<1>5. n <= EndOf(J)
  BY <1>2, <1>4
<1> QED
  BY <1>4, <1>5

\* The log of a journal, and the entry at a place in it.
LEMMA LogLength ==
  ASSUME NEW J, EndOf(J) \in Nat
  PROVE  Len(LogOf(J)) = EndOf(J) /\ DOMAIN LogOf(J) = 1..EndOf(J)
BY DEF LogOf

LEMMA EntryAt ==
  ASSUME NEW J, Disjoint(J), EndOf(J) \in Nat, NEW s \in J, s.last <= EndOf(J),
         NEW n \in s.first..s.last
  PROVE  n \in 1..EndOf(J) /\ LogOf(J)[n] = s.entries[n - s.first + 1]
<1>1. n \in Nat /\ n \in 1..EndOf(J) /\ s.first <= n /\ n <= s.last
  BY DEF Disjoint
<1>2. \A t \in J : t.first <= n /\ n <= t.last => t = s
  BY <1>1 DEF Disjoint
<1>3. (CHOOSE t \in J : t.first <= n /\ n <= t.last) = s
  BY <1>1, <1>2
<1> QED
  BY <1>1, <1>3 DEF LogOf

\* The segments of a journal are disjoint; what a device knows of its own is
\* its end while it may push.
LEMMA JournalDisjoint ==
  ASSUME JournalInv, NEW d \in Devices
  PROVE  Disjoint(remote[d])
<1>1. \A s \in remote[d] : s.first \in Nat /\ s.first > 0 /\ s.last \in Nat
  BY SegmentType DEF JournalInv
<1>2. Ordered(d)
  BY DEF JournalInv
<1> QED
  BY <1>1, <1>2 DEF Ordered, Disjoint

LEMMA JournalDisjointNext ==
  ASSUME JournalInv', NEW d \in Devices
  PROVE  Disjoint(remote'[d])
<1>1. /\ remote' \in [Devices -> SUBSET Segment]
      /\ \A s, t \in remote'[d] : s # t => s.last < t.first \/ t.last < s.first
  BY DEF JournalInv, TypeOK, Ordered
<1> QED
  BY <1>1 DEF Disjoint, Segment

LEMMA JournalEnd ==
  ASSUME JournalInv, NEW d \in Devices
  PROVE  EndOf(remote[d]) \in Nat /\ \A s \in remote[d] : s.last <= EndOf(remote[d])
<1>1. Disjoint(remote[d]) /\ Newest(d)
  BY JournalDisjoint DEF JournalInv
<1>2. CASE remote[d] = {}
  BY <1>1, <1>2, EndIs
<1>3. ASSUME NEW t \in remote[d], \A s \in remote[d] : s.last <= t.last
      PROVE  EndOf(remote[d]) = t.last /\ t.last \in Nat
  <2>1. t.last \in Nat
    BY <1>1 DEF Disjoint
  <2> QED
    BY <1>1, <1>3, <2>1, EndIs
<1> QED
  BY <1>1, <1>2, <1>3 DEF Newest

Logs == [d \in Devices |-> LogOf(remote[d])]
Stamps == [d \in Devices |-> [r \in Rows |-> StampOf(d, r)]]

\* A step that journals, cursors, rows and stamps do not show.
LEMMA ReplicaStutter ==
  ASSUME UNCHANGED <<remote, lastSeq, cursor, row, clocks>>
  PROVE  UNCHANGED Replication!vars
BY DEF Replication!vars, StampOf

\* The state of the logs is inductive.
LEMMA LogInit == Init => LogInv
<1> SUFFICES ASSUME Init PROVE LogInv
  OBVIOUS
<1>1. \A d \in Devices : remote[d] = {} /\ run[d].batch = <<>>
  BY DEF Init, Idle
<1> QED
  BY <1>1, CursorInit DEF LogInv, Gapless

\* A put leaves no gap.
LEMMA GaplessStep ==
  ASSUME LogInv, [Next]_vars, NEW x \in Devices
  PROVE  Gapless(remote'[x])
<1>1. JournalInv /\ TypeOK /\ Gapless(remote[x])
  BY DEF LogInv, CursorInv, PubInv, JournalInv
<1>2. CASE remote'[x] = remote[x]
  BY <1>1, <1>2
<1>3. ASSUME NEW d \in Devices, Put(d) PROVE Gapless(remote'[x])
  <2> DEFINE seg == NextSegment(d)
  <2>1. /\ \A s \in remote[d] : s.last <= lastSeq[d]
        /\ seg.first = lastSeq[d] + 1 /\ seg.last \in Nat /\ lastSeq[d] \in Nat
        /\ remote' = [remote EXCEPT ![d] = remote[d] \cup {seg}]
    BY <1>1, <1>3, PutAdds, Numbers
  <2>2. Boundary(lastSeq[d], remote[d]) /\ remote \in [Devices -> SUBSET Segment]
    BY <1>1 DEF JournalInv, TypeOK
  <2> HIDE DEF seg
  <2>3. CASE x = d
    <3>1. remote'[d] = remote[d] \cup {seg}
      BY <2>1, <2>2
    <3>2. SUFFICES ASSUME NEW s \in remote'[d], NEW n \in Nat, 0 < n, n <= s.last
                   PROVE  \E t \in remote'[d] : t.first <= n /\ n <= t.last
      BY <2>3 DEF Gapless
    <3>3. CASE n > lastSeq[d]
      <4>1. s = seg
        <5>1. ASSUME s \in remote[d] PROVE FALSE
          <6>1. s.last \in Nat /\ s.last <= lastSeq[d]
            BY <1>1, <2>1, <5>1, SegmentType
          <6> QED
            BY <2>1, <3>2, <3>3, <6>1
        <5> QED
          BY <3>1, <5>1
      <4> QED
        BY <2>1, <3>1, <3>2, <3>3, <4>1
    <3>4. CASE n <= lastSeq[d]
      <4>1. \E t \in remote[d] : n <= t.last
        BY <2>1, <2>2, <3>2, <3>4 DEF Boundary
      <4> QED
        BY <1>1, <2>3, <3>1, <3>2, <4>1 DEF Gapless
    <3> QED
      BY <2>1, <3>2, <3>3, <3>4
  <2>4. CASE x # d
    BY <1>2, <2>1, <2>2, <2>4
  <2> QED
    BY <2>3, <2>4
<1>4. (\E d \in Devices : Put(d)) \/ UNCHANGED remote
  BY OnlyPutsPublish
<1> QED
  BY <1>2, <1>3, <1>4

\* What a run holds to push is a snapshot of its device, or the rest of one.
LEMMA StampedStep ==
  ASSUME LogInv, [Next]_vars, NEW x \in Devices
  PROVE  \A i \in DOMAIN run'[x].batch : Stamped(x, run'[x].batch[i])
<1> USE DEF pushState
<1>1. /\ TypeOK /\ JournalInv
      /\ \A i \in DOMAIN run[x].batch : Stamped(x, run[x].batch[i])
  BY DEF LogInv, CursorInv, PubInv, JournalInv
<1>2. CASE run'[x].batch = run[x].batch \/ run'[x].batch = <<>>
  BY <1>1, <1>2
<1>3. CASE Collect(x)
  <2>1. CASE GoIdle(x)
    <3>1. run'[x] = Idle
      BY <1>1, <2>1 DEF GoIdle, TypeOK
    <3> QED
      BY <1>2, <3>1 DEF Idle
  <2>2. ASSUME ~GoIdle(x)
        PROVE  \A i \in DOMAIN run'[x].batch : Stamped(x, run'[x].batch[i])
    <3>1. PICK batch \in Seq(Entry) :
            /\ \A i \in DOMAIN batch : batch[i] \in Projected(x)
            /\ run' = [run EXCEPT ![x] = Snapshot(x, batch)]
            /\ Snapshot(x, batch).batch = batch
      BY <1>1, <1>3, <2>2, CollectEffect
    <3>2. run'[x].batch = batch
      BY <1>1, <3>1 DEF TypeOK
    <3>3. \A p \in Projected(x) : Stamped(x, p)
      BY DEF Projected, Stamped
    <3> QED
      BY <3>1, <3>2, <3>3
  <2> QED
    BY <2>1, <2>2
<1>4. CASE Put(x)
  <2> DEFINE b == run[x].batch
             n == BatchSize(x)
  <2>1. run[x].step = "putting" /\ run[x].next > 0
    BY <1>1, <1>4, PutAdds DEF Put
  <2>2. /\ n \in Nat /\ b \in Seq(Entry) /\ n <= Len(b)
        /\ LeftOver(x) \in Seq(Entry) /\ Len(LeftOver(x)) = Len(b) - n
        /\ \A i \in 1..(Len(b) - n) : LeftOver(x)[i] = b[n + i]
    BY <1>1, <2>1, CutBatch, Numbers DEF LeftOver
  <2>3. run'[x].batch = LeftOver(x)
    BY <1>1, <1>4, <2>1, PutEffect
  <2> HIDE DEF b, n
  <2>4. \A i \in DOMAIN LeftOver(x) :
          n + i \in DOMAIN b /\ LeftOver(x)[i] = b[n + i]
    BY <2>2
  <2> QED
    BY <1>1, <2>3, <2>4 DEF b
<1>5. ASSUME NEW d \in Devices,
             \/ Tick(d) \/ Pull(d) \/ Push(d) \/ RunStops(d)
             \/ \E r \in Rows, f \in Fields : LocalEdit(d, r, f)
      PROVE  \/ run'[x].batch = run[x].batch \/ run'[x].batch = <<>>
             \/ Collect(x) \/ Put(x)
  <2>1. CASE x # d
    BY <1>1, <1>5, <2>1, OthersKept
  <2>2. CASE x = d /\ ~Collect(d) /\ ~Put(d)
    <3>1. run \in [Devices -> Run] /\ run[x] \in Run
      BY <1>1 DEF TypeOK
    <3>2. CASE Ack(d)
      <4>1. run[d].step = "acking" /\ lastSeq[d] < run[d].next /\ run[d].next \in Nat /\ lastSeq[d] \in Nat
        BY <1>1, <3>2, Numbers DEF JournalInv, Pushing, Ack
      <4> QED
        BY <1>1, <2>2, <3>2, <4>1, AckEffect
    <3>3. CASE Tick(d) \/ \E r \in Rows, f \in Fields : LocalEdit(d, r, f)
      BY <2>2, <3>3 DEF Tick, LocalEdit
    <3>4. CASE Pull(d)
      BY <1>1, <2>2, <3>1, <3>4, StartEffect DEF Pull, MergeSegment
    <3>5. CASE Recover(d) \/ Settle(d) \/ RunStops(d)
      <4>1. \/ run' = [run EXCEPT ![d] = Idle]
            \/ run' = [run EXCEPT ![d] = AtStep(Idle, "collecting")]
        BY <3>5 DEF Recover, Settle, RunStops, GoIdle, AtStep
      <4>2. Idle.batch = <<>> /\ AtStep(Idle, "collecting").batch = <<>>
        BY DEF Idle, AtStep
      <4> QED
        BY <2>2, <3>1, <4>1, <4>2
    <3> QED
      BY <1>5, <2>2, <3>2, <3>3, <3>4, <3>5 DEF Push
  <2> QED
    BY <2>1, <2>2
<1>6. CASE UNCHANGED vars
  BY <1>2, <1>6 DEF vars
<1> QED
  BY <1>2, <1>3, <1>4, <1>5, <1>6 DEF Next

LEMMA LogStep ==
  ASSUME LogInv, [Next]_vars
  PROVE  LogInv'
<1>1. CursorInv'
  BY CursorStep DEF LogInv
<1> QED
  BY <1>1, GaplessStep, StampedStep DEF LogInv

\* A put appends its entries to the log, under the device's own stamps.
LEMMA PutPublishes ==
  ASSUME LogInv, JournalInv', NEW d \in Devices, Put(d)
  PROVE  Replication!Publish(d)
<1> DEFINE seg == NextSegment(d)
           old == remote[d]
           new == remote'[d]
<1>1. JournalInv /\ TypeOK /\ Gapless(old)
  BY DEF LogInv, CursorInv, PubInv, JournalInv
<1>2. /\ run[d].next = lastSeq[d] + 1 /\ run[d].next > 0
      /\ \A s \in old : s.last <= lastSeq[d]
      /\ seg.first = lastSeq[d] + 1 /\ seg.last >= seg.first /\ seg.last \in Nat
      /\ remote' = [remote EXCEPT ![d] = old \cup {seg}]
  BY <1>1, PutAdds
<1>3. /\ lastSeq[d] \in Nat /\ Boundary(lastSeq[d], old)
      /\ remote \in [Devices -> SUBSET Segment]
  BY <1>1, Numbers DEF JournalInv, TypeOK
<1>4. /\ new = old \cup {seg} /\ \A e \in Devices \ {d} : remote'[e] = remote[e]
  BY <1>2, <1>3
<1>5. Disjoint(old) /\ Disjoint(new)
  BY <1>1, JournalDisjoint, JournalDisjointNext
<1>6. UNCHANGED <<lastSeq, cursor, row, clocks>>
  BY DEF Put, pushState
<1>7. \A k \in DOMAIN seg.entries : Stamped(d, seg.entries[k])
  <2>1. run[d].step = "putting"
    BY DEF Put
  <2> DEFINE b == run[d].batch
             n == BatchSize(d)
             cut == seg.entries
  <2>2. /\ n \in Nat /\ n <= Len(b) /\ b \in Seq(Entry)
        /\ cut \in Seq(Entry) /\ Len(cut) = n /\ \A i \in 1..n : cut[i] = b[i]
    BY <1>1, <2>1, CutBatch, Numbers DEF NextSegment
  <2>3. \A i \in DOMAIN b : Stamped(d, b[i])
    BY DEF LogInv
  <2> HIDE DEF b, n, cut
  <2>4. \A k \in DOMAIN cut : k \in DOMAIN b /\ cut[k] = b[k]
    BY <2>2
  <2>5. \A k \in DOMAIN cut : Stamped(d, cut[k])
    BY <2>3, <2>4
  <2> QED
    BY <2>5 DEF cut
<1>8. /\ seg.entries \in Seq(Entry) /\ Len(seg.entries) \in Nat
      /\ seg.last - seg.first + 1 = Len(seg.entries)
  <2>1. seg \in Segment /\ seg.last = seg.first + Len(seg.entries) - 1
    BY <1>1, <1>2, PutEffect
  <2>2. seg.entries \in Seq(Entry) /\ seg.first \in Nat
    BY <2>1 DEF Segment
  <2>3. Len(seg.entries) \in Nat
    BY <2>2
  <2> QED
    BY <2>1, <2>2, <2>3
<1> HIDE DEF seg, old, new
<1>9. EndOf(old) = lastSeq[d]
  BY <1>2, <1>3, <1>5, EndIs DEF Boundary
<1>10. EndOf(new) = seg.last
  <2>1. \A s \in new : s.last <= seg.last
    BY <1>2, <1>3, <1>4, <1>5 DEF Disjoint
  <2> QED
    BY <1>2, <1>4, <1>5, <2>1, EndIs
<1>11. Len(LogOf(old)) = lastSeq[d] /\ Len(LogOf(new)) = seg.last
  BY <1>2, <1>3, <1>9, <1>10, LogLength
<1>12. ASSUME NEW n \in 1..lastSeq[d] PROVE LogOf(new)[n] = LogOf(old)[n]
  <2>1. \E t \in old : n <= t.last
    BY <1>3, <1>12 DEF Boundary
  <2>2. PICK s \in old : s.first <= n /\ n <= s.last
    BY <1>1, <1>3, <1>12, <2>1 DEF Gapless
  <2>3. s.first \in Nat /\ s.last \in Nat /\ s.last <= lastSeq[d] /\ s.last <= seg.last /\ s \in new
    BY <1>2, <1>3, <1>4, <1>5, <2>2 DEF Disjoint
  <2>4. n \in s.first..s.last
    BY <1>3, <1>12, <2>2, <2>3
  <2>5. LogOf(old)[n] = s.entries[n - s.first + 1]
    BY <1>3, <1>5, <1>9, <2>2, <2>3, <2>4, EntryAt
  <2>6. LogOf(new)[n] = s.entries[n - s.first + 1]
    BY <1>2, <1>5, <1>10, <2>3, <2>4, EntryAt
  <2> QED
    BY <2>5, <2>6
<1>13. ASSUME NEW n \in (lastSeq[d] + 1)..seg.last
       PROVE  Stamped(d, LogOf(new)[n])
  <2>1. n \in seg.first..seg.last /\ seg \in new
    BY <1>2, <1>4, <1>13
  <2>2. LogOf(new)[n] = seg.entries[n - seg.first + 1]
    BY <1>2, <1>5, <1>10, <2>1, EntryAt
  <2>3. n - seg.first + 1 \in DOMAIN seg.entries
    BY <1>2, <1>3, <1>8, <1>13
  <2> QED
    BY <1>7, <2>2, <2>3
<1>14. /\ Logs[d] = LogOf(old) /\ Logs'[d] = LogOf(new)
       /\ \A e \in Devices \ {d} : Logs'[e] = Logs[e]
  BY <1>4 DEF Logs, old, new
<1>15. /\ lastSeq[d] = Len(Logs[d])
       /\ Len(Logs'[d]) > Len(Logs[d])
       /\ \A n \in 1..Len(Logs[d]) : Logs'[d][n] = Logs[d][n]
       /\ \A n \in (Len(Logs[d]) + 1)..Len(Logs'[d]) :
            Logs'[d][n].hlc = [wall |-> Logs'[d][n].values["updated_at"], dev |-> d]
  BY <1>2, <1>3, <1>11, <1>12, <1>13, <1>14 DEF Stamped
<1>16. UNCHANGED <<lastSeq, cursor, row, Stamps>>
  BY <1>6 DEF Stamps, StampOf
<1> QED
  BY <1>14, <1>15, <1>16 DEF Replication!Publish, Logs, Stamps

\* Recovery and acknowledgement find the end of the device's own log.
LEMMA EndIsLearned ==
  ASSUME JournalInv, NEW d \in Devices,
         lastSeq' \in [Devices -> Nat], \A e \in Devices : e # d => lastSeq'[e] = lastSeq[e],
         \A s \in remote[d] : s.last <= lastSeq'[d],
         Boundary(lastSeq'[d], remote[d]),
         UNCHANGED <<remote, cursor, row, clocks>>
  PROVE  Replication!Learn(d)
<1>1. lastSeq'[d] \in Nat /\ lastSeq \in [Devices -> Nat]
  BY DEF JournalInv, TypeOK
<1>2. EndOf(remote[d]) = lastSeq'[d]
  BY <1>1, JournalDisjoint, EndIs DEF Boundary
<1>3. Len(LogOf(remote[d])) = lastSeq'[d]
  BY <1>1, <1>2, LogLength
<1>4. Len(Logs[d]) = lastSeq'[d]
  BY <1>3 DEF Logs
<1>5. lastSeq' = [lastSeq EXCEPT ![d] = Len(Logs[d])]
  BY <1>1, <1>4
<1>6. UNCHANGED <<Logs, cursor, row, Stamps>>
  BY DEF Logs, Stamps, StampOf
<1> QED
  BY <1>5, <1>6 DEF Replication!Learn, Logs, Stamps

LEMMA RecoverLearns ==
  ASSUME JournalInv, NEW d \in Devices, Recover(d)
  PROVE  Replication!Learn(d)
<1>1. TypeOK /\ Newest(d) /\ Boundary(lastSeq[d], remote[d])
  BY DEF JournalInv
<1>2. /\ lastSeq' \in [Devices -> Nat]
      /\ \A e \in Devices : e # d => lastSeq'[e] = lastSeq[e]
      /\ lastSeq'[d] = lastSeq[d] \/ \E s \in remote[d] : lastSeq'[d] = s.last
      /\ \A s \in remote[d] : s.last <= lastSeq'[d]
      /\ UNCHANGED <<remote, cursor, row, clocks>>
  BY <1>1, RecoverEffect
<1>3. Boundary(lastSeq'[d], remote[d])
  BY <1>1, <1>2 DEF Boundary
<1> QED
  BY <1>2, <1>3, EndIsLearned

LEMMA AckLearns ==
  ASSUME JournalInv, NEW d \in Devices, Ack(d)
  PROVE  Replication!Learn(d)
<1>1. /\ TypeOK /\ Pushing(d) /\ run[d].step = "acking"
      /\ lastSeq[d] \in Nat /\ run[d].next \in Nat
  BY Numbers DEF JournalInv, Ack
<1>2. /\ lastSeq[d] < run[d].next
      /\ \E t \in remote[d] : t.last = run[d].next - 1
      /\ \A s \in remote[d] : s.last <= run[d].next - 1
  BY <1>1 DEF Pushing
<1>3. /\ lastSeq' \in [Devices -> Nat]
      /\ \A e \in Devices : e # d => lastSeq'[e] = lastSeq[e]
      /\ lastSeq'[d] = Larger(lastSeq[d], run[d].next - 1)
      /\ UNCHANGED <<remote, cursor, row, clocks>>
  BY <1>1, <1>2, AckEffect
<1>4. lastSeq'[d] = run[d].next - 1
  BY <1>1, <1>2, <1>3 DEF Larger
<1>5. (\A s \in remote[d] : s.last <= lastSeq'[d]) /\ Boundary(lastSeq'[d], remote[d])
  BY <1>2, <1>4 DEF Boundary
<1> QED
  BY <1>3, <1>5, EndIsLearned

\* An edit is an edit.
LEMMA EditEdits ==
  ASSUME LogInv, TypeOK', NEW d \in Devices, NEW r \in Rows, NEW f \in Fields, LocalEdit(d, r, f)
  PROVE  Replication!Edit(d, r)
<1>1. TypeOK /\ OwnRows(d)
  BY DEF LogInv, CursorInv, PubInv, JournalInv
<1>2. /\ UNCHANGED <<lastSeq, cursor, remote, clocks>>
      /\ \A x \in Devices, y \in Rows : x # d \/ y # r => row'[x][y] = row[x][y]
  BY <1>1, EditEffect DEF pushState
<1>3. ~Newer(InForce(d, r)["updated_at"], InForce(d, r)'["updated_at"])
  BY <1>1, EditGrows, UpdatedAt
<1>4. /\ Stamps[d][r] = InForce(d, r)["updated_at"]
      /\ Stamps'[d][r] = InForce(d, r)'["updated_at"]
  BY DEF Stamps, StampOf, InForce
<1>5. \A x \in Devices, y \in Rows : x # d \/ y # r => Stamps'[x][y] = Stamps[x][y]
  BY <1>2 DEF Stamps, StampOf
<1>6. ~Replication!Later(Stamps[d][r], Stamps'[d][r])
  BY <1>3, <1>4 DEF Newer, Replication!Later
<1>7. UNCHANGED Logs
  BY <1>2 DEF Logs
<1> QED
  BY <1>2, <1>5, <1>6, <1>7 DEF Replication!Edit, Logs, Stamps

\* The merge of a segment, for one row: the segment's entry of the row takes
\* its place if it is later, and nothing happens otherwise.
LEMMA MergeAbsorbs ==
  ASSUME TypeOK, TypeOK', NEW d \in Devices, Uniform(d), NEW e \in Devices,
         NEW s \in remote[e], Snapped(s.entries), Merge(d, e, s), NEW r \in Rows,
         NEW news, news = {s.entries[i] : i \in {k \in DOMAIN s.entries : s.entries[k].row = r}}
  PROVE  Replication!Absorb(d, r, news)
<1> DEFINE old == InForce(d, r)["updated_at"]
           new == InForce(d, r)'["updated_at"]
<1>1. Stamps[d][r] = old /\ Stamps'[d][r] = new
  BY DEF Stamps, StampOf, InForce
<1>2. \A i \in DOMAIN s.entries : s.entries[i] \in Entry /\ s.entries[i].hlc.wall > 0
  BY SegmentType DEF Snapped
<1>3. SUFFICES
        \/ /\ \A en \in news : ~Newer(en.hlc, old)
           /\ row'[d][r] = row[d][r]
           /\ new = old
        \/ \E en \in news :
             /\ Newer(en.hlc, old)
             /\ \A other \in news : ~Newer(other.hlc, en.hlc)
             /\ row'[d][r] = en.values
             /\ new = en.hlc
  BY <1>1 DEF Replication!Absorb, Replication!Later, Newer, Stamps
<1>4. CASE /\ row'[d][r] = row[d][r] /\ clocks'[d][r] = clocks[d][r]
           /\ \A i \in DOMAIN s.entries : s.entries[i].row # r
  <2>1. news = {}
    BY <1>4
  <2>2. new = old
    BY <1>4 DEF InForce
  <2> QED
    BY <1>4, <2>1, <2>2
<1>5. ASSUME NEW i \in DOMAIN s.entries, s.entries[i].row = r,
             row'[d][r] = MergedRow(d, s.entries[i]),
             clocks'[d][r] = MergedClocks(d, s.entries[i])
      PROVE  \/ /\ \A en \in news : ~Newer(en.hlc, old)
                /\ row'[d][r] = row[d][r]
                /\ new = old
             \/ \E en \in news :
                  /\ Newer(en.hlc, old)
                  /\ \A other \in news : ~Newer(other.hlc, en.hlc)
                  /\ row'[d][r] = en.values
                  /\ new = en.hlc
  <2> DEFINE en == s.entries[i]
  <2>1. en \in Entry /\ en.hlc.wall > 0 /\ en.hlc \in Stamp /\ en.row = r
    BY <1>2, <1>5 DEF Entry
  <2>2. \A k \in DOMAIN s.entries : s.entries[k].row = r => k = i
    BY <1>5 DEF Snapped
  <2>3. news = {en}
    BY <1>5, <2>2
  <2>4. row'[d][r] = MergedRow(d, en) /\ clocks'[d][r] = MergedClocks(d, en)
    BY <1>5
  <2> HIDE DEF en
  <2>5. CASE Winners(d, en) = {}
    <3>1. Winners(d, en) # Columns
      BY <2>5, UpdatedAt
    <3>2. row'[d][r] = row[d][r] /\ clocks'[d][r] = clocks[d][r]
      BY <2>1, <2>4, <3>1, MergeWhole
    <3>3. ~Newer(en.hlc, old)
      BY <2>1, <2>5, <3>1, UpdatedAt DEF Winners, InForce
    <3>4. new = old
      BY <3>2 DEF InForce
    <3> QED
      BY <2>3, <3>2, <3>3, <3>4
  <2>6. CASE Winners(d, en) = Columns
    <3>1. Winners(d, en) # {}
      BY <2>6, UpdatedAt
    <3>2. row'[d][r] = en.values /\ clocks'[d][r] = [c \in Columns |-> en.hlc]
      BY <2>1, <2>4, <3>1, MergeWhole
    <3>3. clocks'[d][r] # NoClocks
      BY <2>1, <3>2, StampsAreClocks
    <3>4. new = en.hlc
      BY <3>2, <3>3, UpdatedAt DEF InForce, RowClocks
    <3>5. Newer(en.hlc, old)
      <4>1. CASE row[d][r] = NoRow /\ clocks[d][r] = NoClocks
        <5>1. old.wall = 0
          BY <4>1, UpdatedAt DEF InForce, RowClocks, NoRow
        <5> QED
          BY <2>1, <5>1 DEF Newer
      <4>2. CASE ~(row[d][r] = NoRow /\ clocks[d][r] = NoClocks)
        <5>1. "updated_at" \in Winners(d, en)
          BY <2>6, UpdatedAt
        <5> QED
          BY <2>1, <4>2, <5>1 DEF Winners, InForce
      <4> QED
        BY <4>1, <4>2
    <3>6. ~Newer(en.hlc, en.hlc)
      BY <2>1, NewerOrder
    <3> QED
      BY <2>3, <3>2, <3>4, <3>5, <3>6
  <2> QED
    BY <2>1, <2>5, <2>6, MergeWhole
<1> QED
  BY <1>4, <1>5, MergeEffect

\* A pulled segment is the next piece of the other device's log.
LEMMA MergeReads ==
  ASSUME LogInv, TypeOK', NEW d \in Devices, NEW e \in Devices \ {d}, MergeSegment(d, e)
  PROVE  Replication!Read(d, e)
<1>1. /\ TypeOK /\ JournalInv /\ Uniform(d)
      /\ \A t \in remote[e] : Snapped(t.entries)
  BY DEF LogInv, CursorInv, PubInv, JournalInv, Pushable
<1>2. PICK s \in remote[e] : s.first = cursor[d][e] + 1 /\ Merge(d, e, s)
  BY DEF MergeSegment
<1>3. UNCHANGED <<lastSeq, remote>>
  BY DEF MergeSegment, pushState
<1>4. /\ s.first \in Nat /\ s.last \in Nat /\ s.first > 0 /\ s.entries \in Seq(Entry)
      /\ s.last = cursor[d][e] + Len(s.entries) /\ s.first <= s.last
      /\ cursor[d][e] \in Nat /\ Len(s.entries) \in Nat /\ DOMAIN s.entries = 1..Len(s.entries)
  <2>1. s.last = s.first + Len(s.entries) - 1 /\ cursor[d][e] \in Nat
    BY <1>1 DEF TypeOK
  <2>2. /\ s.first <= s.last /\ s.first \in Nat /\ s.last \in Nat /\ s.first > 0
        /\ s.entries \in Seq(Entry)
    BY <1>1, SegmentType DEF JournalInv, Ordered
  <2>3. Len(s.entries) \in Nat /\ DOMAIN s.entries = 1..Len(s.entries)
    BY <2>2
  <2> QED
    BY <1>2, <2>1, <2>2, <2>3
<1>5. /\ EndOf(remote[e]) \in Nat /\ s.last <= EndOf(remote[e]) /\ Disjoint(remote[e])
  BY <1>1, JournalEnd, JournalDisjoint
<1>6. Len(Logs[e]) = EndOf(remote[e])
  BY <1>5, LogLength DEF Logs
<1>7. s.last \in (cursor[d][e] + 1)..Len(Logs[e])
  BY <1>2, <1>4, <1>5, <1>6
<1>8. ASSUME NEW k \in (cursor[d][e] + 1)..s.last
      PROVE  Logs[e][k] = s.entries[k - cursor[d][e]] /\ k - cursor[d][e] \in DOMAIN s.entries
  <2>1. k \in s.first..s.last /\ k - s.first + 1 = k - cursor[d][e]
    BY <1>2, <1>4
  <2>2. LogOf(remote[e])[k] = s.entries[k - s.first + 1]
    BY <1>5, <2>1, EntryAt
  <2>3. k - cursor[d][e] \in 1..Len(s.entries)
    BY <1>2, <1>4
  <2> QED
    BY <1>4, <2>1, <2>2, <2>3 DEF Logs
<1>9. ASSUME NEW i \in DOMAIN s.entries
      PROVE  cursor[d][e] + i \in (cursor[d][e] + 1)..s.last
  BY <1>2, <1>4
<1>10. ASSUME NEW r \in Rows
       PROVE  Replication!Absorb(d, r,
                {Logs[e][k] : k \in {i \in (cursor[d][e] + 1)..s.last : Logs[e][i].row = r}})
  <2> DEFINE seen == {Logs[e][k] : k \in {i \in (cursor[d][e] + 1)..s.last : Logs[e][i].row = r}}
             news == {s.entries[i] : i \in {k \in DOMAIN s.entries : s.entries[k].row = r}}
  <2>1. ASSUME NEW k \in (cursor[d][e] + 1)..s.last, Logs[e][k].row = r PROVE Logs[e][k] \in news
    BY <1>8, <2>1
  <2>2. ASSUME NEW i \in DOMAIN s.entries, s.entries[i].row = r PROVE s.entries[i] \in seen
    <3> DEFINE k == cursor[d][e] + i
    <3>1. k \in (cursor[d][e] + 1)..s.last /\ k - cursor[d][e] = i
      BY <1>4, <1>9
    <3> HIDE DEF k
    <3>2. Logs[e][k] = s.entries[i]
      BY <1>8, <3>1
    <3>3. k \in {j \in (cursor[d][e] + 1)..s.last : Logs[e][j].row = r}
      BY <2>2, <3>1, <3>2
    <3>4. Logs[e][k] \in seen
      BY <3>3
    <3> QED
      BY <3>2, <3>4
  <2>3. seen = news
    BY <2>1, <2>2
  <2>4. Snapped(s.entries)
    BY <1>1
  <2> HIDE DEF seen, news
  <2>5. news = {s.entries[i] : i \in {k \in DOMAIN s.entries : s.entries[k].row = r}}
    BY DEF news
  <2>6. Replication!Absorb(d, r, news)
    BY <1>1, <1>2, <2>4, <2>5, MergeAbsorbs
  <2>7. Replication!Absorb(d, r, seen)
    BY <2>3, <2>6
  <2> QED
    BY <2>7 DEF seen
<1>11. /\ cursor' = [cursor EXCEPT ![d][e] = s.last]
       /\ \A x \in Devices \ {d} : row'[x] = row[x] /\ clocks'[x] = clocks[x]
  BY <1>1, <1>2, MergeEffect
<1>12. \A x \in Devices \ {d} : Stamps'[x] = Stamps[x]
  BY <1>11 DEF Stamps, StampOf
<1>13. UNCHANGED Logs
  BY <1>3 DEF Logs
<1> QED
  BY <1>3, <1>7, <1>10, <1>11, <1>12, <1>13 DEF Replication!Read, Logs, Stamps

\* Every step of the model is a step of the specification, or none.
LEMMA ReplicaInit == Init => Replication!Init
<1> SUFFICES ASSUME Init PROVE Replication!Init
  OBVIOUS
<1>1. /\ \A d \in Devices : remote[d] = {}
      /\ lastSeq = [d \in Devices |-> 0]
      /\ cursor = [d \in Devices |-> [e \in Devices |-> 0]]
      /\ row = [d \in Devices |-> [r \in Rows |-> NoRow]]
      /\ clocks = [d \in Devices |-> [r \in Rows |-> NoClocks]]
  BY DEF Init
<1>2. EndOf({}) = 0
  BY EndIs DEF Disjoint
<1>3. LogOf({}) = <<>>
  BY <1>2 DEF LogOf
<1>4. Logs = [d \in Devices |-> <<>>]
  BY <1>1, <1>3 DEF Logs
<1>5. NoRow["updated_at"] = 0
  BY UpdatedAt DEF NoRow
<1>6. \A d \in Devices, r \in Rows : StampOf(d, r) = [wall |-> 0, dev |-> d]
  BY <1>1, <1>5, UpdatedAt DEF StampOf, RowClocks
<1>7. Stamps = [d \in Devices |-> [r \in Rows |-> [wall |-> 0, dev |-> d]]]
  BY <1>6 DEF Stamps
<1> QED
  BY <1>1, <1>4, <1>7 DEF Replication!Init, Logs, Stamps

LEMMA ReplicaStep ==
  ASSUME LogInv, [Next]_vars
  PROVE  [Replication!Next]_(Replication!vars)
<1> USE DEF pushState
<1>1. JournalInv /\ JournalInv' /\ TypeOK'
  BY TypeStep, JournalStep DEF LogInv, CursorInv, PubInv
<1>2. CASE UNCHANGED vars
  BY <1>2, ReplicaStutter DEF vars
<1>3. ASSUME NEW d \in Devices, NEW r \in Rows, NEW f \in Fields, LocalEdit(d, r, f)
      PROVE  Replication!Next
  BY <1>1, <1>3, EditEdits DEF Replication!Next
<1>4. ASSUME NEW d \in Devices, Pull(d) PROVE [Replication!Next]_(Replication!vars)
  <2>1. CASE StartSync(d)
    BY <2>1, ReplicaStutter DEF StartSync
  <2>2. ASSUME NEW e \in Devices \ {d}, MergeSegment(d, e) PROVE Replication!Next
    BY <1>1, <2>2, MergeReads DEF Replication!Next
  <2> QED
    BY <1>4, <2>1, <2>2 DEF Pull
<1>5. ASSUME NEW d \in Devices, Push(d) PROVE [Replication!Next]_(Replication!vars)
  <2>1. CASE Recover(d) \/ Ack(d)
    BY <1>1, <2>1, RecoverLearns, AckLearns DEF Replication!Next
  <2>2. CASE Put(d)
    BY <1>1, <2>2, PutPublishes DEF Replication!Next
  <2>3. CASE Collect(d) \/ Settle(d)
    BY <2>3, ReplicaStutter DEF Collect, Settle
  <2> QED
    BY <1>5, <2>1, <2>2, <2>3 DEF Push
<1>6. ASSUME NEW d \in Devices, Tick(d) \/ RunStops(d) PROVE UNCHANGED Replication!vars
  BY <1>6, ReplicaStutter DEF Tick, RunStops
<1> QED
  BY <1>2, <1>3, <1>4, <1>5, <1>6 DEF Next

\* Row synchronization implements last-writer-wins rows over append-only logs,
\* whatever runs stop between an upload and its acknowledgement (engine.ts).
THEOREM SyncReplicatesRows == Spec => ReplicatesRows
<1> QED
  BY LogInit, LogStep, ReplicaInit, ReplicaStep, PTL DEF Spec, ReplicatesRows, Replication!Spec

=============================================================================
