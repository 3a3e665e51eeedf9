------------------------------ MODULE SyncRows ------------------------------
(***************************************************************************)
(* Row synchronization of the desktop app: every device projects the rows  *)
(* it changed since its last push onto its own journal of numbered         *)
(* segments, and merges the segments of the other devices column by column *)
(* under hybrid-clock stamps. A run pulls, then pushes; it can stop after  *)
(* any step (a crash, a lost connection) and start again later.            *)
(*                                                                         *)
(* The remote side is a store of whole objects: a segment appears under    *)
(* its path at once, and a second put to the path replaces it. The network *)
(* and every device's wall clock are independent of each other.            *)
(***************************************************************************)
EXTENDS Naturals, Sequences, FiniteSets

CONSTANTS
  Devices,     \* device ids, in the order in which their strings compare
  Rows,        \* row ids of the synchronized tables
  Bumping,     \* those whose table writes MAX(updated_at + 1, now)
  Fields,      \* synchronized columns other than updated_at
  SegmentSize, \* MAX_SEGMENT_ENTRIES
  MaxTime,     \* bound: wall clock of a device
  MaxEdits,    \* bound: local edits
  MaxFaults    \* bound: runs cut short

ASSUME SyncAssumption ==
  /\ Devices \subseteq Nat
  /\ IsFiniteSet(Rows)
  /\ Bumping \subseteq Rows
  /\ "updated_at" \notin Fields
  /\ SegmentSize \in Nat \ {0}
  /\ MaxTime \in Nat
  /\ MaxEdits \in Nat
  /\ MaxFaults \in Nat

VARIABLES
  now,      \* wall clock of a device
  row,      \* the row as stored on a device: Columns -> value
  clocks,   \* sync_row_clocks of a row, NoClocks when none are stored
  lastSeq,  \* last_pushed_seq
  pushedAt, \* last_pushed_at, the snapshot watermark
  cursor,   \* last_pulled_cursor per remote device
  remote,   \* the journal a device has published
  run,      \* the sync run of a device: its step and its memory
  edits,    \* every local edit made, in order; a value is its position here
  faults    \* runs cut short so far

vars == <<now, row, clocks, lastSeq, pushedAt, cursor, remote, run, edits, faults>>

pushState == <<lastSeq, pushedAt>>

-----------------------------------------------------------------------------
Columns == Fields \cup {"updated_at"}

Row == [Columns -> Nat]

NoRow == [c \in Columns |-> 0]

Stamp == [wall : Nat, dev : Devices]

NoClocks == [c \in {} |-> 0]

\* hlcCompare of two stamps whose counters are both zero.
Newer(a, b) == a.wall > b.wall \/ (a.wall = b.wall /\ a.dev > b.dev)

Entry == [row : Rows, values : Row, hlc : Stamp]

Segment == [first : Nat \ {0}, last : Nat \ {0}, entries : Seq(Entry)]

Larger(a, b) == IF a > b THEN a ELSE b

\* assertContiguousSegmentRanges: sorted, the segments continue c without a
\* gap or an overlap.
Contiguous(c, segments) ==
  /\ \A s \in segments : s.first = c + 1 \/ \E t \in segments : s.first = t.last + 1
  /\ \A s, t \in segments : s # t => s.last < t.first \/ t.last < s.first

\* rowClocks: the stored stamps, or updated_at as this device's stamp of every
\* column.
RowClocks(d, stored, local) ==
  IF stored # NoClocks
  THEN stored
  ELSE [c \in Columns |-> [wall |-> local["updated_at"], dev |-> d]]

Step == {"idle", "pulling", "collecting", "putting", "acking", "settling"}

Run == [step : Step, listed : SUBSET [dev : Devices, first : Nat, last : Nat],
        batch : Seq(Entry), next : Nat, bound : Nat]

Idle == [step |-> "idle", listed |-> {}, batch |-> <<>>, next |-> 0, bound |-> 0]

GoIdle(d) == run' = [run EXCEPT ![d] = Idle]

-----------------------------------------------------------------------------
Tick(d) ==
  /\ now[d] < MaxTime
  /\ now' = [now EXCEPT ![d] = @ + 1]
  /\ UNCHANGED <<row, clocks, pushState, cursor, remote, run, edits, faults>>

\* The updated_at of a local write.
Touched(d, r) ==
  IF r \in Bumping THEN Larger(now[d], row[d][r]["updated_at"] + 1) ELSE now[d]

\* A repository writes one column of a row and its updated_at, and nothing
\* else. A new row gets a fresh id.
LocalEdit(d, r, f) ==
  /\ Len(edits) < MaxEdits
  /\ row[d][r] = NoRow => \A e \in Devices : row[e][r] = NoRow
  /\ edits' = Append(edits, [row |-> r, field |-> f, dev |-> d])
  /\ row' = [row EXCEPT ![d][r][f] = Len(edits) + 1, ![d][r]["updated_at"] = Touched(d, r)]
  /\ UNCHANGED <<now, clocks, pushState, cursor, remote, run, faults>>

-----------------------------------------------------------------------------
(* A sync run: pull.                                                       *)

\* list("journal/"): the paths of the other devices' segments.
StartSync(d) ==
  /\ run[d].step = "idle"
  /\ run' = [run EXCEPT ![d] =
       [Idle EXCEPT !.step = "pulling",
          !.listed = UNION {{[dev |-> e, first |-> s.first, last |-> s.last] : s \in remote[e]} :
                              e \in Devices \ {d}}]]
  /\ UNCHANGED <<now, row, clocks, pushState, cursor, remote, edits, faults>>

Fresh(d, e) == {p \in run[d].listed : p.dev = e /\ p.last > cursor[d][e]}

\* Columns of an entry that win against the local row.
Winners(d, en) ==
  LET r == en.row
      local == RowClocks(d, clocks[d][r], row[d][r])
  IN  IF row[d][r] = NoRow /\ clocks[d][r] = NoClocks
      THEN Columns
      ELSE {c \in Columns : Newer(en.hlc, local[c])}

\* applyUpsert of the winning columns, then writeRowClocks.
MergedRow(d, en) ==
  [c \in Columns |-> IF c \in Winners(d, en) THEN en.values[c] ELSE row[d][en.row][c]]

\* Mutant: the stamps of the merged columns are not stored.
MergedClocksForgotten(d, en) == clocks[d][en.row]

MergedClocks(d, en) ==
  IF Winners(d, en) = {}
  THEN clocks[d][en.row]
  ELSE [c \in Columns |->
          IF c \in Winners(d, en)
          THEN en.hlc
          ELSE RowClocks(d, clocks[d][en.row], MergedRow(d, en))[c]]

\* A gap or an overlap stops the pull here, and NeverWedged says there is none.
\* applyRemoteSegment: cursor check, merge of all entries (a segment holds a
\* row at most once) and the new cursor, in one transaction.
Merge(d, e, s) ==
  LET touched == {en.row : en \in {s.entries[i] : i \in DOMAIN s.entries}}
      entry(r) == CHOOSE en \in {s.entries[i] : i \in DOMAIN s.entries} : en.row = r
  IN  /\ row' = [row EXCEPT ![d] =
           [r \in Rows |-> IF r \in touched THEN MergedRow(d, entry(r)) ELSE @[r]]]
      /\ clocks' = [clocks EXCEPT ![d] =
           [r \in Rows |-> IF r \in touched THEN MergedClocks(d, entry(r)) ELSE @[r]]]
      /\ cursor' = [cursor EXCEPT ![d][e] = s.last]

MergeSegment(d, e) ==
  /\ run[d].step = "pulling"
  /\ Contiguous(cursor[d][e], Fresh(d, e))
  /\ \E s \in remote[e] :
       /\ \E p \in Fresh(d, e) : p.first = s.first /\ p.last = s.last
       /\ s.first = cursor[d][e] + 1
       /\ Merge(d, e, s)
  /\ UNCHANGED <<now, pushState, remote, run, edits, faults>>

-----------------------------------------------------------------------------
(* A sync run: push.                                                       *)

\* Mutant: the run trusts its own cursor.
RecoverNothing(d) ==
  /\ run[d].step = "pulling"
  /\ \A e \in Devices \ {d} : Fresh(d, e) = {}
  /\ run' = [run EXCEPT ![d] = [Idle EXCEPT !.step = "collecting"]]
  /\ UNCHANGED <<now, row, clocks, pushState, cursor, remote, edits, faults>>

\* recoverPublishedSegments: segments of this device beyond its cursor were
\* published by a run that stopped before it could record them.
Recover(d) ==
  LET own == {s \in remote[d] : s.last > lastSeq[d]} IN
  /\ run[d].step = "pulling"
  /\ \A e \in Devices \ {d} : Fresh(d, e) = {}
  /\ Contiguous(lastSeq[d], own)
  /\ lastSeq' = [lastSeq EXCEPT ![d] = CHOOSE n \in {s.last : s \in own} \cup {@} :
                                         \A s \in own : s.last <= n]
  /\ run' = [run EXCEPT ![d] = [Idle EXCEPT !.step = "collecting"]]
  /\ UNCHANGED <<now, row, clocks, pushedAt, cursor, remote, edits, faults>>

\* Mutant: the watermark is the current millisecond itself.
WatermarkNow(d) == now[d]

\* safeSnapshotWatermark: a row written later in this same millisecond is left
\* to the next run.
Watermark(d) == now[d] - 1

\* unsyncedChanges: one whole-row entry, all columns under one stamp, for each
\* row changed after the last push and not after the watermark.
Projected(d) ==
  {[row |-> r, values |-> row[d][r],
    hlc |-> [wall |-> row[d][r]["updated_at"], dev |-> d]] :
     r \in {x \in Rows : /\ row[d][x]["updated_at"] > pushedAt[d]
                         /\ row[d][x]["updated_at"] <= Watermark(d)}}

Collect(d) ==
  /\ run[d].step = "collecting"
  /\ \/ Projected(d) = {} /\ GoIdle(d)
     \/ \E batch \in [1..Cardinality(Projected(d)) -> Projected(d)] :
          /\ batch # <<>>
          /\ \A i, k \in DOMAIN batch : batch[i] = batch[k] => i = k
          /\ run' = [run EXCEPT ![d] =
               [Idle EXCEPT !.step = "putting", !.batch = batch, !.next = lastSeq[d] + 1,
                            !.bound = Larger(pushedAt[d], Watermark(d))]]
  /\ UNCHANGED <<now, row, clocks, pushState, cursor, remote, edits, faults>>

BatchSize(d) == IF Len(run[d].batch) < SegmentSize THEN Len(run[d].batch) ELSE SegmentSize

\* provider.put of one segment.
Put(d) ==
  LET seg == [first   |-> run[d].next,
              last    |-> run[d].next + BatchSize(d) - 1,
              entries |-> SubSeq(run[d].batch, 1, BatchSize(d))]
  IN  /\ run[d].step = "putting"
      /\ remote' = [remote EXCEPT ![d] =
           {s \in @ : s.first # seg.first \/ s.last # seg.last} \cup {seg}]
      /\ run' = [run EXCEPT ![d].step = "acking",
                            ![d].next = seg.last + 1,
                            ![d].batch = SubSeq(@, BatchSize(d) + 1, Len(@))]
      /\ UNCHANGED <<now, row, clocks, pushState, cursor, edits, faults>>

\* Mutant: the last segment of a snapshot is not told from the others.
AckOneMore(d) ==
  /\ run[d].step = "acking"
  /\ lastSeq' = [lastSeq EXCEPT ![d] = Larger(@, run[d].next - 1)]
  /\ run' = [run EXCEPT ![d].step = "putting"]
  /\ UNCHANGED <<now, row, clocks, pushedAt, cursor, remote, edits, faults>>

\* Mutant: the first acknowledgement covers the whole snapshot.
AckSnapshot(d) ==
  /\ run[d].step = "acking"
  /\ lastSeq' = [lastSeq EXCEPT ![d] = Larger(@, run[d].next - 1 + Len(run[d].batch))]
  /\ run' = [run EXCEPT ![d].step = IF run[d].batch = <<>> THEN "settling" ELSE "putting"]
  /\ UNCHANGED <<now, row, clocks, pushedAt, cursor, remote, edits, faults>>

\* markPushed: advancePublishedSeq comes first ...
Ack(d) ==
  /\ run[d].step = "acking"
  /\ lastSeq' = [lastSeq EXCEPT ![d] = Larger(@, run[d].next - 1)]
  /\ run' = [run EXCEPT ![d].step = IF run[d].batch = <<>> THEN "settling" ELSE "putting"]
  /\ UNCHANGED <<now, row, clocks, pushedAt, cursor, remote, edits, faults>>

\* ... and the watermark after the last segment of the snapshot.
Settle(d) ==
  /\ run[d].step = "settling"
  /\ pushedAt' = [pushedAt EXCEPT ![d] = Larger(@, run[d].bound)]
  /\ GoIdle(d)
  /\ UNCHANGED <<now, row, clocks, lastSeq, cursor, remote, edits, faults>>

\* The process dies or a request fails: only the database and the remote stay.
RunStops(d) ==
  /\ run[d].step # "idle"
  /\ faults < MaxFaults
  /\ faults' = faults + 1
  /\ GoIdle(d)
  /\ UNCHANGED <<now, row, clocks, pushState, cursor, remote, edits>>

-----------------------------------------------------------------------------
Init ==
  /\ now = [d \in Devices |-> 1]
  /\ row = [d \in Devices |-> [r \in Rows |-> NoRow]]
  /\ clocks = [d \in Devices |-> [r \in Rows |-> NoClocks]]
  /\ lastSeq = [d \in Devices |-> 0]
  /\ pushedAt = [d \in Devices |-> 0]
  /\ cursor = [d \in Devices |-> [e \in Devices |-> 0]]
  /\ remote = [d \in Devices |-> {}]
  /\ run = [d \in Devices |-> Idle]
  /\ edits = <<>>
  /\ faults = 0

Pull(d) == StartSync(d) \/ \E e \in Devices \ {d} : MergeSegment(d, e)

Push(d) == Recover(d) \/ Collect(d) \/ Put(d) \/ Ack(d) \/ Settle(d)

Next ==
  \E d \in Devices :
    \/ Tick(d)
    \/ \E r \in Rows, f \in Fields : LocalEdit(d, r, f)
    \/ Pull(d)
    \/ Push(d)
    \/ RunStops(d)

Spec == Init /\ [][Next]_vars

-----------------------------------------------------------------------------
(* Properties.                                                             *)

\* Every variable keeps its shape: rows and stamps of known columns, journals
\* of numbered segments, a run at one of its steps.
TypeOK ==
  /\ now \in [Devices -> 1..(MaxTime + 1)]
  /\ row \in [Devices -> [Rows -> Row]]
  /\ clocks \in [Devices -> [Rows -> {NoClocks} \cup [Columns -> Stamp]]]
  /\ lastSeq \in [Devices -> Nat]
  /\ pushedAt \in [Devices -> Nat]
  /\ cursor \in [Devices -> [Devices -> Nat]]
  /\ remote \in [Devices -> SUBSET Segment]
  /\ \A d \in Devices : \A s \in remote[d] : s.last = s.first + Len(s.entries) - 1
  /\ run \in [Devices -> Run]
  /\ \A d \in Devices : run[d].step = "putting" => run[d].batch # <<>>
  /\ edits \in Seq([row : Rows, field : Fields, dev : Devices])
  /\ Len(edits) <= MaxEdits
  /\ faults \in 0..MaxFaults

\* A journal as the log of its entries, and the stamp in force of a row.
EndOf(segments) ==
  CHOOSE n \in {s.last : s \in segments} \cup {0} : \A s \in segments : s.last <= n

LogOf(segments) ==
  [n \in 1..EndOf(segments) |->
     LET s == CHOOSE s \in segments : s.first <= n /\ n <= s.last
     IN  s.entries[n - s.first + 1]]

StampOf(d, r) == RowClocks(d, clocks[d][r], row[d][r])["updated_at"]

Replication == INSTANCE RowReplication WITH
  Missing <- NoRow,
  log     <- [d \in Devices |-> LogOf(remote[d])],
  known   <- lastSeq,
  read    <- cursor,
  value   <- row,
  stamp   <- [d \in Devices |-> [r \in Rows |-> StampOf(d, r)]]

\* However often runs stop between an upload and its acknowledgement, journals
\* are logs that others can read while they grow: no published entry is
\* replaced or withdrawn, none is skipped or merged twice, and what is merged
\* is the later of two whole rows. (recoverPublishedSegments and
\* applyRemoteSegment, engine.ts.)
ReplicatesRows == Replication!Spec

\* No device's journal ever wedges another device: what a device has not merged
\* yet continues its cursor without a gap or an overlap, so that no pull and no
\* recovery is refused for good.
NeverWedged ==
  /\ \A d, e \in Devices :
       d # e => Contiguous(cursor[d][e], {s \in remote[e] : s.last > cursor[d][e]})
  /\ \A d \in Devices :
       Contiguous(lastSeq[d], {s \in remote[d] : s.last > lastSeq[d]})

\* No change is forgotten: a row on a device is either in somebody's journal as
\* it stands, or still above the device's watermark and so part of a later
\* push. (safeSnapshotWatermark, markPushed with complete.)
PendingOrPublished ==
  \A d \in Devices, r \in Rows :
    \/ row[d][r] = NoRow
    \/ row[d][r]["updated_at"] > pushedAt[d]
    \/ \E e \in Devices : \E s \in remote[e] : \E i \in DOMAIN s.entries :
         s.entries[i].row = r /\ s.entries[i].values = row[d][r]

\* A cursor stands for what was merged: no column of a row is older than an
\* entry the device's cursor has passed.
CursorMeansMerged ==
  \A d, e \in Devices : \A s \in remote[e] :
    d # e /\ s.last <= cursor[d][e] =>
      \A i \in DOMAIN s.entries :
        LET en == s.entries[i]
        IN  \A c \in Columns : ~Newer(en.hlc, RowClocks(d, clocks[d][en.row], row[d][en.row])[c])

\* packages/sync/src/types.ts: "column values carry per-field HLC stamps so two
\* devices editing different fields of the same row both win." The last edit
\* of a field that only one device ever edited is still held by some device.
\* The desktop storage stamps every column of a changed row with the row's
\* updated_at, and a pull then replaces the whole row.
FieldEditsSurvive ==
  \A n \in 1..Len(edits) :
    (\A m \in 1..Len(edits) :
       edits[m].row = edits[n].row /\ edits[m].field = edits[n].field =>
         m <= n /\ edits[m].dev = edits[n].dev)
    => \E d \in Devices : row[d][edits[n].row][edits[n].field] = n

\* README.md: "hybrid logical clocks + per-field LWW conflict resolution". A
\* merge never replaces a row by an older one. The desktop storage consults the
\* stored stamps of the last merge, which a local edit does not touch.
MergesMoveForward ==
  [][\A d \in Devices, r \in Rows :
       cursor'[d] # cursor[d] => row'[d][r]["updated_at"] >= row[d][r]["updated_at"]]_vars

=============================================================================
