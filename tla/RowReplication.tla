--------------------------- MODULE RowReplication ---------------------------
(***************************************************************************)
(* What row synchronization promises: a device publishes rows on a log of  *)
(* its own that only grows, each row whole and under the device's stamp;   *)
(* the others read every log from the front, without a gap, and of all     *)
(* they read about a row the latest stamp wins, against a local edit too.  *)
(* Segments, snapshots, watermarks, columns, recovery and stopped runs are *)
(* not to be seen.                                                         *)
(***************************************************************************)
EXTENDS Naturals, Sequences

CONSTANTS
  Devices, \* device ids, ordered
  Rows,    \* row ids
  Missing  \* the value of a row that is not there

VARIABLES
  log,   \* the entries a device has published
  known, \* how much of its own log a device knows of
  read,  \* how much of each other log it has read
  value, \* its rows
  stamp  \* the stamp that the next entry of a row has to beat

vars == <<log, known, read, value, stamp>>

Init ==
  /\ log = [d \in Devices |-> <<>>]
  /\ known = [d \in Devices |-> 0]
  /\ read = [d \in Devices |-> [e \in Devices |-> 0]]
  /\ value = [d \in Devices |-> [r \in Rows |-> Missing]]
  /\ stamp = [d \in Devices |-> [r \in Rows |-> [wall |-> 0, dev |-> d]]]

Later(a, b) == a.wall > b.wall \/ (a.wall = b.wall /\ a.dev > b.dev)

\* An edit may leave the stamp of an earlier entry in force.
Edit(d, r) ==
  /\ UNCHANGED <<known, read, log>>
  /\ ~Later(stamp[d][r], stamp'[d][r])
  /\ \A x \in Devices, y \in Rows :
       x # d \/ y # r => value'[x][y] = value[x][y] /\ stamp'[x][y] = stamp[x][y]

\* Only a device that knows all of its log adds to it.
Publish(d) ==
  /\ known[d] = Len(log[d])
  /\ Len(log'[d]) > Len(log[d])
  /\ \A n \in 1..Len(log[d]) : log'[d][n] = log[d][n]
  /\ \A n \in (Len(log[d]) + 1)..Len(log'[d]) :
       log'[d][n].hlc = [wall |-> log'[d][n].values["updated_at"], dev |-> d]
  /\ \A e \in Devices \ {d} : log'[e] = log[e]
  /\ UNCHANGED <<known, read, value, stamp>>

Learn(d) ==
  /\ known' = [known EXCEPT ![d] = Len(log[d])]
  /\ UNCHANGED <<log, read, value, stamp>>

\* The latest of some entries of one row replaces the row, or none does.
Absorb(d, r, entries) ==
  \/ /\ \A en \in entries : ~Later(en.hlc, stamp[d][r])
     /\ value'[d][r] = value[d][r]
     /\ stamp'[d][r] = stamp[d][r]
  \/ \E en \in entries :
       /\ Later(en.hlc, stamp[d][r])
       /\ \A other \in entries : ~Later(other.hlc, en.hlc)
       /\ value'[d][r] = en.values
       /\ stamp'[d][r] = en.hlc

Read(d, e) ==
  /\ \E n \in (read[d][e] + 1)..Len(log[e]) :
       /\ read' = [read EXCEPT ![d][e] = n]
       /\ \A r \in Rows :
            Absorb(d, r, {log[e][k] : k \in {i \in (read[d][e] + 1)..n : log[e][i].row = r}})
  /\ \A x \in Devices \ {d} : value'[x] = value[x] /\ stamp'[x] = stamp[x]
  /\ UNCHANGED <<log, known>>

Next ==
  \E d \in Devices :
    \/ \E r \in Rows : Edit(d, r)
    \/ Publish(d)
    \/ Learn(d)
    \/ \E e \in Devices \ {d} : Read(d, e)

Spec == Init /\ [][Next]_vars

=============================================================================
