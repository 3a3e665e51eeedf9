------------------------------ MODULE BlobStore ------------------------------
(***************************************************************************)
(* What staging a PDF promises: the bytes a receipt names stay until the   *)
(* receipt is gone, the bytes a row refers to stay, a receipt is imported  *)
(* at most once, and bytes are noted durably before they are stored and    *)
(* until a row or a collection answers for them, so that a crash loses     *)
(* receipts and nothing else. Pins, reservations, queued operations and    *)
(* transactions are not to be seen.                                        *)
(***************************************************************************)
EXTENDS Naturals, FiniteSets

CONSTANTS
  Hashes, \* content hashes
  Names,  \* names of receipts, free again when the receipt is gone
  HashOf, \* the hash of the bytes behind a name
  Limit   \* receipts at a time

VARIABLES
  bytes,    \* hashes whose bytes are stored
  receipts, \* receipts that can still be imported
  noted,    \* hashes that the next start would look at
  rows,     \* hashes that rows refer to
  erased    \* hashes whose last row was purged, which nobody looks at

vars == <<bytes, receipts, noted, rows, erased>>

Init ==
  /\ bytes = {}
  /\ receipts = {}
  /\ noted = {}
  /\ rows = {}
  /\ erased = {}

Note(h) ==
  /\ noted' = noted \cup {h}
  /\ UNCHANGED <<bytes, receipts, rows, erased>>

Issue(n) ==
  /\ n \notin receipts
  /\ Cardinality(receipts) < Limit
  /\ HashOf[n] \in noted
  /\ bytes' = bytes \cup {HashOf[n]}
  /\ receipts' = receipts \cup {n}
  /\ UNCHANGED <<noted, rows, erased>>

\* A failed write may leave its bytes.
Leave(h) ==
  /\ h \in noted
  /\ bytes' = bytes \cup {h}
  /\ UNCHANGED <<receipts, noted, rows, erased>>

\* A receipt expires or is given back; its bytes stay noted.
Drop(n) ==
  /\ n \in receipts
  /\ HashOf[n] \in noted
  /\ receipts' = receipts \ {n}
  /\ UNCHANGED <<bytes, noted, rows, erased>>

\* The import turns a receipt into a row.
Import(n) ==
  /\ n \in receipts
  /\ receipts' = receipts \ {n}
  /\ rows' = rows \cup {HashOf[n]}
  /\ erased' = erased \ {HashOf[n]}
  /\ UNCHANGED <<bytes, noted>>

\* Synchronization brings a row whose bytes may not be here; a purge takes one.
Pull(h) ==
  /\ rows' = rows \cup {h}
  /\ erased' = erased \ {h}
  /\ UNCHANGED <<bytes, receipts, noted>>

Purge(h) ==
  /\ h \in rows
  /\ rows' = rows \ {h}
  /\ erased' = erased \cup {h}
  /\ UNCHANGED <<bytes, receipts, noted>>

Collect(h) ==
  /\ h \notin rows
  /\ \A n \in receipts : HashOf[n] # h
  /\ bytes' = bytes \ {h}
  /\ UNCHANGED <<receipts, noted, rows, erased>>

\* A note is given up when a row answers for the bytes or there are none.
Forget(h) ==
  /\ h \in bytes => h \in rows \cup erased
  /\ noted' = noted \ {h}
  /\ UNCHANGED <<bytes, receipts, rows, erased>>

Crash ==
  /\ receipts' = {}
  /\ UNCHANGED <<bytes, noted, rows, erased>>

Next ==
  \/ \E n \in Names : Issue(n) \/ Drop(n) \/ Import(n)
  \/ \E h \in Hashes : Note(h) \/ Leave(h) \/ Pull(h) \/ Purge(h) \/ Collect(h) \/ Forget(h)
  \/ Crash

Spec == Init /\ [][Next]_vars

=============================================================================
