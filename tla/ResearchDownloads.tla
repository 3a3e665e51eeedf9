-------------------------- MODULE ResearchDownloads --------------------------
(***************************************************************************)
(* Downloads of the research browser in the main process: the admission of *)
(* a transfer (research-download-inflight.ts), the event handler that      *)
(* settles it (research-download-events.ts), the store of one-time receipts*)
(* (research-download-store.ts) with its cleanup tracker and consume gate, *)
(* the consumer in the renderer (services/research-downloads.ts), the      *)
(* closing and reopening of the window, and recovery after a crash.        *)
(*                                                                         *)
(* A step is what runs between two awaits.  A download's name stands for   *)
(* its stream directory and its receipt; it is free again when both are    *)
(* gone and nobody remembers them.                                         *)
(***************************************************************************)
EXTENDS Integers, FiniteSetsExt

CONSTANTS
  Downloads,
  Size,               \* bytes each download really has
  MaxInFlight,        \* MAX_IN_FLIGHT_RESEARCH_DOWNLOADS
  MaxInFlightBytes,   \* MAX_IN_FLIGHT_RESEARCH_DOWNLOAD_BYTES
  MaxDownloadBytes,   \* MAX_RESEARCH_DOWNLOAD_BYTES
  MaxReceipts,        \* MAX_PENDING_RESEARCH_DOWNLOADS
  MaxPendingBytes,    \* MAX_PENDING_RESEARCH_DOWNLOAD_BYTES
  MaxConsumes,        \* MAX_CONCURRENT_RESEARCH_DOWNLOAD_CONSUMES
  MaxFailures,        \* bound: failed file operations and sends
  MaxCrashes          \* bound: process crashes

ASSUME DownloadAssumption ==
  /\ IsFiniteSet(Downloads)
  /\ Size \in [Downloads -> Nat \ {0}]
  /\ {MaxInFlight, MaxInFlightBytes, MaxDownloadBytes, MaxReceipts, MaxPendingBytes, MaxConsumes}
       \subseteq Nat \ {0}
  /\ {MaxFailures, MaxCrashes} \subseteq Nat

VARIABLES
  app,            \* "recovering", "open" (there is a window) or "closed" (there is none)
  accepting,      \* acceptingRegistrations
  xfer,           \* progress of each transfer
  origin,         \* where it was started: "live", "tabClosed" or "windowClosed"
  permit,         \* bytes its in-flight permit reserves, 0 without a permit
  inFlightBytes,  \* reservedBytes of the in-flight gate
  entry,          \* the receipt: "none", "available" or "claimed"
  pendingBytes,   \* pendingBytes of the store
  leased,         \* reservedPaths, one per registration under way
  active,         \* cleanups under way per path
  failed,         \* tombstones of failed cleanups after a consume
  sweeping,       \* paths that expiry or a window close is deleting
  reading,        \* progress of the consumer of each receipt
  consumers,      \* permits of the consume gate
  inbox,          \* receipts announced to the renderer and not claimed yet
  sweep,          \* what the window close, or recovery, has still to look at
  disk,           \* durable: "none", "dir" (the owned directory) or "payload"
  leaked,         \* history: paths whose cleanup failed
  failures,       \* failures so far
  crashes         \* crashes so far

transfers == <<xfer, origin, permit, inFlightBytes>>
store == <<entry, pendingBytes, leased>>
cleanup == <<active, failed, sweeping>>
consumption == <<reading, consumers, inbox>>
storage == <<disk, leaked>>
bounds == <<failures, crashes>>
vars ==
  <<app, accepting, transfers, store, cleanup, consumption, sweep, storage, bounds>>

-----------------------------------------------------------------------------
Registering == {"reserving", "checking", "dropping"}
Entries == {d \in Downloads : entry[d] # "none"}
Admitted == {d \in Downloads : permit[d] > 0}
Total(bytes, S) == MapThenSumSet(LAMBDA d : bytes[d], S)
Fail == failures < MaxFailures /\ failures' = failures + 1

Init ==
  /\ app = "open"
  /\ accepting = TRUE
  /\ xfer = [d \in Downloads |-> "idle"]
  /\ origin = [d \in Downloads |-> "live"]
  /\ permit = [d \in Downloads |-> 0]
  /\ inFlightBytes = 0
  /\ entry = [d \in Downloads |-> "none"]
  /\ pendingBytes = 0
  /\ leased = {}
  /\ active = [d \in Downloads |-> 0]
  /\ failed = {}
  /\ sweeping = {}
  /\ reading = [d \in Downloads |-> "none"]
  /\ consumers = 0
  /\ inbox = {}
  /\ sweep = {}
  /\ disk = [d \in Downloads |-> "none"]
  /\ leaked = {}
  /\ failures = 0
  /\ crashes = 0

-----------------------------------------------------------------------------
(* The cleanup tracker and discardSafePath.                                *)

Tracked(d) == active[d] > 0 \/ d \in failed
Hold(d) == active' = [active EXCEPT ![d] = @ + 1]

\* settle(path, cleared, retainFailure)
Settle(d, cleared, retain) ==
  /\ active' = [active EXCEPT ![d] = @ - 1]
  /\ failed' = IF cleared THEN failed \ {d} ELSE IF retain THEN failed \cup {d} ELSE failed

Left(d, what) ==
  /\ disk' = [disk EXCEPT ![d] = what]
  /\ leaked' = IF what = "none" THEN leaked \ {d} ELSE leaked \cup {d}

\* discardSafePath removes the payload and then, whatever came of that, the
\* directory, whose failure it swallows: its answer is about the payload alone.
Unlinked(d) == Left(d, "none") /\ UNCHANGED failures
DirectoryKept(d) == disk[d] # "none" /\ Left(d, "dir") /\ Fail
UnlinkFailed(d) == (Left(d, disk[d]) \/ (disk[d] = "dir" /\ Left(d, "none"))) /\ Fail

CleanupEnds(d, retain) ==
  \/ (Unlinked(d) \/ DirectoryKept(d)) /\ Settle(d, TRUE, retain)
  \/ UnlinkFailed(d) /\ Settle(d, FALSE, retain)

Retire(d) ==
  /\ entry' = [entry EXCEPT ![d] = "none"]
  /\ pendingBytes' = pendingBytes - Size[d]

\* discard() by the event handler: nothing to wait for when the path is held
\* by somebody else; an available receipt of the path goes with the file.
Discard(d) ==
  /\ xfer' = [xfer EXCEPT ![d] = IF Tracked(d) \/ d \in leased THEN "settled" ELSE "discarding"]
  /\ IF Tracked(d) \/ d \in leased
       THEN UNCHANGED <<active, entry, pendingBytes>>
       ELSE /\ Hold(d)
            /\ IF entry[d] = "available" THEN Retire(d) ELSE UNCHANGED <<entry, pendingBytes>>

-----------------------------------------------------------------------------
(* The in-flight gate and the events of a DownloadItem.                    *)

ReservationFits(d, bytes) == inFlightBytes - permit[d] + bytes <= MaxInFlightBytes

\* Mutant: a reservation that grows does not give its old bytes back.
ReserveKeepsOld(d, bytes) ==
  /\ permit' = [permit EXCEPT ![d] = bytes]
  /\ inFlightBytes' = inFlightBytes + bytes

Reserve(d, bytes) ==
  /\ permit' = [permit EXCEPT ![d] = bytes]
  /\ inFlightBytes' = inFlightBytes - permit[d] + bytes

Free(d) ==
  /\ xfer[d] = "idle"
  /\ disk[d] = "none"
  /\ ~Tracked(d)
  /\ d \notin sweep \cup Entries \cup inbox \cup leased
  /\ reading[d] = "none"

\* will-download: admitted for the announced length (an unknown length counts
\* as a whole file), and given an owned directory.
WillDownload(d, announced) ==
  /\ app = "open"
  /\ Free(d)
  /\ Cardinality(Admitted) < MaxInFlight
  /\ ReservationFits(d, announced)
  /\ Reserve(d, announced)
  /\ xfer' = [xfer EXCEPT ![d] = "transferring"]
  /\ origin' = [origin EXCEPT ![d] = "live"]
  /\ disk' = [disk EXCEPT ![d] = "dir"]
  /\ UNCHANGED <<app, accepting, store, cleanup, consumption, sweep, leaked, bounds>>

\* updated: more bytes arrive than were reserved; the reservation grows or the
\* transfer is cancelled for good.
Observe(d) ==
  /\ xfer[d] = "transferring"
  /\ permit[d] < Size[d]
  /\ \/ /\ Size[d] <= MaxDownloadBytes
        /\ ReservationFits(d, Size[d])
        /\ Reserve(d, Size[d])
        /\ UNCHANGED xfer
     \/ /\ Size[d] > MaxDownloadBytes \/ ~ReservationFits(d, Size[d])
        /\ xfer' = [xfer EXCEPT ![d] = "cancelling"]
        /\ UNCHANGED <<permit, inFlightBytes>>
  /\ UNCHANGED <<app, accepting, origin, store, cleanup, consumption, sweep, storage, bounds>>

\* The checks register() makes before its first await.
MayRegister(d) ==
  /\ accepting
  /\ Cardinality(Entries) + Cardinality(leased) < MaxReceipts
  /\ d \notin leased
  /\ ~Tracked(d)

\* done, completed, from a tab that still exists: register() reserves.
DoneCompleted(d) ==
  /\ xfer[d] = "transferring"
  /\ permit[d] >= Size[d]
  /\ origin[d] = "live"
  /\ disk' = [disk EXCEPT ![d] = "payload"]
  /\ IF MayRegister(d)
       THEN /\ xfer' = [xfer EXCEPT ![d] = "reserving"]
            /\ leased' = leased \cup {d}
            /\ UNCHANGED <<active, entry, pendingBytes>>
       ELSE /\ Discard(d)
            /\ UNCHANGED leased
  /\ UNCHANGED <<app, accepting, origin, permit, inFlightBytes, failed, sweeping, consumption,
                 sweep, leaked, bounds>>

\* Mutant: a transfer that did not complete has nothing to clean up.
DoneFailedKeepsFile(d) ==
  /\ xfer[d] \in {"transferring", "cancelling"}
  /\ \E left \in {"dir", "payload"} : disk' = [disk EXCEPT ![d] = left]
  /\ xfer' = [xfer EXCEPT ![d] = "settled"]
  /\ UNCHANGED <<app, accepting, origin, permit, inFlightBytes, store, cleanup, consumption,
                 sweep, leaked, bounds>>

\* done, interrupted or cancelled or from a tab that is gone: finishFailure().
DoneFailed(d) ==
  /\ xfer[d] \in {"transferring", "cancelling"}
  /\ \E left \in {"dir", "payload"} : disk' = [disk EXCEPT ![d] = left]
  /\ Discard(d)
  /\ UNCHANGED <<app, accepting, origin, permit, inFlightBytes, leased, failed, sweeping,
                 consumption, sweep, leaked, bounds>>

\* The cleanup of a discard ends.
Discarded(d) ==
  /\ xfer[d] = "discarding"
  /\ CleanupEnds(d, FALSE)
  /\ xfer' = [xfer EXCEPT ![d] = "settled"]
  /\ UNCHANGED <<app, accepting, origin, permit, inFlightBytes, store, sweeping, consumption,
                 sweep, crashes>>

\* admission.release() after the terminal cleanup.
Release(d) ==
  /\ xfer[d] = "settled"
  /\ xfer' = [xfer EXCEPT ![d] = "idle"]
  /\ Reserve(d, 0)
  /\ UNCHANGED <<app, accepting, origin, store, cleanup, consumption, sweep, storage, bounds>>

-----------------------------------------------------------------------------
(* register() after its reservation.                                       *)

StillAccepting == accepting

\* The registration is refused: the file is discarded under the lease.
Drop(d) ==
  /\ xfer' = [xfer EXCEPT ![d] = "dropping"]
  /\ Hold(d)

RegisterPurged(d) ==
  /\ xfer[d] = "reserving"
  /\ IF StillAccepting
       THEN xfer' = [xfer EXCEPT ![d] = "checking"] /\ UNCHANGED active
       ELSE Drop(d)
  /\ UNCHANGED <<app, accepting, origin, permit, inFlightBytes, store, failed, sweeping,
                 consumption, sweep, storage, bounds>>

\* Mutant: the byte quota is checked before the first await only.
QuotaIgnored(d) == Size[d] <= MaxPendingBytes

FitsQuota(d) == pendingBytes + Size[d] <= MaxPendingBytes

RegisterEntry(d) ==
  /\ xfer[d] = "checking"
  /\ StillAccepting
  /\ FitsQuota(d)
  /\ entry' = [entry EXCEPT ![d] = "available"]
  /\ pendingBytes' = pendingBytes + Size[d]
  /\ leased' = leased \ {d}
  /\ xfer' = [xfer EXCEPT ![d] = "announcing"]
  /\ UNCHANGED <<app, accepting, origin, permit, inFlightBytes, cleanup, consumption, sweep,
                 storage, bounds>>

RegisterRefused(d) ==
  /\ xfer[d] = "checking"
  /\ IF StillAccepting /\ FitsQuota(d) THEN Fail ELSE UNCHANGED failures
  /\ Drop(d)
  /\ UNCHANGED <<app, accepting, origin, permit, inFlightBytes, store, failed, sweeping,
                 consumption, sweep, storage, crashes>>

\* The lease ends with the cleanup; the event handler then discards once more.
Dropped(d) ==
  /\ xfer[d] = "dropping"
  /\ CleanupEnds(d, FALSE)
  /\ leased' = leased \ {d}
  /\ xfer' = [xfer EXCEPT ![d] = "rejected"]
  /\ UNCHANGED <<app, accepting, origin, permit, inFlightBytes, entry, pendingBytes, sweeping,
                 consumption, sweep, crashes>>

Rejected(d) ==
  /\ xfer[d] = "rejected"
  /\ Discard(d)
  /\ UNCHANGED <<app, accepting, origin, permit, inFlightBytes, leased, failed, sweeping,
                 consumption, sweep, storage, bounds>>

\* Mutant: any window will do, also one that opened meanwhile.
OriginIgnored(d) == d \in Downloads

OriginLive(d) == origin[d] = "live"

\* Mutant: success does not come back to release the admission.
AnnounceKeepsPermit(d) ==
  /\ xfer[d] = "announcing"
  /\ OriginLive(d)
  /\ inbox' = inbox \cup {d}
  /\ xfer' = [xfer EXCEPT ![d] = "idle"]
  /\ UNCHANGED <<app, accepting, origin, permit, inFlightBytes, store, cleanup, reading,
                 consumers, sweep, storage, bounds>>

\* The receipt is announced to the window that started the download.
Announce(d) ==
  /\ xfer[d] = "announcing"
  /\ OriginLive(d)
  /\ inbox' = inbox \cup {d}
  /\ xfer' = [xfer EXCEPT ![d] = "settled"]
  /\ UNCHANGED <<app, accepting, origin, permit, inFlightBytes, store, cleanup, reading,
                 consumers, sweep, storage, bounds>>

\* The tab or the window is gone, or the message cannot be sent.
AnnounceFails(d) ==
  /\ xfer[d] = "announcing"
  /\ IF OriginLive(d) THEN Fail ELSE UNCHANGED failures
  /\ Discard(d)
  /\ UNCHANGED <<app, accepting, origin, permit, inFlightBytes, leased, failed, sweeping,
                 consumption, sweep, storage, crashes>>

-----------------------------------------------------------------------------
(* consume().                                                              *)

GateOpen == consumers < MaxConsumes

\* After purgeExpired(), claimed in one step before the next await.
ClaimReceipt(d) ==
  /\ d \in inbox
  /\ entry[d] = "available"
  /\ GateOpen
  /\ inbox' = inbox \ {d}
  /\ entry' = [entry EXCEPT ![d] = "claimed"]
  /\ consumers' = consumers + 1
  /\ reading' = [reading EXCEPT ![d] = "validating"]
  /\ UNCHANGED <<app, accepting, transfers, pendingBytes, leased, cleanup, sweep, storage, bounds>>

\* The receipt is gone, or another consumer holds the gate.
ClaimRefused(d) ==
  /\ d \in inbox
  /\ entry[d] # "available" \/ ~GateOpen
  /\ inbox' = inbox \ {d}
  /\ UNCHANGED <<app, accepting, transfers, store, cleanup, reading, consumers, sweep, storage,
                 bounds>>

\* Validated, opened and unlinked: the bytes are held by the descriptor.
UnlinkOpened(d) ==
  /\ reading[d] = "validating"
  /\ disk[d] = "payload"
  /\ disk' = [disk EXCEPT ![d] = "dir"]
  /\ reading' = [reading EXCEPT ![d] = "reading"]
  /\ UNCHANGED <<app, accepting, transfers, store, cleanup, consumers, inbox, sweep, leaked, bounds>>

\* The path is held before its receipt goes.
ValidateFails(d) ==
  /\ reading[d] = "validating"
  /\ IF disk[d] = "payload" THEN Fail ELSE UNCHANGED failures
  /\ Hold(d)
  /\ Retire(d)
  /\ reading' = [reading EXCEPT ![d] = "cleaning"]
  /\ UNCHANGED <<app, accepting, transfers, leased, failed, sweeping, consumers, inbox, sweep,
                 storage, crashes>>

\* Read, or failed to read: either way the receipt is gone.
ReadDone(d) ==
  /\ reading[d] = "reading"
  /\ Retire(d)
  /\ reading' = [reading EXCEPT ![d] = "closing"]
  /\ UNCHANGED <<app, accepting, transfers, leased, cleanup, consumers, inbox, sweep, storage,
                 bounds>>

ConsumeEnds(d) ==
  /\ reading' = [reading EXCEPT ![d] = "none"]
  /\ consumers' = consumers - 1

\* Mutant: the unlinked payload's directory is forgotten.
ClosedOnly(d) ==
  /\ reading[d] = "closing"
  /\ ConsumeEnds(d)
  /\ UNCHANGED <<app, accepting, transfers, store, cleanup, inbox, sweep, storage, bounds>>

Closed(d) ==
  /\ reading[d] = "closing"
  /\ Unlinked(d) \/ DirectoryKept(d)
  /\ ConsumeEnds(d)
  /\ UNCHANGED <<app, accepting, transfers, store, cleanup, inbox, sweep, crashes>>

Cleaned(d) ==
  /\ reading[d] = "cleaning"
  /\ CleanupEnds(d, TRUE)
  /\ ConsumeEnds(d)
  /\ UNCHANGED <<app, accepting, transfers, store, sweeping, inbox, sweep, crashes>>

-----------------------------------------------------------------------------
(* Expiry, tabs, windows, crash and recovery.                              *)

\* Mutant: a claimed receipt expires like any other.
SweepableClaimed(d) == entry[d] # "none" /\ d \notin leased

Sweepable(d) == entry[d] = "available" /\ d \notin leased

SweepPath(d) ==
  /\ Retire(d)
  /\ Hold(d)
  /\ sweeping' = sweeping \cup {d}

\* purgeExpired(): thirty minutes after registration.
Expire(d) ==
  /\ Sweepable(d)
  /\ SweepPath(d)
  /\ UNCHANGED <<app, accepting, transfers, leased, failed, consumption, sweep, storage, bounds>>

\* clearStore() comes to the next receipt of its snapshot.
SweepNext(d) ==
  /\ app # "recovering"
  /\ d \in sweep
  /\ sweep' = sweep \ {d}
  /\ IF Sweepable(d) THEN SweepPath(d) ELSE UNCHANGED <<entry, pendingBytes, active, sweeping>>
  /\ UNCHANGED <<app, accepting, transfers, leased, failed, consumption, storage, bounds>>

Swept(d) ==
  /\ d \in sweeping
  /\ sweeping' = sweeping \ {d}
  /\ CleanupEnds(d, FALSE)
  /\ UNCHANGED <<app, accepting, transfers, store, consumption, sweep, crashes>>

CloseTab(d) ==
  /\ xfer[d] # "idle"
  /\ origin[d] = "live"
  /\ origin' = [origin EXCEPT ![d] = "tabClosed"]
  /\ UNCHANGED <<app, accepting, xfer, permit, inFlightBytes, store, cleanup, consumption, sweep,
                 storage, bounds>>

\* shutdown(): no registration from here, and a snapshot of the receipts to sweep.
\* A consume() that waits in purgeExpired() may still claim its receipt.
CloseWindow ==
  /\ app = "open"
  /\ app' = "closed"
  /\ accepting' = FALSE
  /\ origin' = [d \in Downloads |-> "windowClosed"]
  /\ inbox' \in SUBSET inbox
  /\ sweep' = sweep \cup Entries
  /\ UNCHANGED <<xfer, permit, inFlightBytes, store, cleanup, reading, consumers, storage, bounds>>

\* reopen(): an older window's sweep may still be running.
OpenWindow ==
  /\ app = "closed"
  /\ app' = "open"
  /\ accepting' = TRUE
  /\ UNCHANGED <<transfers, store, cleanup, consumption, sweep, storage, bounds>>

Crash ==
  /\ app # "recovering"
  /\ crashes < MaxCrashes
  /\ crashes' = crashes + 1
  /\ app' = "recovering"
  /\ accepting' = TRUE
  /\ xfer' = [d \in Downloads |-> "idle"]
  /\ origin' = [d \in Downloads |-> "live"]
  /\ permit' = [d \in Downloads |-> 0]
  /\ inFlightBytes' = 0
  /\ entry' = [d \in Downloads |-> "none"]
  /\ pendingBytes' = 0
  /\ leased' = {}
  /\ active' = [d \in Downloads |-> 0]
  /\ failed' = {}
  /\ sweeping' = {}
  /\ reading' = [d \in Downloads |-> "none"]
  /\ consumers' = 0
  /\ inbox' = {}
  /\ sweep' = {d \in Downloads : disk[d] # "none"}
  /\ UNCHANGED <<storage, failures>>

\* recover(): every safe leftover is deleted before a window is created.
RecoverPath(d) ==
  /\ app = "recovering"
  /\ d \in sweep
  /\ sweep' = sweep \ {d}
  /\ Unlinked(d) \/ DirectoryKept(d) \/ UnlinkFailed(d)
  /\ UNCHANGED <<app, accepting, transfers, store, cleanup, consumption, crashes>>

RecoveryDone ==
  /\ app = "recovering"
  /\ sweep = {}
  /\ app' = "open"
  /\ UNCHANGED <<accepting, transfers, store, cleanup, consumption, sweep, storage, bounds>>

-----------------------------------------------------------------------------
\* Steps that wait for nobody outside the process.
Progress(d) ==
  \/ Discarded(d) \/ Release(d)
  \/ RegisterPurged(d) \/ RegisterEntry(d) \/ RegisterRefused(d) \/ Dropped(d) \/ Rejected(d)
  \/ Announce(d) \/ AnnounceFails(d)
  \/ UnlinkOpened(d) \/ ValidateFails(d) \/ ReadDone(d) \/ Closed(d) \/ Cleaned(d)

Next ==
  \/ \E d \in Downloads :
       \/ \E announced \in 1 .. MaxDownloadBytes : WillDownload(d, announced)
       \/ Observe(d) \/ DoneCompleted(d) \/ DoneFailed(d)
       \/ Progress(d)
       \/ ClaimReceipt(d) \/ ClaimRefused(d)
       \/ Expire(d) \/ SweepNext(d) \/ Swept(d)
       \/ CloseTab(d)
       \/ RecoverPath(d)
  \/ CloseWindow
  \/ OpenWindow
  \/ Crash
  \/ RecoveryDone

Spec == Init /\ [][Next]_vars

\* Promises settle, Electron ends every transfer with a done event, and the
\* expiry timer fires.  Nobody has to consume a receipt or close a window.
Fairness ==
  /\ WF_vars(RecoveryDone)
  /\ \A d \in Downloads :
       /\ WF_vars(DoneFailed(d) \/ DoneCompleted(d))
       /\ WF_vars(Progress(d))
       /\ WF_vars(Expire(d))
       /\ WF_vars(SweepNext(d))
       /\ WF_vars(Swept(d))
       /\ WF_vars(RecoverPath(d))

FairSpec == Spec /\ Fairness

-----------------------------------------------------------------------------
(* Properties.                                                             *)

Domains ==
  /\ app \in {"recovering", "open", "closed"}
  /\ accepting \in BOOLEAN
  /\ xfer \in [Downloads -> {"idle", "transferring", "cancelling", "announcing", "rejected",
                             "discarding", "settled"} \cup Registering]
  /\ origin \in [Downloads -> {"live", "tabClosed", "windowClosed"}]
  /\ permit \in [Downloads -> 0 .. MaxDownloadBytes]
  /\ entry \in [Downloads -> {"none", "available", "claimed"}]
  /\ active \in [Downloads -> Nat]
  /\ reading \in [Downloads -> {"none", "validating", "reading", "closing", "cleaning"}]
  /\ disk \in [Downloads -> {"none", "dir", "payload"}]
  /\ {leased, failed, sweeping, inbox, sweep, leaked} \subseteq SUBSET Downloads
  /\ failures \in 0 .. MaxFailures
  /\ crashes \in 0 .. MaxCrashes

\* Every variable stays in its domain: in particular no byte account leaves
\* the range its limit allows, and no cleanup or consumer is counted off twice.
TypeOK ==
  /\ Domains
  /\ inFlightBytes \in 0 .. MaxInFlightBytes
  /\ pendingBytes \in 0 .. MaxPendingBytes
  /\ consumers \in 0 .. MaxConsumes

\* The limits hold with everything in flight counted, and every account equals
\* what it accounts for: a permit is returned once and not before the transfer's
\* terminal cleanup, a reservation ends with its registration, a receipt's bytes
\* with the receipt, the consumer's permit with the consumer.
AccountsBalance ==
  /\ Cardinality(Entries) + Cardinality(leased) <= MaxReceipts
  /\ Cardinality(Admitted) <= MaxInFlight
  /\ inFlightBytes = Total(permit, Downloads)
  /\ pendingBytes = Total(Size, Entries)
  /\ consumers = Cardinality({d \in Downloads : reading[d] # "none"})
  /\ leased = {d \in Downloads : xfer[d] \in Registering}
  /\ \A d \in Downloads : permit[d] = 0 <=> xfer[d] = "idle"

\* Nobody cleans a path up under the consumer that claimed its receipt: the
\* payload is there until the consumer itself unlinks it.
ConsumerUndisturbed ==
  \A d \in Downloads :
    reading[d] = "validating" =>
      /\ entry[d] = "claimed"
      /\ disk[d] = "payload"
      /\ ~Tracked(d)

\* Every file has an owner who will delete it: a transfer, a receipt, a cleanup,
\* a consumer or recovery.  Only a cleanup that failed leaves one behind.
FilesOwned ==
  \A d \in Downloads :
    disk[d] # "none" =>
      \/ xfer[d] \notin {"idle", "settled"}
      \/ d \in Entries
      \/ active[d] > 0
      \/ reading[d] # "none"
      \/ d \in leaked
      \/ app = "recovering" /\ d \in sweep

\* A receipt whose window is closed is about to be swept or refused by its
\* registration: a window that opens meanwhile does not bring it back to life.
StaleReceiptsSwept ==
  \A d \in Downloads :
    entry[d] = "available" /\ origin[d] = "windowClosed" =>
      d \in sweep \/ xfer[d] = "announcing"

\* Every transfer that was admitted returns its permit, failures or not.
PermitsReturned == \A d \in Downloads : permit[d] > 0 ~> permit[d] = 0

\* Without a failure, whatever a download leaves on disk is deleted.
PathsReclaimed == \A d \in Downloads : disk[d] # "none" ~> disk[d] = "none" \/ failures > 0

=============================================================================
