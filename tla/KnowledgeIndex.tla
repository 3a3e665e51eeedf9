--------------------------- MODULE KnowledgeIndex ---------------------------
(***************************************************************************)
(* What the Knowledge queue promises to those who read its units: the      *)
(* units of a source are refreshed in one step from the source as it is at *)
(* that moment, only while a change of it is not settled, and a change is  *)
(* settled only when they agree. Leases, attempts, workers and what they   *)
(* remember of a source are not to be seen.                                *)
(***************************************************************************)
EXTENDS Naturals

CONSTANTS
  Sources

VARIABLES
  wanted,  \* the version whose units a source calls for, 0 for none
  units,   \* the version whose units are stored, 0 for none
  settled  \* the newest change of the source was carried out

vars == <<wanted, units, settled>>

Init ==
  /\ wanted \in [Sources -> Nat]
  /\ units = [s \in Sources |-> 0]
  /\ settled = [s \in Sources |-> FALSE]

\* Sources are edited, or asked to be indexed anew.
Change(group) ==
  /\ \A s \in Sources \ group : wanted'[s] = wanted[s] /\ settled'[s] = settled[s]
  /\ \A s \in group : wanted'[s] \in Nat /\ ~settled'[s]
  /\ UNCHANGED units

Refresh(s) ==
  /\ ~settled[s]
  /\ units' = [units EXCEPT ![s] = wanted[s]]
  /\ UNCHANGED <<wanted, settled>>

Settle(s) ==
  /\ units[s] = wanted[s]
  /\ settled' = [settled EXCEPT ![s] = TRUE]
  /\ UNCHANGED <<wanted, units>>

Next ==
  \/ \E group \in SUBSET Sources : Change(group)
  \/ \E s \in Sources : Refresh(s) \/ Settle(s)

Spec == Init /\ [][Next]_vars

=============================================================================
