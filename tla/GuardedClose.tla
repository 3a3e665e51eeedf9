---------------------------- MODULE GuardedClose ----------------------------
(***************************************************************************)
(* What closing the window promises to the user: the window goes away only *)
(* in answer to a request, after a decision of its own about it, with the  *)
(* document saved or at the user's risk. Processes, messages, timers,      *)
(* dialogs, barriers and permits are not to be seen.                       *)
(***************************************************************************)
EXTENDS Naturals

VARIABLES
  phase,    \* what is happening to the window
  request,  \* requests made so far
  intent,   \* what the request in progress is for
  decision, \* what was decided about it
  saved     \* the document is the persisted one

vars == <<phase, request, intent, decision, saved>>

Init ==
  /\ phase = "open"
  /\ request = 0
  /\ intent = "none"
  /\ decision = "none"
  /\ saved = TRUE

\* The user closes the window or quits the application; a quit may join a
\* close in progress.
Ask ==
  /\ phase = "open"
  /\ phase' = "asked"
  /\ request' = request + 1
  /\ intent' \in {"window", "quit"}
  /\ UNCHANGED <<decision, saved>>

Upgrade ==
  /\ phase \in {"asked", "granted", "leaving"}
  /\ intent = "window"
  /\ intent' = "quit"
  /\ UNCHANGED <<phase, request, decision, saved>>

\* The document was saved, or the user does without.
Grant(choice) ==
  /\ phase = "asked"
  /\ choice = "ready" => saved
  /\ phase' = "granted"
  /\ decision' = choice
  /\ UNCHANGED <<request, intent, saved>>

\* Nothing is left of a request that did not close the window.
BackToWork ==
  /\ phase' = "open"
  /\ intent' = "none"
  /\ decision' = "none"
  /\ UNCHANGED <<request, saved>>

Refuse == phase = "asked" /\ BackToWork

Leave ==
  /\ phase = "granted"
  /\ phase' = "leaving"
  /\ UNCHANGED <<request, intent, decision, saved>>

\* A page may still object, but not to the user's force.
Veto == phase = "leaving" /\ decision # "force" /\ BackToWork

Close ==
  /\ phase = "leaving"
  /\ saved \/ decision = "force"
  /\ phase' = "closed"
  /\ intent' = "none"
  /\ decision' = "none"
  /\ UNCHANGED <<request, saved>>

\* The document takes no change once it counts as saved for an exit.
Edit ==
  /\ phase # "closed" /\ decision # "ready"
  /\ saved' = FALSE
  /\ UNCHANGED <<phase, request, intent, decision>>

Save ==
  /\ phase # "closed"
  /\ saved' = TRUE
  /\ UNCHANGED <<phase, request, intent, decision>>

Next ==
  \/ Ask \/ Upgrade \/ Refuse
  \/ \E choice \in {"ready", "force"} : Grant(choice)
  \/ Leave \/ Veto \/ Close
  \/ Edit \/ Save

Spec == Init /\ [][Next]_vars

=============================================================================
