----------------------------- MODULE EventInbox -----------------------------
(***************************************************************************)
(* What an inbox for events delivered at least once promises: an event is  *)
(* claimed once, and what was claimed takes effect once or is lost.        *)
(***************************************************************************)
CONSTANT Event

VARIABLE outcome   \* outcome[e]: what has become of event e

Outcome == {"new", "claimed", "applied", "lost"}

InboxInit == outcome = [e \in Event |-> "new"]

Become(e, from, to) ==
  /\ outcome[e] = from
  /\ outcome' = [outcome EXCEPT ![e] = to]

Claim(e) == Become(e, "new", "claimed")

Take(e) == Become(e, "claimed", "applied")

Lose(e) == Become(e, "claimed", "lost")

InboxNext == \E e \in Event : Claim(e) \/ Take(e) \/ Lose(e)

InboxSpec == InboxInit /\ [][InboxNext]_outcome

\* What was claimed is not left in between.
InboxFairSpec == InboxSpec /\ \A e \in Event : WF_outcome(Take(e) \/ Lose(e))
=============================================================================
