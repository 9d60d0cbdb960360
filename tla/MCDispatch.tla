----------------------------- MODULE MCDispatch -----------------------------
(* Dashboard, and Dispatch under it, for TLC. *)
EXTENDS Dashboard

\* The tickets that are tried: one that others may wait for is cleared for the agent,
\* and one that may be blocked is: since a blocker's state may be unreadable, it can
\* do all that an unblocked one can.
TriedInit ==
  /\ DashInit
  /\ \A t \in Blockers : labels[t] = {"task"}
  /\ \A t \in Tickets : blockedBy[t] = Blockers \ {t}
  /\ headings = {}

TriedSpec == TriedInit /\ [][DashNext]_dashVars /\ DashFairness

=============================================================================
