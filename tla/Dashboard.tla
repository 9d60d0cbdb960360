------------------------------ MODULE Dashboard ------------------------------
(***************************************************************************)
(* What the AFK dashboard (cmd/dashboard) shows of the tickets, at any     *)
(* moment of the runs of Dispatch: one call of gh lists the open issues,   *)
(* and their panel, branch and edges follow from that list.  The rows of   *)
(* pull requests and workflow runs, which later calls list, comments and   *)
(* the page's layout are left out.                                         *)
(***************************************************************************)
EXTENDS Dispatch

VARIABLES
  headings,   \* tickets that name their blockers under a heading, not on its line
  failed      \* tickets with afk:failed

dashVars == <<vars, headings, failed>>

Panels == {"failures", "inFlight", "needsReview", "graphOnly"}

DashInit ==
  /\ Init
  /\ headings \in SUBSET {t \in Tickets : blockedBy[t] # {}}
  /\ failed = {}

-----------------------------------------------------------------------------
(* What a ticket is shown as.                                               *)

\* Bug: needs-review is asked for first.
PanelReviewFirst(t) ==
  CASE t \in review -> "needsReview"
    [] t \in failed \ review -> "failures"
    [] t \in running \ (failed \cup review) -> "inFlight"
    [] OTHER -> "graphOnly"

\* The most specific label wins: failed, running, needs-review.
Panel(t) ==
  CASE t \in failed -> "failures"
    [] t \in running \ failed -> "inFlight"
    [] t \in review \ (running \cup failed) -> "needsReview"
    [] OTHER -> "graphOnly"

\* fetchIssues: the open issues with a label of the family.
Nodes == (afk \cup running \cup failed \cup review) \ closed

\* Decide, given the ticket alone: neither its spec nor the branches there are.
ShownBranch(t) ==
  IF Skill(labels[t]) = "none" THEN NoBranch
  ELSE CASE branchLine[t] = "none" -> Derived(t)
         [] branchLine[t] = "own" -> Own(t)
         [] branchLine[t] = "shared" -> Shared

\* blockedBy reads the issues named on the line that says "Blocked by".
Edges == {e \in Nodes \X (Nodes \ headings) : e[1] \in blockedBy[e[2]]}

-----------------------------------------------------------------------------
(* The runs and the people around it.                                       *)

\* The claim also takes afk:failed off, if GitHub answers.
ClaimClears(r) ==
  /\ Claim(r)
  /\ failed' \in {failed, failed \ {runs[r].ticket}}
  /\ UNCHANGED headings

OtherJob(r) ==
  /\ \/ Decides(r) \/ Skips(r) \/ DispatchFails(r) \/ Refuse(r)
     \/ AgentStarts(r) \/ AgentEnds(r) \/ FinalizeStarts(r)
     \/ Push(r) \/ Unclaim(r) \/ Review(r) \/ FinalizeEnds(r)
  /\ UNCHANGED <<headings, failed>>

\* Nothing in the repository puts afk:failed on a ticket: a person does.
MarkFailed(t) ==
  /\ t \notin closed \cup failed
  /\ \E r \in InPhase("failed") : runs[r].ticket = t
  /\ failed' = failed \cup {t}
  /\ UNCHANGED <<vars, headings>>

Person(t) ==
  /\ Label(t) \/ OtherLabel(t) \/ Sweep(t) \/ Close(t)
  /\ UNCHANGED <<headings, failed>>

DashNext ==
  \/ \E r \in DOMAIN runs : ClaimClears(r) \/ OtherJob(r)
  \/ \E t \in Tickets : MarkFailed(t) \/ Person(t)

DashSpec == DashInit /\ [][DashNext]_dashVars

\* Every job that may start does, and ends: a job that hangs is stopped at its time
\* limit.  All that is needed is that one of them does.  Nobody has to label,
\* dispatch, mark or close.
DashFairness == WF_dashVars(\E r \in DOMAIN runs : ClaimClears(r) \/ OtherJob(r))

-----------------------------------------------------------------------------
\* A ticket that a run of its label is at work on, up to its requests to safe_outputs,
\* is in the page's graph and never in its review queue, though labels of earlier runs
\* may be left on it.  (A run by hand beside it may hand it over first.)
WorkIsNotForReview ==
  \A r \in DOMAIN runs :
    LET t == runs[r].ticket IN
    /\ runs[r].phase \in {"waiting", "agent", "parked"}
    /\ t \notin closed
    /\ \A q \in DOMAIN runs : runs[q].ticket = t => runs[q].kind # "manual"
    => t \in Nodes /\ Panel(t) # "needsReview"

\* The branch on the page is the one the run works on (main.go: "the dashboard shows
\* exactly what a run would use").
DashboardNeverDrifts ==
  \A r \in DOMAIN runs :
    runs[r].branch # NoBranch => runs[r].branch = ShownBranch(runs[r].ticket)

\* A ticket whose last run failed after the claim is in the failures panel
\* (system.md: afk:failed "marks a run that failed at some phase").
FailedRunIsShown ==
  \A r \in InPhase("failed") :
    LET t == runs[r].ticket IN
    \/ t \notin running \ closed \/ Panel(t) = "failures"
    \/ \E q \in DOMAIN runs : q > r /\ runs[q].ticket = t

\* The graph draws the blockers the dispatch waits for (render.go: "Blocker must
\* close before Blocked can run").
GraphShowsBlockers ==
  \A t \in Nodes : \A b \in blockedBy[t] \cap Nodes : <<b, t>> \in Edges

=============================================================================
