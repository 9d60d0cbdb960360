------------------------------- MODULE Dispatch -------------------------------
(***************************************************************************)
(* The AFK dispatch: the decision of internal/afk, and the runs of the     *)
(* workflow .github/workflows/afk.md that act on it, over the tickets of   *)
(* at most one parent spec.  Labels and branches live on GitHub; a run is  *)
(* a row of jobs, each on a machine of its own.                            *)
(***************************************************************************)
EXTENDS Integers, FiniteSets

CONSTANTS
  Tickets,
  LabelSets,            \* the wayfinder labels a ticket may carry
  Parents,              \* may a ticket be part of the spec: a subset of BOOLEAN
  BranchLines,          \* what its "Branch:" line may name
  Blockers,             \* the tickets others may be blocked by
  MaxRuns, MaxSweeps    \* bounds: workflow runs, manual ones among them

ASSUME DispatchAssumption ==
  /\ \A labels \in LabelSets : IsFiniteSet(labels)
  /\ Parents \subseteq BOOLEAN /\ Blockers \subseteq Tickets
  /\ BranchLines \subseteq {"none", "own", "shared"}
  /\ MaxRuns \in Nat /\ MaxSweeps \in Nat

Declared == <<"spec", "declared">>   \* the parent's Branch: line
Shared == <<"spec", "derived">>      \* afk/<parent>-<slug>
Own(t) == <<t, "declared">>          \* the ticket's Branch: line
Derived(t) == <<t, "derived">>       \* afk/<ticket>-<slug>
Branches == {Declared, Shared} \cup (Tickets \X {"declared", "derived"})
NoBranch == <<"none", "none">>

VARIABLES
  labels, hasParent, branchLine, blockedBy,   \* what the tickets say
  specDeclares,                               \* the parent has a Branch: line
  closed,                       \* tickets closed
  afk, running, review,         \* tickets with that label
  refused,                      \* history: tickets handed back
  branches,                     \* on the remote
  runs, sweeps                  \* run id -> its state; manual runs so far

tickets == <<labels, hasParent, branchLine, blockedBy, specDeclares>>
github == <<closed, afk, running, review, refused, branches>>
vars == <<tickets, github, runs, sweeps>>

Phases == {"queued", "claiming", "refusing", "waiting", "agent", "parked",
           "finalizing", "done", "failed", "cancelled"}

\* What starts a run: the afk label, another label, or a person by hand.
Kinds == {"label", "other", "manual"}

TypeOK ==
  /\ labels \in [Tickets -> LabelSets] /\ hasParent \in [Tickets -> Parents]
  /\ branchLine \in [Tickets -> BranchLines]
  /\ blockedBy \in [Tickets -> SUBSET Blockers] /\ specDeclares \in BOOLEAN
  /\ closed \subseteq Tickets /\ afk \subseteq Tickets
  /\ running \subseteq Tickets /\ review \subseteq Tickets /\ refused \subseteq Tickets
  /\ branches \subseteq Branches
  /\ DOMAIN runs \in {1..n : n \in 0..MaxRuns}
  /\ \A r \in DOMAIN runs :
       /\ runs[r] \in [ticket : Tickets, kind : Kinds, phase : Phases,
                       branch : Branches \cup {NoBranch}]
       /\ runs[r].phase \in {"claiming", "waiting", "agent", "parked", "finalizing"}
            => runs[r].branch # NoBranch
       /\ runs[r].phase = "queued" => runs[r].branch = NoBranch
  /\ sweeps \in 0..MaxSweeps

Init ==
  /\ labels \in [Tickets -> LabelSets] /\ hasParent \in [Tickets -> Parents]
  /\ branchLine \in [Tickets -> BranchLines]
  /\ blockedBy \in [Tickets -> SUBSET Blockers]
  /\ \A t \in Tickets : t \notin blockedBy[t]
  /\ specDeclares \in {\E t \in Tickets : hasParent[t], FALSE}
  /\ closed = {} /\ afk = {} /\ running = {} /\ review = {} /\ refused = {}
  /\ branches = {}
  /\ runs = <<>> /\ sweeps = 0

-----------------------------------------------------------------------------
(* Decide.                                                                  *)

\* deriveSkill: "none" for work that needs a human, an unknown label or two.
Skill(wayfinders) ==
  CASE wayfinders \in {{}, {"task"}} -> "implement"
    [] wayfinders = {"research"} -> "research"
    [] OTHER -> "none"

\* resolveBranch: the ladder, its first rung that matches.
ResolveBranch(t) ==
  CASE hasParent[t] /\ specDeclares -> Declared
    [] hasParent[t] /\ ~specDeclares /\ Shared \in branches -> Shared
    [] OTHER -> CASE branchLine[t] = "own" -> Own(t)
                  [] branchLine[t] = "shared" -> Shared
                  [] branchLine[t] = "none" -> Derived(t)

\* Refuse comes before skip, skip before run.
Decide(t, openBlockers) ==
  CASE Skill(labels[t]) = "none" -> "refuse"
    [] Skill(labels[t]) # "none" /\ openBlockers # {} -> "skip"
    [] OTHER -> "run"

-----------------------------------------------------------------------------
(* The workflow.                                                            *)

Goes(r, phase) == runs' = [runs EXCEPT ![r].phase = phase]

\* Past the per-issue group, and not ended.
Active(r) == runs[r].phase \in
  {"claiming", "refusing", "waiting", "agent", "parked", "finalizing"}

\* The group of a run is its issue's number, or its own id for a manual run.
SameGroup(q, r) ==
  /\ q # r /\ runs[q].ticket = runs[r].ticket
  /\ runs[q].kind # "manual" /\ runs[r].kind # "manual"

\* Bug: a run that failed keeps its group.
IssueFreeUnlessFailed(r) ==
  \A q \in DOMAIN runs : SameGroup(q, r) =>
    /\ ~Active(q) /\ runs[q].phase # "failed"
    /\ runs[q].phase = "queued" => r < q

\* The run has its group: no other is at work in it, and none came before.
IssueFree(r) ==
  \A q \in DOMAIN runs : SameGroup(q, r) =>
    ~Active(q) /\ (runs[q].phase = "queued" => r < q)

\* A new run.  The one that waits for the issue's group is cancelled by the next.
Starts(t, kind) ==
  LET n == Cardinality(DOMAIN runs) + 1
      new == [ticket |-> t, kind |-> kind, phase |-> "queued", branch |-> NoBranch]
      Superseded(r) == /\ runs[r].ticket = t /\ "manual" \notin {kind, runs[r].kind}
                       /\ runs[r].phase = "queued" /\ ~IssueFree(r)
  IN  /\ n <= MaxRuns
      /\ runs' = [r \in 1..n |->
                    IF r = n THEN new
                    ELSE IF Superseded(r) THEN [runs[r] EXCEPT !.phase = "cancelled"]
                    ELSE runs[r]]

\* A maintainer puts the afk label on an open ticket.
Label(t) ==
  /\ t \notin closed \cup afk
  /\ Starts(t, "label")
  /\ afk' = afk \cup {t} /\ refused' = refused \ {t}
  /\ UNCHANGED <<tickets, closed, running, review, branches, sweeps>>

\* Any other label starts a run too: its name is only asked for by the jobs.
OtherLabel(t) ==
  /\ t \notin closed
  /\ Starts(t, "other")
  /\ UNCHANGED <<tickets, github, sweeps>>

\* workflow_dispatch, with the number of a ticket.
Sweep(t) ==
  /\ t \notin closed /\ sweeps < MaxSweeps
  /\ sweeps' = sweeps + 1
  /\ Starts(t, "manual")
  /\ UNCHANGED <<tickets, github>>

\* Bug: the claim is only kept from a refusal.
PhaseSkipClaims(decision) == IF decision = "refuse" THEN "refusing" ELSE "claiming"

Phase(decision) ==
  CASE decision = "run" -> "claiming"
    [] decision = "refuse" -> "refusing"
    [] decision = "skip" -> "done"

\* The dispatch job reads the issue, its spec, the branches and the blockers.  A
\* blocker whose state cannot be read is not counted as open.
Decides(r) ==
  /\ runs[r].kind # "other" /\ runs[r].phase = "queued" /\ IssueFree(r)
  /\ LET t == runs[r].ticket IN
     \E openBlockers \in SUBSET (blockedBy[t] \ closed) :
       LET decision == Decide(t, openBlockers) IN
       runs' = [runs EXCEPT ![r].phase = Phase(decision),
                  ![r].branch = IF decision = "run" THEN ResolveBranch(t) ELSE NoBranch]
  /\ UNCHANGED <<tickets, github, sweeps>>

\* The run of another label: every job is skipped.
Skips(r) ==
  /\ runs[r].kind = "other" /\ runs[r].phase = "queued" /\ IssueFree(r)
  /\ Goes(r, "done")
  /\ UNCHANGED <<tickets, github, sweeps>>

\* set -e: the issue cannot be read, or the first label not be changed.
DispatchFails(r) ==
  /\ \/ runs[r].kind # "other" /\ runs[r].phase = "queued" /\ IssueFree(r)
     \/ runs[r].phase = "claiming"
  /\ Goes(r, "failed")
  /\ UNCHANGED <<tickets, github, sweeps>>

InPhase(phase) == {r \in DOMAIN runs : runs[r].phase = phase}

\* A concurrency group has one place to run and one to wait: a job that comes to
\* wait cancels the one that waited (GitHub's default).
Joins(r, place, line) ==
  IF InPhase(place) = {}
  THEN InPhase(line) = {} /\ Goes(r, place)
  ELSE runs' = [q \in DOMAIN runs |->
                  IF q = r THEN [runs[q] EXCEPT !.phase = line]
                  ELSE IF runs[q].phase = line
                  THEN [runs[q] EXCEPT !.phase = "cancelled"]
                  ELSE runs[q]]

Leaves(r, line, place) ==
  /\ runs[r].phase = line /\ InPhase(place) = {}
  /\ Goes(r, place)

\* The activation job after the claim lets the agent through, or fails, or finds the
\* day's credits spent: then the agent's job is skipped, and the run ends well.
Activates(r) == Joins(r, "agent", "waiting") \/ \E end \in {"failed", "done"} : Goes(r, end)

\* Bug: afk is taken off and no afk:running put in its place.
ClaimUnmarked(r) ==
  /\ runs[r].phase = "claiming"
  /\ running' = running /\ afk' = afk \ {runs[r].ticket}
  /\ review' = review \ {runs[r].ticket}
  /\ Activates(r)
  /\ UNCHANGED <<tickets, closed, refused, branches, sweeps>>

\* afk becomes afk:running; a stale terminal label goes, if GitHub answers.
Claim(r) ==
  /\ runs[r].phase = "claiming"
  /\ running' = running \cup {runs[r].ticket} /\ afk' = afk \ {runs[r].ticket}
  /\ review' \in {review, review \ {runs[r].ticket}}
  /\ Activates(r)
  /\ UNCHANGED <<tickets, closed, refused, branches, sweeps>>

\* afk is stripped, if GitHub answers, and the reason commented: when that fails, the
\* job does.
Refuse(r) ==
  LET t == runs[r].ticket IN
  /\ runs[r].phase = "refusing"
  /\ afk' \in {afk, afk \ {t}}
  /\ \/ refused' = refused \cup {t} /\ Goes(r, "done")
     \/ refused' = refused /\ Goes(r, "failed")
  /\ UNCHANGED <<tickets, closed, running, review, branches, sweeps>>

AgentStarts(r) ==
  /\ Leaves(r, "waiting", "agent")
  /\ UNCHANGED <<tickets, github, sweeps>>

\* The agent ends, or fails: safe_outputs runs all the same, on what it asked for.
\* Its group is meant to be the branch's, but the job does not need the dispatch
\* job, so the branch in its name is empty and all runs share it.  When threat
\* detection fails there is no such job.
AgentEnds(r) ==
  /\ runs[r].phase = "agent"
  /\ Joins(r, "finalizing", "parked") \/ Goes(r, "failed")
  /\ UNCHANGED <<tickets, github, sweeps>>

FinalizeStarts(r) ==
  /\ Leaves(r, "parked", "finalizing")
  /\ UNCHANGED <<tickets, github, sweeps>>

\* The generated safe_outputs job carries out what the agent asked for, one request
\* at a time: the branch with its commits, and each of the two labels.
Finalizing(r) == runs[r].phase = "finalizing" /\ UNCHANGED <<tickets, runs, sweeps>>

Push(r) ==
  /\ Finalizing(r) /\ runs[r].branch \notin branches
  /\ branches' = branches \cup {runs[r].branch}
  /\ UNCHANGED <<closed, afk, running, review, refused>>

Unclaim(r) ==
  /\ Finalizing(r) /\ runs[r].ticket \in running
  /\ running' = running \ {runs[r].ticket}
  /\ UNCHANGED <<closed, afk, review, refused, branches>>

Review(r) ==
  /\ Finalizing(r) /\ runs[r].ticket \notin review
  /\ review' = review \cup {runs[r].ticket}
  /\ UNCHANGED <<closed, afk, running, refused, branches>>

\* It ends after any of them: the agent may not have asked for the others.  When a
\* request or the agent failed, so has the run.
FinalizeEnds(r) ==
  /\ runs[r].phase = "finalizing"
  /\ \E end \in {"done", "failed"} : Goes(r, end)
  /\ UNCHANGED <<tickets, github, sweeps>>

\* A person merges and closes.
Close(t) ==
  /\ t \in review /\ t \notin closed
  /\ closed' = closed \cup {t}
  /\ UNCHANGED <<tickets, afk, running, review, refused, branches, runs, sweeps>>

Job(r) == Decides(r) \/ Skips(r) \/ DispatchFails(r) \/ Claim(r) \/ Refuse(r)
            \/ AgentStarts(r) \/ AgentEnds(r) \/ FinalizeStarts(r)
            \/ Push(r) \/ Unclaim(r) \/ Review(r) \/ FinalizeEnds(r)

Next ==
  \/ \E t \in Tickets : Label(t) \/ OtherLabel(t) \/ Sweep(t) \/ Close(t)
  \/ \E r \in DOMAIN runs : Job(r)

Spec == Init /\ [][Next]_vars

-----------------------------------------------------------------------------
\* A labelling is never forgotten, in whatever order runs claim, refuse, fail, are
\* cancelled and give the claim back: its ticket shows a label or an answer, or this run
\* of it, or a later one, has failed or was handed to safe_outputs.  A run by hand may
\* take the label for an earlier run, which then answers for it.
ByHand(t) == \E m \in DOMAIN runs : runs[m].ticket = t /\ runs[m].kind = "manual"
Answered(q) == \/ runs[q].phase = "failed"
               \/ runs[q].branch # NoBranch /\ runs[q].phase \in {"finalizing", "done"}
NoTicketIsForgotten ==
  \A r \in DOMAIN runs : runs[r].kind = "label" =>
    LET t == runs[r].ticket IN
    \/ t \in afk \cup running \cup review \cup refused
    \/ \E q \in DOMAIN runs :
         runs[q].ticket = t /\ Answered(q) /\ (q >= r \/ ByHand(t))

\* A ticket under afk:running has a run in progress, or one that failed (system.md:
\* "Run in progress; the claim marker").
ClaimIsHeld ==
  \A t \in running : \E r \in DOMAIN runs :
    runs[r].ticket = t /\ (Active(r) \/ runs[r].phase = "failed")

\* Once nobody labels or dispatches any more, as MaxRuns has it, every run ends: none
\* waits for ever for the group of its issue, for the agent's one place or for that
\* of safe_outputs.
Ended(r) == runs[r].phase \in {"done", "failed", "cancelled"}
EveryRunEnds == []<>(\A r \in DOMAIN runs : Ended(r))

\* No run works on a ticket while an issue that blocks it is open (system.md: "If
\* any blocking-dependency edge points at a still-open issue, the decision is skip").
BlockedTicketWaits ==
  \A r \in DOMAIN runs :
    runs[r].branch # NoBranch => blockedBy[runs[r].ticket] \subseteq closed

\* No two runs are ever at work on one ticket (system.md: the per-issue group
\* "prevents the same issue being dispatched twice").
NoTicketTwice ==
  \A q, r \in DOMAIN runs :
    Active(q) /\ Active(r) /\ runs[q].ticket = runs[r].ticket => q = r

\* A run that has claimed its ticket is not cancelled while it waits for its place
\* (system.md: "excess runs queue"): the ticket would stay under afk:running.
ExcessRunsQueue == \A r \in InPhase("cancelled") : runs[r].branch = NoBranch

\* The run of an afk label is only cancelled for a later one of the same ticket's
\* label (system.md: "An agent wakes on the label").
LabelIsNotLost ==
  \A r \in InPhase("cancelled") : runs[r].kind = "label" /\ runs[r].branch = NoBranch
    => \E q \in DOMAIN runs : /\ q > r /\ runs[q].kind = "label"
                              /\ runs[q].ticket = runs[r].ticket

\* A run that waits to finalize waits for a run of its branch (afk.md: "Serialize
\* finalize per resolved spec branch").
FinalizeWaitsForItsBranch ==
  \A r \in InPhase("parked") : \E q \in DOMAIN runs :
    q # r /\ runs[q].branch = runs[r].branch

\* The tickets of a spec end on one branch (system.md: "one PR per spec").
OneBranchPerSpec ==
  \A q, r \in DOMAIN runs :
    /\ hasParent[runs[q].ticket] /\ hasParent[runs[r].ticket]
    /\ runs[q].branch # NoBranch /\ runs[r].branch # NoBranch
    /\ branchLine[runs[q].ticket] = "none" /\ branchLine[runs[r].ticket] = "none"
    => runs[q].branch = runs[r].branch

=============================================================================
