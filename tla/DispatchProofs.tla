--------------------------- MODULE DispatchProofs ---------------------------
(***************************************************************************)
(* Theorems about Dispatch and, last, about the Dashboard built beside it, *)
(* for any tickets, labels, branch lines, blockers and numbers of runs.    *)
(***************************************************************************)
EXTENDS Dashboard, FiniteSetTheorems, TLAPS

-----------------------------------------------------------------------------
(* Branches and phases.                                                     *)

LEMMA BranchIsNamed == NoBranch \notin Branches
BY DEF NoBranch, Branches, Declared, Shared

LEMMA Resolves ==
  ASSUME TypeOK, NEW t \in Tickets
  PROVE  ResolveBranch(t) \in Branches
<1>1. branchLine[t] \in {"none", "own", "shared"}
  BY DispatchAssumption DEF TypeOK
<1>2. \A b \in {"declared", "derived"} : <<t, b>> \in Branches
  BY DEF Branches
<1>3. Declared \in Branches /\ Shared \in Branches
  BY DEF Branches
<1> QED BY <1>1, <1>2, <1>3 DEF ResolveBranch, Own, Derived

Cleared == {"claiming", "waiting", "agent", "parked", "finalizing"}
Rows == [ticket : Tickets, kind : Kinds, phase : Phases, branch : Branches \cup {NoBranch}]
IsRow(row) ==
  /\ row \in Rows
  /\ row.phase \in Cleared => row.branch # NoBranch
  /\ row.phase = "queued" => row.branch = NoBranch

LEMMA RunsAreRows ==
  TypeOK => \A r \in DOMAIN runs : IsRow(runs[r])
BY DEF TypeOK, IsRow, Rows, Cleared

-----------------------------------------------------------------------------
(* What a step may do to the runs.                                          *)

\* The phases a run goes through.
Follows(old, new) ==
  \/ old = "queued" /\ new \in {"claiming", "refusing", "done", "failed", "cancelled"}
  \/ old = "claiming" /\ new \in {"waiting", "agent", "done", "failed"}
  \/ old = "refusing" /\ new \in {"done", "failed"}
  \/ old = "waiting" /\ new \in {"agent", "cancelled"}
  \/ old = "agent" /\ new \in {"parked", "finalizing", "failed"}
  \/ old = "parked" /\ new \in {"finalizing", "cancelled"}
  \/ old = "finalizing" /\ new \in {"done", "failed"}

\* A run keeps its ticket and its kind, and the branch it was cleared for; that of
\* another label has no more than an end.
Moved(old, new) ==
  /\ new.ticket = old.ticket /\ new.kind = old.kind
  /\ new.phase = old.phase \/ Follows(old.phase, new.phase)
  /\ new.branch = old.branch \/ (old.phase = "queued" /\ new.phase = "claiming")
  /\ old.kind = "other" /\ old.phase = "queued"
       => new.phase \in {"queued", "done", "cancelled"}

\* A run gets its turn only when it has its group, and no other moves meanwhile.
Turn(r) ==
  runs[r].phase = "queued" /\ runs'[r].phase \notin {"queued", "cancelled"}
    => IssueFree(r) /\ \A q \in DOMAIN runs : q # r => runs'[q] = runs[q]

\* A new run waits, and is the newest.
Fresh(r) ==
  /\ runs'[r].phase = "queued"
  /\ \A q \in DOMAIN runs' : q <= r

RunsStep ==
  /\ \E n \in 0..MaxRuns : DOMAIN runs' = 1..n
  /\ DOMAIN runs \subseteq DOMAIN runs'
  /\ \A r \in DOMAIN runs' : IsRow(runs'[r])
  /\ \A r \in DOMAIN runs' \ DOMAIN runs : Fresh(r)
  /\ \A r \in DOMAIN runs : Moved(runs[r], runs'[r]) /\ Turn(r)

LEMMA UnmovedStep ==
  ASSUME TypeOK, UNCHANGED runs
  PROVE  RunsStep
<1>1. \A r \in DOMAIN runs : IsRow(runs[r])
  BY RunsAreRows
<1>2. \A r \in DOMAIN runs : Moved(runs[r], runs'[r]) /\ Turn(r)
  <2> SUFFICES ASSUME NEW r \in DOMAIN runs
               PROVE  Moved(runs[r], runs'[r]) /\ Turn(r)
    OBVIOUS
  <2>1. runs'[r] = runs[r]
    OBVIOUS
  <2>2. runs[r].kind = "other" /\ runs[r].phase = "queued" => runs[r].phase = "queued"
    OBVIOUS
  <2> QED BY <2>1, <2>2 DEF Moved, Turn
<1> QED BY <1>1, <1>2 DEF TypeOK, RunsStep

LEMMA StartsStep ==
  ASSUME TypeOK, NEW t \in Tickets, NEW kind \in Kinds, Starts(t, kind)
  PROVE  /\ RunsStep
         /\ \A r \in DOMAIN runs' \ DOMAIN runs :
              runs'[r].ticket = t /\ runs'[r].kind = kind
         /\ \A r \in DOMAIN runs : runs'[r].phase \in {runs[r].phase, "cancelled"}
<1>1. PICK m \in 0..MaxRuns : DOMAIN runs = 1..m
  BY DEF TypeOK
<1>2. Cardinality(1..m) = m
  <2>1. m \in Int /\ 1 \in Int
    BY DispatchAssumption
  <2>2. Cardinality(1..m) = IF 1 > m THEN 0 ELSE m - 1 + 1
    BY <2>1, FS_Interval
  <2> QED BY <1>1, <2>1, <2>2, DispatchAssumption
<1> DEFINE n == m + 1
           new == [ticket |-> t, kind |-> kind, phase |-> "queued", branch |-> NoBranch]
           Superseded(r) == /\ runs[r].ticket = t /\ "manual" \notin {kind, runs[r].kind}
                            /\ runs[r].phase = "queued" /\ ~IssueFree(r)
<1>3. /\ n <= MaxRuns
      /\ runs' = [r \in 1..n |->
                    IF r = n THEN new
                    ELSE IF Superseded(r) THEN [runs[r] EXCEPT !.phase = "cancelled"]
                    ELSE runs[r]]
  BY <1>1, <1>2, Zenon DEF Starts
<1>4. /\ n \in 0..MaxRuns /\ DOMAIN runs' = 1..n
      /\ n \in 1..n /\ 1..m = (1..n) \ {n} /\ \A q \in 1..n : q <= n
  BY <1>1, <1>3, DispatchAssumption
<1>5. runs'[n] = new
  BY <1>3, <1>4
<1>6. IsRow(new) /\ Fresh(n)
  BY <1>4, <1>5 DEF IsRow, Rows, Fresh, Phases, Cleared
<1>7. ASSUME NEW r \in DOMAIN runs
      PROVE  /\ IsRow(runs'[r]) /\ Moved(runs[r], runs'[r]) /\ Turn(r)
             /\ runs'[r].phase \in {runs[r].phase, "cancelled"}
  <2>1. IsRow(runs[r]) /\ runs[r] \in Rows
    BY RunsAreRows DEF IsRow
  <2>2. CASE runs'[r] = runs[r]
    BY <2>1, <2>2 DEF Moved, Turn
  <2>3. CASE runs[r].phase = "queued" /\ runs'[r] = [runs[r] EXCEPT !.phase = "cancelled"]
    <3>1. /\ runs'[r] \in Rows /\ runs'[r].phase = "cancelled"
          /\ runs'[r].ticket = runs[r].ticket /\ runs'[r].kind = runs[r].kind
          /\ runs'[r].branch = runs[r].branch
      BY <2>1, <2>3 DEF Rows, Phases
    <3> QED BY <2>3, <3>1 DEF IsRow, Cleared, Moved, Follows, Turn
  <2>4. r \in 1..n /\ r # n
    BY <1>1, <1>4
  <2> QED BY <1>3, <2>2, <2>3, <2>4
<1>8. DOMAIN runs' \ DOMAIN runs = {n} /\ DOMAIN runs \subseteq DOMAIN runs'
  BY <1>1, <1>4
<1>9. RunsStep
  BY <1>4, <1>5, <1>6, <1>7, <1>8 DEF RunsStep
<1> QED BY <1>5, <1>7, <1>8, <1>9

\* One run moves on.
LEMMA OneMoves ==
  ASSUME TypeOK, NEW r \in DOMAIN runs, DOMAIN runs' = DOMAIN runs,
         \A q \in DOMAIN runs : q # r => runs'[q] = runs[q],
         IsRow(runs'[r]), Moved(runs[r], runs'[r]),
         runs[r].phase = "queued" => IssueFree(r)
  PROVE  RunsStep
<1>1. \A q \in DOMAIN runs : IsRow(runs[q])
  BY RunsAreRows
<1>2. ASSUME NEW q \in DOMAIN runs, q # r
      PROVE  IsRow(runs'[q]) /\ Moved(runs[q], runs'[q]) /\ Turn(q)
  BY <1>1, <1>2 DEF Moved, Turn
<1>3. Turn(r)
  BY DEF Turn
<1>4. \E n \in 0..MaxRuns : DOMAIN runs' = 1..n
  BY DEF TypeOK
<1> QED BY <1>2, <1>3, <1>4 DEF RunsStep

LEMMA GoesStep ==
  ASSUME TypeOK, NEW r \in DOMAIN runs, NEW phase, Goes(r, phase),
         Follows(runs[r].phase, phase), phase # "claiming",
         runs[r].phase = "queued" =>
           phase \in {"done", "failed"} /\ IssueFree(r)
             /\ (runs[r].kind = "other" => phase = "done")
  PROVE  /\ RunsStep /\ DOMAIN runs' = DOMAIN runs
         /\ runs'[r].phase = phase /\ runs'[r].branch = runs[r].branch
         /\ \A q \in DOMAIN runs : q # r => runs'[q] = runs[q]
<1>1. IsRow(runs[r]) /\ runs[r] \in Rows
  BY RunsAreRows DEF IsRow
<1>2. runs' = [runs EXCEPT ![r] = [runs[r] EXCEPT !.phase = phase]]
  BY DEF Goes
<1>3. DOMAIN runs' = DOMAIN runs /\ \A q \in DOMAIN runs : q # r => runs'[q] = runs[q]
  BY <1>2
<1>4. phase \in Phases \ {"queued"}
  BY DEF Follows, Phases
<1>5. /\ runs'[r] \in Rows /\ runs'[r].phase = phase
      /\ runs'[r].ticket = runs[r].ticket /\ runs'[r].kind = runs[r].kind
      /\ runs'[r].branch = runs[r].branch
  BY <1>1, <1>2, <1>4 DEF Rows
<1>6. phase \in Cleared => runs[r].branch # NoBranch
  BY <1>1 DEF Follows, Cleared, IsRow
<1>7. IsRow(runs'[r])
  BY <1>4, <1>5, <1>6 DEF IsRow
<1>8. Moved(runs[r], runs'[r])
  BY <1>5 DEF Moved
<1> QED BY <1>3, <1>5, <1>7, <1>8, OneMoves

LEMMA JoinsStep ==
  ASSUME TypeOK, NEW r \in DOMAIN runs, NEW place, NEW line, Joins(r, place, line),
         \/ runs[r].phase = "claiming" /\ place = "agent" /\ line = "waiting"
         \/ runs[r].phase = "agent" /\ place = "finalizing" /\ line = "parked"
  PROVE  /\ RunsStep /\ DOMAIN runs' = DOMAIN runs
         /\ runs'[r].phase \in {place, line}
         /\ \A q \in DOMAIN runs : q # r => runs'[q].phase \in {runs[q].phase, "cancelled"}
<1>1. \A q \in DOMAIN runs : IsRow(runs[q]) /\ runs[q] \in Rows
  BY RunsAreRows DEF IsRow
<1>2. Follows(runs[r].phase, place) /\ Follows(runs[r].phase, line)
  BY DEF Follows
<1>3. CASE InPhase(place) = {}
  <2>1. Goes(r, place)
    BY <1>3 DEF Joins
  <2> QED BY <1>1, <1>2, <2>1, GoesStep
<1>4. CASE InPhase(place) # {}
  <2>1. runs' = [q \in DOMAIN runs |->
                   IF q = r THEN [runs[q] EXCEPT !.phase = line]
                   ELSE IF runs[q].phase = line
                   THEN [runs[q] EXCEPT !.phase = "cancelled"]
                   ELSE runs[q]]
    BY <1>4 DEF Joins
  <2>2. ASSUME NEW q \in DOMAIN runs
        PROVE  /\ IsRow(runs'[q]) /\ Moved(runs[q], runs'[q]) /\ Turn(q)
               /\ q # r => runs'[q].phase \in {runs[q].phase, "cancelled"}
               /\ q = r => runs'[q].phase = line
    <3>1. CASE q = r
      <4>1. runs'[q] = [runs[q] EXCEPT !.phase = line]
        BY <2>1, <3>1
      <4>2. /\ runs'[q] \in Rows /\ runs'[q].phase = line
            /\ runs'[q].ticket = runs[q].ticket /\ runs'[q].kind = runs[q].kind
            /\ runs'[q].branch = runs[q].branch
        BY <1>1, <3>1, <4>1 DEF Rows, Phases
      <4>3. runs[q].branch # NoBranch
        BY <1>1, <3>1 DEF IsRow, Cleared
      <4> QED BY <1>2, <3>1, <4>2, <4>3 DEF IsRow, Moved, Turn
    <3>2. CASE q # r /\ runs[q].phase = line
      <4>1. runs'[q] = [runs[q] EXCEPT !.phase = "cancelled"]
        BY <2>1, <3>2
      <4>2. /\ runs'[q] \in Rows /\ runs'[q].phase = "cancelled"
            /\ runs'[q].ticket = runs[q].ticket /\ runs'[q].kind = runs[q].kind
            /\ runs'[q].branch = runs[q].branch
        BY <1>1, <4>1 DEF Rows, Phases
      <4> QED BY <3>2, <4>2 DEF IsRow, Cleared, Moved, Follows, Turn
    <3>3. CASE q # r /\ runs[q].phase # line
      <4>1. runs'[q] = runs[q]
        BY <2>1, <3>3
      <4> QED BY <1>1, <3>3, <4>1 DEF Moved, Turn
    <3> QED BY <3>1, <3>2, <3>3
  <2>3. DOMAIN runs' = DOMAIN runs /\ \E n \in 0..MaxRuns : DOMAIN runs' = 1..n
    BY <2>1 DEF TypeOK
  <2> QED BY <2>2, <2>3 DEF RunsStep
<1> QED BY <1>3, <1>4

LEMMA DecidesStep ==
  ASSUME TypeOK, NEW r \in DOMAIN runs, Decides(r)
  PROVE  /\ RunsStep /\ DOMAIN runs' = DOMAIN runs
         /\ runs'[r].phase \in {"claiming", "refusing", "done"}
         /\ \A q \in DOMAIN runs : q # r => runs'[q] = runs[q]
<1> DEFINE t == runs[r].ticket
<1>1. PICK openBlockers \in SUBSET (blockedBy[t] \ closed) :
        LET decision == Decide(t, openBlockers) IN
        runs' = [runs EXCEPT ![r].phase = Phase(decision),
                   ![r].branch = IF decision = "run" THEN ResolveBranch(t) ELSE NoBranch]
  BY DEF Decides
<1> DEFINE decision == Decide(t, openBlockers)
           branch == IF decision = "run" THEN ResolveBranch(t) ELSE NoBranch
<1>2. IsRow(runs[r]) /\ runs[r] \in Rows /\ t \in Tickets
  BY RunsAreRows DEF IsRow, Rows
<1>3. decision \in {"run", "refuse", "skip"}
  BY Zenon DEF Decide
<1>4. /\ Phase(decision) \in {"claiming", "refusing", "done"}
      /\ Phase(decision) = "claiming" <=> decision = "run"
  BY <1>3 DEF Phase
<1>5. /\ branch \in Branches \cup {NoBranch}
      /\ IF decision = "run" THEN branch # NoBranch ELSE branch = NoBranch
  BY <1>2, Resolves, BranchIsNamed
<1>6. /\ DOMAIN runs' = DOMAIN runs
      /\ runs'[r] = [runs[r] EXCEPT !.phase = Phase(decision), !.branch = branch]
      /\ \A q \in DOMAIN runs : q # r => runs'[q] = runs[q]
  BY <1>1
<1> HIDE DEF decision, branch
<1>7. /\ runs'[r].ticket = t /\ runs'[r].kind = runs[r].kind
      /\ runs'[r].phase = Phase(decision) /\ runs'[r].branch = branch
      /\ runs'[r] \in Rows
  BY <1>2, <1>4, <1>5, <1>6 DEF Rows, Phases
<1>8. IsRow(runs'[r])
  BY <1>4, <1>5, <1>7 DEF IsRow, Cleared
<1>9. runs[r].phase = "queued" /\ runs[r].branch = NoBranch /\ runs[r].kind # "other"
  BY <1>2 DEF Decides, IsRow
<1>10. Moved(runs[r], runs'[r])
  BY <1>4, <1>5, <1>7, <1>9 DEF Moved, Follows
<1>11. IssueFree(r)
  BY DEF Decides
<1> QED BY <1>4, <1>6, <1>7, <1>8, <1>10, <1>11, OneMoves

-----------------------------------------------------------------------------
(* What a step may do to the labels.                                        *)

LabelsOK == /\ closed \subseteq Tickets /\ afk \subseteq Tickets
            /\ running \subseteq Tickets /\ review \subseteq Tickets
            /\ refused \subseteq Tickets /\ branches \subseteq Branches
            /\ sweeps \in 0..MaxSweeps

Undecided == {"queued", "claiming", "refusing"}
Work == {"waiting", "agent", "parked"}
Shown(t) == t \in afk \cup running \cup review \cup refused

\* A labelling puts afk on a ticket that had none.  A run that decides takes it off, a
\* run that finalizes takes the claim off, and one of them answers for the ticket that
\* is left without any.  A run starts to work under afk:running.
LabelStep ==
  /\ LabelsOK' /\ UNCHANGED tickets
  /\ \A r \in DOMAIN runs' \ DOMAIN runs :
       runs'[r].kind = "label" => runs'[r].ticket \in afk' \ afk
  /\ \A t \in afk \ afk' : \E q \in DOMAIN runs :
       /\ runs[q].ticket = t /\ runs[q].phase \in {"claiming", "refusing"}
       /\ runs'[q].phase \notin Undecided
  /\ \A t \in running \ running' : \E q \in DOMAIN runs :
       runs[q].ticket = t /\ runs[q].phase = "finalizing"
  /\ \A t \in Tickets : Shown(t) /\ ~Shown(t)' => \E q \in DOMAIN runs :
       /\ runs[q].ticket = t /\ Answered(q)'
       /\ \/ runs[q].phase = "refusing"
          \/ runs[q].phase = "finalizing" /\ afk' = afk
  /\ \A r \in DOMAIN runs :
       runs'[r].phase \in Work => runs[r].phase \in Work \/ runs[r].ticket \in running'

\* A step of the runs that leaves the labels alone.
LEMMA QuietStep ==
  ASSUME TypeOK, UNCHANGED <<tickets, github, sweeps>>, DOMAIN runs' = DOMAIN runs,
         \A r \in DOMAIN runs : runs'[r].phase \in Work => runs[r].phase \in Work
  PROVE  LabelStep
BY DEF LabelStep, LabelsOK, TypeOK, github, Shown

LEMMA PersonSteps ==
  ASSUME TypeOK, NEW t \in Tickets, Label(t) \/ OtherLabel(t) \/ Sweep(t) \/ Close(t)
  PROVE  RunsStep /\ LabelStep
<1>1. CASE Label(t)
  <2>1. /\ RunsStep
        /\ \A r \in DOMAIN runs' \ DOMAIN runs : runs'[r].ticket = t
        /\ \A r \in DOMAIN runs : runs'[r].phase \in {runs[r].phase, "cancelled"}
    BY <1>1, StartsStep DEF Label, Kinds
  <2>2. LabelsOK'
    BY <1>1 DEF TypeOK, Label, LabelsOK
  <2> QED BY <1>1, <2>1, <2>2 DEF Label, LabelStep, Shown, Work
<1>2. CASE OtherLabel(t) \/ Sweep(t)
  <2>1. PICK kind \in {"other", "manual"} : Starts(t, kind)
    BY <1>2 DEF OtherLabel, Sweep
  <2>2. /\ RunsStep
        /\ \A r \in DOMAIN runs' \ DOMAIN runs : runs'[r].kind # "label"
        /\ \A r \in DOMAIN runs : runs'[r].phase \in {runs[r].phase, "cancelled"}
    BY <2>1, StartsStep DEF Kinds
  <2>3. LabelsOK' /\ UNCHANGED <<tickets, github>>
    BY <1>2, DispatchAssumption DEF TypeOK, OtherLabel, Sweep, LabelsOK, github
  <2> QED BY <2>2, <2>3 DEF LabelStep, Shown, Work, github
<1>3. CASE Close(t)
  <2>1. RunsStep
    BY <1>3, UnmovedStep DEF Close
  <2>2. LabelsOK'
    BY <1>3 DEF TypeOK, Close, LabelsOK
  <2> QED BY <1>3, <2>1, <2>2 DEF Close, LabelStep, Shown
<1> QED BY <1>1, <1>2, <1>3

LEMMA ClaimStep ==
  ASSUME TypeOK, NEW r \in DOMAIN runs, Claim(r)
  PROVE  RunsStep /\ LabelStep
<1>1. runs[r].ticket \in Tickets /\ runs[r].phase = "claiming"
  BY RunsAreRows DEF IsRow, Rows, Claim
<1>2. /\ RunsStep /\ DOMAIN runs' = DOMAIN runs
      /\ runs'[r].phase \in {"waiting", "agent", "failed", "done"}
      /\ \A q \in DOMAIN runs : q # r => runs'[q].phase \in {runs[q].phase, "cancelled"}
  <2>1. CASE Joins(r, "agent", "waiting")
    BY <1>1, <2>1, JoinsStep
  <2>2. CASE \E end \in {"failed", "done"} : Goes(r, end)
    <3>1. PICK end \in {"failed", "done"} : Goes(r, end)
      BY <2>2
    <3> QED BY <1>1, <3>1, GoesStep DEF Follows
  <2> QED BY <2>1, <2>2 DEF Claim, Activates
<1>3. LabelsOK'
  BY <1>1 DEF Claim, TypeOK, LabelsOK
<1>4. /\ running' = running \cup {runs[r].ticket} /\ afk' = afk \ {runs[r].ticket}
      /\ review' \in {review, review \ {runs[r].ticket}} /\ refused' = refused
      /\ UNCHANGED tickets
  BY DEF Claim
<1>5. \A t \in Tickets : Shown(t) => Shown(t)'
  BY <1>4 DEF Shown
<1>6. \A q \in DOMAIN runs :
        runs'[q].phase \in Work => runs[q].phase \in Work \/ runs[q].ticket \in running'
  BY <1>2, <1>4 DEF Work
<1> QED BY <1>1, <1>2, <1>3, <1>4, <1>5, <1>6 DEF LabelStep, Undecided

LEMMA RefuseStep ==
  ASSUME TypeOK, NEW r \in DOMAIN runs, Refuse(r)
  PROVE  RunsStep /\ LabelStep
<1>1. runs[r].ticket \in Tickets /\ runs[r].phase = "refusing"
  BY RunsAreRows DEF IsRow, Rows, Refuse
<1>2. PICK end \in {"done", "failed"} :
        /\ Goes(r, end)
        /\ end = "done" => refused' = refused \cup {runs[r].ticket}
        /\ end = "failed" => refused' = refused
  BY DEF Refuse
<1>3. /\ RunsStep /\ DOMAIN runs' = DOMAIN runs /\ runs'[r].phase = end
      /\ \A q \in DOMAIN runs : q # r => runs'[q] = runs[q]
  BY <1>1, <1>2, GoesStep DEF Follows
<1>4. LabelsOK'
  BY <1>1, <1>2 DEF Refuse, TypeOK, LabelsOK
<1>5. \A t \in Tickets : Shown(t) /\ ~Shown(t)' => t = runs[r].ticket /\ end = "failed"
  BY <1>2 DEF Refuse, Shown
<1> QED BY <1>1, <1>3, <1>4, <1>5 DEF Refuse, LabelStep, Undecided, Work, Answered

\* What safe_outputs does for a run that is finalizing, and its end.
LEMMA FinalizeStep ==
  ASSUME TypeOK, NEW r \in DOMAIN runs,
         Push(r) \/ Unclaim(r) \/ Review(r) \/ FinalizeEnds(r)
  PROVE  RunsStep /\ LabelStep
<1>1. /\ runs[r].ticket \in Tickets /\ runs[r].phase = "finalizing"
      /\ runs[r].branch \in Branches /\ runs[r].branch # NoBranch
  BY RunsAreRows DEF IsRow, Rows, Cleared, Push, Unclaim, Review, FinalizeEnds, Finalizing
<1>2. CASE Push(r) \/ Review(r)
  <2>1. RunsStep
    BY <1>2, UnmovedStep DEF Push, Review, Finalizing
  <2>2. LabelsOK'
    BY <1>1, <1>2 DEF Push, Review, Finalizing, TypeOK, LabelsOK
  <2> QED BY <1>2, <2>1, <2>2 DEF Push, Review, Finalizing, LabelStep, Shown
<1>3. CASE Unclaim(r)
  <2>1. RunsStep
    BY <1>3, UnmovedStep DEF Unclaim, Finalizing
  <2>2. LabelsOK'
    BY <1>1, <1>3 DEF Unclaim, Finalizing, TypeOK, LabelsOK
  <2>3. Answered(r)'
    BY <1>1, <1>3 DEF Unclaim, Finalizing, Answered
  <2>4. \A t \in Tickets : Shown(t) /\ ~Shown(t)' => t = runs[r].ticket
    BY <1>3 DEF Unclaim, Shown
  <2> QED BY <1>1, <1>3, <2>1, <2>2, <2>3, <2>4 DEF Unclaim, Finalizing, LabelStep
<1>4. CASE FinalizeEnds(r)
  <2>1. PICK end \in {"done", "failed"} : Goes(r, end)
    BY <1>4 DEF FinalizeEnds
  <2>2. /\ RunsStep /\ DOMAIN runs' = DOMAIN runs /\ runs'[r].phase = end
        /\ \A q \in DOMAIN runs : q # r => runs'[q] = runs[q]
    BY <1>1, <2>1, GoesStep DEF Follows
  <2>3. \A q \in DOMAIN runs : runs'[q].phase \in Work => runs[q].phase \in Work
    BY <2>2 DEF Work
  <2> QED BY <1>4, <2>2, <2>3, QuietStep DEF FinalizeEnds
<1> QED BY <1>2, <1>3, <1>4

LEMMA QuietJobSteps ==
  ASSUME TypeOK, NEW r \in DOMAIN runs,
         \/ Decides(r) \/ Skips(r) \/ DispatchFails(r)
         \/ AgentStarts(r) \/ AgentEnds(r) \/ FinalizeStarts(r)
  PROVE  RunsStep /\ LabelStep
<1>1. /\ RunsStep /\ DOMAIN runs' = DOMAIN runs
      /\ runs'[r].phase \in Work => runs[r].phase \in Work
      /\ \A q \in DOMAIN runs : q # r => runs'[q].phase \in {runs[q].phase, "cancelled"}
  <2>1. CASE Decides(r)
    BY <2>1, DecidesStep DEF Work
  <2>2. CASE Skips(r) \/ DispatchFails(r)
    <3>1. PICK end \in {"done", "failed"} :
            /\ Goes(r, end)
            /\ \/ runs[r].phase = "queued" /\ IssueFree(r) /\ runs[r].kind # "other"
               \/ runs[r].phase = "queued" /\ IssueFree(r) /\ end = "done"
               \/ runs[r].phase = "claiming"
      BY <2>2 DEF Skips, DispatchFails
    <3> QED BY <3>1, GoesStep DEF Follows, Work
  <2>3. CASE AgentStarts(r) \/ FinalizeStarts(r)
    <3>1. PICK place \in {"agent", "finalizing"} :
            Goes(r, place) /\ runs[r].phase = IF place = "agent" THEN "waiting" ELSE "parked"
      BY <2>3 DEF AgentStarts, FinalizeStarts, Leaves
    <3> QED BY <3>1, GoesStep DEF Follows, Work
  <2>4. CASE AgentEnds(r)
    <3>1. CASE Joins(r, "finalizing", "parked")
      BY <2>4, <3>1, JoinsStep DEF AgentEnds, Work
    <3>2. CASE Goes(r, "failed")
      BY <2>4, <3>2, GoesStep DEF AgentEnds, Follows, Work
    <3> QED BY <2>4, <3>1, <3>2 DEF AgentEnds
  <2> QED BY <2>1, <2>2, <2>3, <2>4
<1>2. UNCHANGED <<tickets, github, sweeps>>
  BY DEF Decides, Skips, DispatchFails, AgentStarts, AgentEnds, FinalizeStarts
<1>3. \A q \in DOMAIN runs : runs'[q].phase \in Work => runs[q].phase \in Work
  BY <1>1 DEF Work
<1> QED BY <1>1, <1>2, <1>3, QuietStep

LEMMA StepFacts ==
  ASSUME TypeOK, [Next]_vars
  PROVE  RunsStep /\ LabelStep
<1>1. CASE \E t \in Tickets : Label(t) \/ OtherLabel(t) \/ Sweep(t) \/ Close(t)
  BY <1>1, PersonSteps
<1>2. ASSUME NEW r \in DOMAIN runs, Job(r)
      PROVE  RunsStep /\ LabelStep
  BY <1>2, ClaimStep, RefuseStep, FinalizeStep, QuietJobSteps DEF Job
<1>3. CASE UNCHANGED vars
  BY <1>3, UnmovedStep, QuietStep DEF vars
<1> QED BY <1>1, <1>2, <1>3 DEF Next

-----------------------------------------------------------------------------
(* The invariant.                                                           *)

\* A run of another label never decides.
OtherIsIdle ==
  \A r \in DOMAIN runs :
    runs[r].kind = "other" => runs[r].phase \in {"queued", "done", "cancelled"}

\* The issue's group has one run at work.
OneInGroup ==
  \A q, r \in DOMAIN runs : Active(q) /\ Active(r) => ~SameGroup(q, r)

\* A labelling that nobody has acted on yet: its run decides, or was cancelled before.
Pending(r) == \/ runs[r].phase \in Undecided
              \/ runs[r].phase = "cancelled" /\ runs[r].branch = NoBranch
Labelled(r) == runs[r].kind = "label" /\ ~ByHand(runs[r].ticket)
Siblings(q, r) == Labelled(q) /\ Labelled(r) /\ runs[q].ticket = runs[r].ticket

\* Its ticket is under afk, so nobody labels it again; and while an earlier run of the
\* ticket is at work nobody acts on it.
PendingIsNewest ==
  \A r \in DOMAIN runs : Labelled(r) /\ Pending(r) =>
    /\ runs[r].ticket \in afk
    /\ \A q \in DOMAIN runs : Siblings(q, r) => q <= r

OlderFirst ==
  \A q, r \in DOMAIN runs : Siblings(q, r) /\ q < r /\ Active(q) => Pending(r)

IInv == /\ TypeOK /\ OtherIsIdle /\ OneInGroup
        /\ PendingIsNewest /\ OlderFirst /\ NoTicketIsForgotten

LEMMA TypeStep ==
  ASSUME TypeOK, RunsStep, LabelStep
  PROVE  TypeOK'
<1>1. \A r \in DOMAIN runs' : IsRow(runs'[r])
  BY DEF RunsStep
<1>2. DOMAIN runs' \in {1..n : n \in 0..MaxRuns}
  BY DEF RunsStep
<1> QED BY <1>1, <1>2 DEF TypeOK, LabelStep, LabelsOK, tickets, IsRow, Rows, Cleared

LEMMA IdleStep ==
  ASSUME OtherIsIdle, RunsStep
  PROVE  OtherIsIdle'
<1> SUFFICES ASSUME NEW r \in DOMAIN runs', runs'[r].kind = "other"
             PROVE  runs'[r].phase \in {"queued", "done", "cancelled"}
  BY DEF OtherIsIdle
<1>1. CASE r \in DOMAIN runs
  <2>1. Moved(runs[r], runs'[r])
    BY <1>1 DEF RunsStep
  <2> QED BY <1>1, <2>1 DEF Moved, Follows, OtherIsIdle
<1>2. CASE r \notin DOMAIN runs
  BY <1>2 DEF RunsStep, Fresh
<1> QED BY <1>1, <1>2

\* A run that becomes active was so, or has just had its turn.
LEMMA Awakes ==
  ASSUME RunsStep, NEW r \in DOMAIN runs', Active(r)'
  PROVE  /\ r \in DOMAIN runs
         /\ runs'[r].ticket = runs[r].ticket /\ runs'[r].kind = runs[r].kind
         /\ \/ Active(r)
            \/ /\ runs[r].phase = "queued" /\ IssueFree(r)
               /\ \A q \in DOMAIN runs : q # r => runs'[q] = runs[q]
<1>1. r \in DOMAIN runs
  BY DEF RunsStep, Fresh, Active
<1>2. Moved(runs[r], runs'[r]) /\ Turn(r)
  BY <1>1 DEF RunsStep
<1> QED BY <1>1, <1>2 DEF Moved, Follows, Turn, Active

LEMMA GroupStep ==
  ASSUME OneInGroup, RunsStep
  PROVE  OneInGroup'
<1> SUFFICES ASSUME NEW q \in DOMAIN runs', NEW r \in DOMAIN runs',
                    Active(q)', Active(r)', SameGroup(q, r)'
             PROVE  FALSE
  BY DEF OneInGroup
<1>1. q \in DOMAIN runs /\ r \in DOMAIN runs /\ SameGroup(q, r) /\ SameGroup(r, q)
  BY Awakes DEF SameGroup
<1>2. ASSUME NEW u \in {q, r}, NEW v \in {q, r}, SameGroup(v, u),
             runs[u].phase = "queued", IssueFree(u),
             \A w \in DOMAIN runs : w # u => runs'[w] = runs[w]
      PROVE  FALSE
  <2>1. Active(v)
    BY <1>1, <1>2 DEF SameGroup, Active
  <2> QED BY <1>1, <1>2, <2>1 DEF IssueFree
<1>3. CASE Active(q) /\ Active(r)
  BY <1>1, <1>3 DEF OneInGroup
<1> QED BY <1>1, <1>2, <1>3, Awakes

\* Two labellings of a ticket, after a step, were so before, or the later is new.
LEMMA Labellings ==
  ASSUME RunsStep, NEW r \in DOMAIN runs', Labelled(r)'
  PROVE  /\ r \in DOMAIN runs => Labelled(r) /\ Moved(runs[r], runs'[r])
         /\ \A q \in DOMAIN runs' : Siblings(q, r)' /\ q \in DOMAIN runs /\ r \in DOMAIN runs
              => Siblings(q, r)
<1>1. \A q \in DOMAIN runs : /\ q \in DOMAIN runs' /\ Moved(runs[q], runs'[q])
                             /\ runs'[q].ticket = runs[q].ticket
                             /\ runs'[q].kind = runs[q].kind
  BY DEF RunsStep, Moved
<1>2. ASSUME NEW q \in DOMAIN runs, Labelled(q)'
      PROVE  Labelled(q)
  BY <1>1, <1>2 DEF Labelled, ByHand
<1> QED BY <1>1, <1>2 DEF Siblings

\* A labelling that is pending after a step is new, or was pending before.
LEMMA PendingBefore ==
  ASSUME TypeOK, RunsStep, NEW r \in DOMAIN runs, Pending(r)'
  PROVE  Pending(r)
<1>1. IsRow(runs[r]) /\ Moved(runs[r], runs'[r])
  BY RunsAreRows DEF RunsStep
<1> QED BY <1>1 DEF Pending, Undecided, Moved, Follows, IsRow, Cleared

LEMMA NewestStep ==
  ASSUME IInv, RunsStep, LabelStep
  PROVE  PendingIsNewest'
<1> SUFFICES ASSUME NEW r \in DOMAIN runs', Labelled(r)', Pending(r)'
             PROVE  /\ runs'[r].ticket \in afk'
                    /\ \A q \in DOMAIN runs' : Siblings(q, r)' => q <= r
  BY DEF PendingIsNewest
<1>1. CASE r \notin DOMAIN runs
  BY <1>1 DEF RunsStep, Fresh, LabelStep, Labelled
<1>2. CASE r \in DOMAIN runs
  <2>1. Labelled(r) /\ runs'[r].ticket = runs[r].ticket
    BY <1>2, Labellings DEF Moved
  <2>2. Pending(r)
    BY <1>2, PendingBefore DEF IInv
  <2>3. runs[r].ticket \in afk /\ \A q \in DOMAIN runs : Siblings(q, r) => q <= r
    BY <1>2, <2>1, <2>2 DEF IInv, PendingIsNewest
  <2>4. ASSUME NEW q \in DOMAIN runs, runs[q].ticket = runs[r].ticket,
               runs[q].phase \in {"claiming", "refusing"}, runs'[q].phase \notin Undecided
        PROVE  FALSE
    <3>1. runs[q].kind = "label"
      BY <2>1, <2>4 DEF IInv, TypeOK, Kinds, OtherIsIdle, Labelled, ByHand
    <3>2. Siblings(q, r) /\ Siblings(r, q)
      BY <2>1, <2>4, <3>1 DEF Siblings, Labelled
    <3>3. Labelled(q) /\ Pending(q)
      BY <2>4, <3>2 DEF Siblings, Pending, Undecided
    <3>4. q <= r /\ r <= q
      BY <1>2, <2>3, <2>4, <3>2, <3>3 DEF IInv, PendingIsNewest
    <3>5. q = r
      BY <1>2, <2>4, <3>4 DEF IInv, TypeOK
    <3>6. runs'[q].phase = "cancelled" /\ Moved(runs[q], runs'[q])
      BY <1>2, <2>4, <3>5 DEF Pending, RunsStep
    <3> QED BY <2>4, <3>6 DEF Moved, Follows
  <2>5. runs'[r].ticket \in afk'
    BY <2>1, <2>3, <2>4 DEF LabelStep
  <2>6. ASSUME NEW q \in DOMAIN runs', Siblings(q, r)'
        PROVE  q <= r
    <3>1. CASE q \in DOMAIN runs
      BY <1>2, <2>3, <2>6, <3>1, Labellings
    <3>2. CASE q \notin DOMAIN runs
      <4>1. runs'[q].ticket \notin afk
        BY <2>6, <3>2 DEF LabelStep, Siblings, Labelled
      <4> QED BY <2>1, <2>3, <2>6, <4>1 DEF Siblings
    <3> QED BY <3>1, <3>2
  <2> QED BY <2>5, <2>6
<1> QED BY <1>1, <1>2

\* While an older run is at work the labelling stays pending: it has no turn, and it is
\* not at work itself.
LEMMA OlderStep ==
  ASSUME IInv, RunsStep
  PROVE  OlderFirst'
<1> SUFFICES ASSUME NEW q \in DOMAIN runs', NEW r \in DOMAIN runs',
                    Siblings(q, r)', q < r, Active(q)', ~Pending(r)'
             PROVE  FALSE
  BY DEF OlderFirst
<1>1. q \in DOMAIN runs
  BY Awakes
<1>2. r \in DOMAIN runs
  BY DEF RunsStep, Fresh, Pending, Undecided
<1>3. Siblings(q, r) /\ Siblings(r, q) /\ Labelled(q) /\ Labelled(r)
  <2>1. Labelled(r)'
    BY DEF Siblings
  <2>2. Siblings(q, r)
    BY <1>1, <1>2, <2>1, Labellings
  <2> QED BY <2>2 DEF Siblings
<1>4. SameGroup(q, r) /\ SameGroup(r, q) /\ ~(r <= q)
  <2>1. q \in Int /\ r \in Int
    BY <1>1, <1>2 DEF IInv, TypeOK
  <2> QED BY <1>3, <2>1 DEF SameGroup, Siblings, Labelled
<1>5. Active(q)
  <2>1. CASE runs[q].phase = "queued"
    <3>1. Pending(q)
      BY <2>1 DEF Pending, Undecided
    <3> QED BY <1>1, <1>2, <1>3, <1>4, <3>1 DEF IInv, PendingIsNewest
  <2> QED BY <2>1, Awakes
<1>6. Pending(r)
  BY <1>1, <1>2, <1>3, <1>5 DEF IInv, OlderFirst
<1>7. ~Active(r)
  BY <1>1, <1>2, <1>4, <1>5 DEF IInv, OneInGroup
<1>8. IsRow(runs[r]) /\ Moved(runs[r], runs'[r]) /\ Turn(r)
  BY <1>2, RunsAreRows DEF IInv, RunsStep
<1>9. runs[r].phase = "queued" /\ runs'[r].phase \notin {"queued", "cancelled"}
  BY <1>6, <1>7, <1>8 DEF Pending, Undecided, Active, Moved, Follows, IsRow
<1>10. IssueFree(r)
  BY <1>8, <1>9 DEF Turn
<1> QED BY <1>1, <1>4, <1>5, <1>10 DEF IssueFree

LEMMA AnsweredStays ==
  ASSUME RunsStep, NEW q \in DOMAIN runs, Answered(q)
  PROVE  Answered(q)'
<1>1. Moved(runs[q], runs'[q])
  BY DEF RunsStep
<1> QED BY <1>1 DEF Answered, Moved, Follows

\* What answers for a labelling.
Answer(t, r) ==
  \E q \in DOMAIN runs : runs[q].ticket = t /\ Answered(q) /\ (q >= r \/ ByHand(t))

LEMMA ForgottenStep ==
  ASSUME IInv, RunsStep, LabelStep
  PROVE  NoTicketIsForgotten'
<1> SUFFICES ASSUME NEW r \in DOMAIN runs', NEW t \in Tickets, runs'[r].ticket = t,
                    runs'[r].kind = "label", ~Shown(t)'
             PROVE  \E q \in DOMAIN runs' :
                      runs'[q].ticket = t /\ Answered(q)' /\ (q >= r \/ ByHand(t)')
  <2>1. \A r \in DOMAIN runs' : runs'[r].ticket \in Tickets
    BY DEF RunsStep, IsRow, Rows
  <2> QED BY <2>1 DEF NoTicketIsForgotten, Shown, ByHand
<1>1. r \in DOMAIN runs
  BY DEF LabelStep, Shown
<1>2. \A q \in DOMAIN runs : /\ q \in DOMAIN runs'
                             /\ runs'[q].ticket = runs[q].ticket
                             /\ runs'[q].kind = runs[q].kind
  BY DEF RunsStep, Moved
<1>3. runs[r].ticket = t /\ runs[r].kind = "label"
  BY <1>1, <1>2
<1>4. ByHand(t) => ByHand(t)'
  BY <1>2 DEF ByHand
<1>5. CASE Answer(t, r)
  <2>1. PICK q \in DOMAIN runs : runs[q].ticket = t /\ Answered(q) /\ (q >= r \/ ByHand(t))
    BY <1>5 DEF Answer
  <2>2. Answered(q)'
    BY <2>1, AnsweredStays
  <2> QED BY <1>2, <1>4, <2>1, <2>2
<1>6. CASE ~Answer(t, r)
  <2>1. Shown(t)
    BY <1>1, <1>3, <1>6 DEF IInv, NoTicketIsForgotten, Shown, Answer
  <2>2. PICK q \in DOMAIN runs :
          /\ runs[q].ticket = t /\ Answered(q)'
          /\ \/ runs[q].phase = "refusing"
             \/ runs[q].phase = "finalizing" /\ afk' = afk
    BY <2>1 DEF LabelStep
  <2>3. CASE ByHand(t)
    BY <1>2, <1>4, <2>2, <2>3
  <2>4. CASE ~ByHand(t)
    <3>1. Siblings(q, r) /\ Siblings(r, q) /\ Labelled(q) /\ Labelled(r)
      BY <1>1, <1>3, <2>2, <2>4 DEF IInv, TypeOK, Kinds, OtherIsIdle, Siblings,
                                    Labelled, ByHand
    <3>2. Active(q)
      BY <2>2 DEF Active
    <3>3. q \in Int /\ r \in Int
      BY <1>1 DEF IInv, TypeOK
    <3>4. ASSUME q < r
          PROVE  FALSE
      <4>1. Pending(r)
        BY <1>1, <3>1, <3>2, <3>4 DEF IInv, OlderFirst
      <4>2. t \in afk
        BY <1>1, <1>3, <3>1, <4>1 DEF IInv, PendingIsNewest
      <4>3. runs[q].phase = "refusing"
        BY <2>2, <4>2 DEF Shown
      <4>4. r <= q
        BY <1>1, <3>1, <4>3 DEF IInv, PendingIsNewest, Pending, Undecided
      <4> QED BY <3>3, <3>4, <4>4
    <3> QED BY <1>2, <2>2, <3>3, <3>4
  <2> QED BY <2>3, <2>4
<1> QED BY <1>5, <1>6

LEMMA Inductive == Spec => []IInv
<1>1. Init => IInv
  <2> SUFFICES ASSUME Init
               PROVE  IInv
    OBVIOUS
  <2>1. DOMAIN runs = {} /\ 1..0 = {} /\ 0 \in 0..MaxRuns /\ 0 \in 0..MaxSweeps
    BY DispatchAssumption DEF Init
  <2>2. TypeOK
    BY <2>1 DEF Init, TypeOK
  <2> QED BY <2>1, <2>2 DEF IInv, OtherIsIdle, OneInGroup, PendingIsNewest, OlderFirst,
                            NoTicketIsForgotten
<1>2. IInv /\ [Next]_vars => IInv'
  <2> SUFFICES ASSUME IInv, [Next]_vars
               PROVE  IInv'
    OBVIOUS
  <2>1. RunsStep /\ LabelStep
    BY StepFacts DEF IInv
  <2>2. TypeOK' /\ OtherIsIdle' /\ OneInGroup'
    BY <2>1, TypeStep, IdleStep, GroupStep DEF IInv
  <2>3. PendingIsNewest' /\ OlderFirst' /\ NoTicketIsForgotten'
    BY <2>1, NewestStep, OlderStep, ForgottenStep
  <2> QED BY <2>2, <2>3 DEF IInv
<1> QED BY <1>1, <1>2, PTL DEF Spec

-----------------------------------------------------------------------------
\* TypeOK: a run that has got to its claim has a branch, by every rung of the ladder.
THEOREM TypeCorrect == Spec => []TypeOK
<1>1. IInv => TypeOK
  BY DEF IInv
<1> QED BY <1>1, Inductive, PTL

\* NoTicketIsForgotten: no order of labellings, claims, refusals, cancelled and failed
\* runs and half-made requests leaves a labelled ticket without a label, an answer, or
\* a run that answers for it.
THEOREM ForgottenCorrect == Spec => []NoTicketIsForgotten
<1>1. IInv => NoTicketIsForgotten
  BY DEF IInv
<1> QED BY <1>1, Inductive, PTL

-----------------------------------------------------------------------------
(* The runs go on under the dashboard as they do without it.                *)

LEMMA DashStep == DashNext => [Next]_vars
<1>1. ASSUME NEW r \in DOMAIN runs, ClaimClears(r) \/ OtherJob(r)
      PROVE  Job(r)
  BY <1>1 DEF ClaimClears, OtherJob, Job
<1>2. ASSUME NEW t \in Tickets, MarkFailed(t) \/ Person(t)
      PROVE  Label(t) \/ OtherLabel(t) \/ Sweep(t) \/ Close(t) \/ UNCHANGED vars
  BY <1>2 DEF MarkFailed, Person
<1> QED BY <1>1, <1>2 DEF DashNext, Next

LEMMA DashSteps == [DashNext]_dashVars => [Next]_vars
BY DashStep DEF dashVars

LEMMA RunsAsDispatched == DashSpec => Spec
<1>1. DashInit => Init
  BY DEF DashInit
<1> QED BY <1>1, DashSteps, PTL DEF DashSpec, Spec

-----------------------------------------------------------------------------
(* Work is marked.                                                          *)

\* A run of the label that works on a ticket has marked it afk:running, and no other
\* takes the mark off.
WorkIsMarked ==
  \A r \in DOMAIN runs :
    runs[r].phase \in Work /\ ~ByHand(runs[r].ticket) => runs[r].ticket \in running

LEMMA MarkedStep ==
  ASSUME IInv, WorkIsMarked, [Next]_vars
  PROVE  WorkIsMarked'
<1> SUFFICES ASSUME NEW r \in DOMAIN runs', runs'[r].phase \in Work,
                    ~ByHand(runs[r].ticket)'
             PROVE  runs'[r].ticket \in running'
  BY DEF WorkIsMarked
<1>1. RunsStep /\ LabelStep
  BY StepFacts DEF IInv
<1>2. r \in DOMAIN runs
  BY <1>1 DEF RunsStep, Fresh, Work
<1>3. \A q \in DOMAIN runs : /\ q \in DOMAIN runs'
                             /\ runs'[q].ticket = runs[q].ticket
                             /\ runs'[q].kind = runs[q].kind
  BY <1>1 DEF RunsStep, Moved
<1>4. ~ByHand(runs[r].ticket)
  BY <1>2, <1>3 DEF ByHand
<1>5. CASE runs[r].phase \notin Work
  BY <1>1, <1>2, <1>3, <1>5 DEF LabelStep
<1>6. CASE runs[r].phase \in Work
  <2>1. runs[r].ticket \in running
    BY <1>2, <1>4, <1>6 DEF WorkIsMarked
  <2>2. ASSUME NEW q \in DOMAIN runs, runs[q].phase = "finalizing",
               runs[q].ticket = runs[r].ticket
        PROVE  FALSE
    <3>1. Active(q) /\ Active(r)
      BY <1>6, <2>2 DEF Active, Work
    <3>2. SameGroup(q, r)
      BY <1>2, <1>4, <1>6, <2>2 DEF SameGroup, ByHand, Work
    <3> QED BY <1>2, <2>2, <3>1, <3>2 DEF IInv, OneInGroup
  <2> QED BY <1>1, <1>2, <1>3, <2>1, <2>2 DEF LabelStep
<1> QED BY <1>5, <1>6

LEMMA Marked == DashSpec => []WorkIsMarked
<1>1. Init => WorkIsMarked
  BY DEF Init, WorkIsMarked
<1>2. IInv /\ WorkIsMarked /\ [Next]_vars => WorkIsMarked'
  BY MarkedStep
<1> QED BY <1>1, <1>2, Inductive, RunsAsDispatched, PTL DEF Spec

-----------------------------------------------------------------------------
\* A ticket that only runs of its labels work on, and that is open, is in the page's
\* graph and not in its review queue, whatever labels were left on it.
THEOREM WorkCorrect == DashSpec => []WorkIsNotForReview
<1>1. WorkIsMarked => WorkIsNotForReview
  <2> SUFFICES ASSUME WorkIsMarked, NEW r \in DOMAIN runs, runs[r].phase \in Work,
                      runs[r].ticket \notin closed, ~ByHand(runs[r].ticket)
               PROVE  runs[r].ticket \in Nodes /\ Panel(runs[r].ticket) # "needsReview"
    BY DEF WorkIsNotForReview, Work, ByHand
  <2>1. runs[r].ticket \in running
    BY DEF WorkIsMarked
  <2>2. Panel(runs[r].ticket) # "needsReview"
    BY <2>1 DEF Panel
  <2> QED BY <2>1, <2>2 DEF Nodes
<1> QED BY <1>1, Marked, PTL

=============================================================================
